--------------------------- MODULE WorkflowProofs ---------------------------
(***************************************************************************)
(* Proofs about Workflow, for any number of instances, users, requests and *)
(* steps, any overlap of requests and sweeps, with and without deaths, and *)
(* about Announcements, where webhooks deliver what the engine decided     *)
(* and scheduled notices are sent, and about Leave, whose requests wait    *)
(* for the engine's decisions.                                             *)
(***************************************************************************)
EXTENDS Announcements, Leave, FiniteSetTheorems, SequenceTheorems, SumTheorems, TLAPS

\* Requests and the sweep only hold rows that exist, and these name an initiator.
Initiated ==
    /\ \A i \in Instances : row[i].status # "ABSENT" => row[i].initiator \in Users
    /\ \A c \in Calls :
          pc[c] # "idle" => /\ req[c].copy.initiator \in Users
                            /\ row[req[c].inst].status # "ABSENT"
    /\ \A i \in DOMAIN todo : row[i].status # "ABSENT"

\* Whatever step a request saw, each earlier step had been approved by then.
CopyClimbed ==
    \A c \in Calls : \A s \in 1..(req[c].copy.step - 1) : ApprovedAt(req[c].inst, s)

\* A row that is not there yet is a row.
LEMMA AbsentRowType == AbsentRow \in Rows
<1>1. <<>> \in Seq(Entries)
  OBVIOUS
<1>2. QED
  BY <1>1, WorkflowAssumption DEF AbsentRow, Rows, Status, OpenStatus

\* What a scan of the table returns is a table of copies, possibly an empty one.
LEMMA CopiesType == \A S \in SUBSET Instances : \A f \in [S -> Rows] : IsCopies(f)
BY DEF IsCopies

LEMMA CopiesDomain ==
    ASSUME NEW f, IsCopies(f)
    PROVE  DOMAIN f \in SUBSET Instances /\ f \in [DOMAIN f -> Rows]
BY DEF IsCopies

LEMMA NoCopiesType == IsCopies(NoCopies)
<1>1. NoCopies \in [{} -> Rows] /\ {} \in SUBSET Instances
  BY DEF NoCopies
<1>2. QED
  BY <1>1, CopiesType

\* Storing a row of the right type keeps the table of rows well typed.
LEMMA StoreType ==
    ASSUME row \in [Instances -> Rows], NEW i \in Instances, NEW r \in Rows, Store(i, r)
    PROVE  row' \in [Instances -> Rows]
BY DEF Store

\* The initial state is well typed.
LEMMA TypeInit == Init => TypeOK
<1> USE WorkflowAssumption
<1>1. SUFFICES ASSUME Init PROVE TypeOK
  OBVIOUS
<1>2. NoRequest \in [inst : Instances, actor : Users, action : Actions, copy : Rows]
  BY AbsentRowType DEF NoRequest, Actions
<1>3. QED
  BY <1>1, <1>2, AbsentRowType, NoCopiesType DEF Init, TypeOK

\* Every step, a stuttering one included, keeps the state well typed.
LEMMA TypeStep == TypeOK /\ [Next]_vars => TypeOK'
<1> USE WorkflowAssumption
<1> SUFFICES ASSUME TypeOK, [Next]_vars PROVE TypeOK'
  OBVIOUS
<1> USE DEF TypeOK
<1>1. ASSUME NEW i \in Instances, NEW u \in Initiators, Initiate(i, u) PROVE TypeOK'
  <2>1. PICK h \in Holders[1] :
           Store(i, [status |-> "IN_PROGRESS", step |-> 1, assignee |-> h,
                     initiator |-> u, trail |-> <<>>, warned |-> FALSE])
    BY <1>1 DEF Initiate
  <2>2. h \in Users /\ <<>> \in Seq(Entries)
    OBVIOUS
  <2>3. [status |-> "IN_PROGRESS", step |-> 1, assignee |-> h,
         initiator |-> u, trail |-> <<>>, warned |-> FALSE] \in Rows
    BY <2>2 DEF Rows, Status, OpenStatus
  <2>4. QED
    BY <1>1, <2>1, <2>3, StoreType DEF Initiate
<1>2. ASSUME NEW c \in Calls, NEW i \in Instances, NEW u \in Users, NEW a \in Actions,
             Fetch(c, i, u, a)
      PROVE TypeOK'
  BY <1>2 DEF Fetch
<1>3. ASSUME NEW c \in Calls, Handle(c) PROVE TypeOK'
  <2> DEFINE i == req[c].inst
  <2>1. i \in Instances /\ row[i] \in Rows /\ req[c].copy \in Rows
    OBVIOUS
  <2>2. NewTrail(c) \in Seq(Entries)
    <3>1. Entry(c) \in Entries
      BY <2>1 DEF Entry, Entries, Rows
    <3>2. req[c].copy.trail \in Seq(Entries)
      BY <2>1 DEF Rows
    <3>3. QED
      BY <3>1, <3>2 DEF NewTrail
  <2>3. CASE WriteReject(c)
    <3>1. [row[i] EXCEPT !.status = "REJECTED", !.trail = NewTrail(c), !.assignee = Nobody] \in Rows
      BY <2>1, <2>2 DEF Rows, Status
    <3>2. QED
      BY <2>1, <2>3, <3>1, StoreType DEF WriteReject
  <2>4. CASE WriteRequestInfo(c)
    <3>1. [row[i] EXCEPT !.trail = NewTrail(c), !.assignee = req[c].copy.initiator] \in Rows
      BY <2>1, <2>2 DEF Rows
    <3>2. QED
      BY <2>1, <2>4, <3>1, StoreType DEF WriteRequestInfo
  <2>5. CASE WriteEscalate(c)
    <3>1. PICK h \in Escalation[req[c].copy.step] :
             Store(i, [row[i] EXCEPT !.status = "ESCALATED", !.trail = NewTrail(c),
                                     !.assignee = h])
      BY <2>5 DEF WriteEscalate
    <3>2. h \in Users
      BY <2>1 DEF Rows
    <3>3. [row[i] EXCEPT !.status = "ESCALATED", !.trail = NewTrail(c), !.assignee = h] \in Rows
      BY <2>1, <2>2, <3>2 DEF Rows, Status, OpenStatus
    <3>4. QED
      BY <2>1, <2>5, <3>1, <3>3, StoreType DEF WriteEscalate
  <2>6. CASE WriteAdvance(c)
    <3>1. PICK h \in Holders[req[c].copy.step + 1] :
             Store(i, [row[i] EXCEPT !.status = "IN_PROGRESS", !.step = req[c].copy.step + 1,
                                     !.trail = NewTrail(c), !.assignee = h,
                                     !.warned = req[c].copy.warned])
      BY <2>6 DEF WriteAdvance, NextHolders, NextStep
    <3>2. req[c].copy.step + 1 \in 1..Steps /\ req[c].copy.warned \in BOOLEAN
      BY <2>1, <2>6 DEF WriteAdvance, NextHolders, NextStep, OnLastStep, Rows
    <3>3. h \in Users
      BY <3>1, <3>2
    <3>4. [row[i] EXCEPT !.status = "IN_PROGRESS", !.step = req[c].copy.step + 1,
                         !.trail = NewTrail(c), !.assignee = h,
                         !.warned = req[c].copy.warned] \in Rows
      BY <2>1, <2>2, <3>2, <3>3 DEF Rows, Status, OpenStatus
    <3>5. QED
      BY <2>1, <2>6, <3>1, <3>4, StoreType DEF WriteAdvance, NextHolders, NextStep
  <2>7. CASE WriteApprove(c)
    <3>1. req[c].copy.warned \in BOOLEAN
      BY <2>1 DEF Rows
    <3>2. [row[i] EXCEPT !.status = "APPROVED", !.trail = NewTrail(c), !.assignee = Nobody,
                         !.warned = req[c].copy.warned] \in Rows
      BY <2>1, <2>2, <3>1 DEF Rows, Status
    <3>3. QED
      BY <2>1, <2>7, <3>2, StoreType DEF WriteApprove
  <2>8. CASE Unresolved(c) \/ RunEffect(c)
    BY <2>8 DEF Unresolved, RunEffect
  <2>9. QED
    BY <1>3, <2>3, <2>4, <2>5, <2>6, <2>7, <2>8 DEF Handle
<1>4. ASSUME NEW c \in Calls, CallDies(c) PROVE TypeOK'
  BY <1>4 DEF CallDies
<1>5. ASSUME Sweep PROVE TypeOK'
  <2>1. CASE SweepStart \/ SweepScan
    <3>1. PICK S \in SUBSET OpenRows : todo' = [i \in S |-> row[i]]
      BY <2>1 DEF SweepStart, SweepScan
    <3>2. S \in SUBSET Instances /\ [i \in S |-> row[i]] \in [S -> Rows]
      BY <3>1 DEF OpenRows
    <3>3. IsCopies([i \in S |-> row[i]])
      BY <3>2, CopiesType
    <3>4. QED
      BY <2>1, <3>1, <3>3 DEF SweepStart, SweepScan
  <2>2. CASE SweepEnd \/ SweepDies
    BY <2>2, NoCopiesType DEF SweepEnd, SweepDies
  <2>3. ASSUME NEW i \in Instances, SweepWarn(i) \/ SweepEscalate(i) \/ SweepSkip(i)
        PROVE TypeOK'
    <3>1. i \in DOMAIN todo /\ todo[i] \in Rows /\ row[i] \in Rows
      <4>1. i \in DOMAIN todo
        BY <2>3 DEF SweepWarn, SweepEscalate, SweepSkip
      <4>2. QED
        BY <4>1, CopiesDomain
    <3>2. todo' = Without(todo, i) /\ UNCHANGED <<pc, req, phase>>
      BY <2>3 DEF SweepWarn, SweepEscalate, SweepSkip
    <3>3. phase' \in {"idle", "warn", "breach"} /\ IsCopies(todo')
      <4>1. DOMAIN todo \in SUBSET Instances /\ todo \in [DOMAIN todo -> Rows]
        BY CopiesDomain
      <4>2. Without(todo, i) \in [DOMAIN todo \ {i} -> Rows]
        BY <4>1 DEF Without
      <4>3. IsCopies(Without(todo, i))
        BY <4>1, <4>2, CopiesType
      <4>4. QED
        BY <3>2, <4>3
    <3>4. row' \in [Instances -> Rows]
      <4>1. CASE SweepWarn(i)
        <5>1. [row[i] EXCEPT !.warned = TRUE] \in Rows
          BY <3>1 DEF Rows
        <5>2. QED
          BY <4>1, <5>1, StoreType DEF SweepWarn
      <4>2. CASE SweepEscalate(i)
        <5>1. PICK h \in Escalation[todo[i].step] :
                 Store(i, [row[i] EXCEPT !.status = "ESCALATED", !.assignee = h])
          BY <4>2 DEF SweepEscalate
        <5>2. h \in Users
          BY <3>1 DEF Rows
        <5>3. [row[i] EXCEPT !.status = "ESCALATED", !.assignee = h] \in Rows
          BY <3>1, <5>2 DEF Rows, Status, OpenStatus
        <5>4. QED
          BY <5>1, <5>3, StoreType
      <4>3. CASE SweepSkip(i)
        BY <4>3 DEF SweepSkip
      <4>4. QED
        BY <2>3, <4>1, <4>2, <4>3
    <3>5. QED
      BY <3>2, <3>3, <3>4
  <2>4. QED
    BY <1>5, <2>1, <2>2, <2>3 DEF Sweep
<1>6. CASE UNCHANGED vars
  BY <1>6 DEF vars
<1>7. QED
  BY <1>1, <1>2, <1>3, <1>4, <1>5, <1>6 DEF Next

(* The stored rows, the copies and the sweep always have their types: in     *)
(* particular no step number leaves the definition (processStep's lookup of  *)
(* steps[currentStep]).                                                      *)
THEOREM TypeCorrect == Spec => []TypeOK
BY TypeInit, TypeStep, PTL DEF Spec

-----------------------------------------------------------------------------
\* A request keeps what it wrote.
LEMMA WroteStays ==
    ASSUME TypeOK, [Next]_vars, NEW c \in Calls, Wrote(c)
    PROVE  Wrote(c)' /\ req'[c] = req[c]
<1> USE DEF Wrote, TypeOK
<1>1. ASSUME NEW j \in Instances, NEW u \in Initiators, Initiate(j, u)
      PROVE  Wrote(c)' /\ req'[c] = req[c]
  BY <1>1 DEF Initiate
<1>2. ASSUME NEW d \in Calls, NEW j \in Instances, NEW u \in Users, NEW a \in Actions,
             Fetch(d, j, u, a)
      PROVE  Wrote(c)' /\ req'[c] = req[c]
  BY <1>2 DEF Fetch
<1>3. ASSUME NEW d \in Calls, Handle(d)
      PROVE  Wrote(c)' /\ req'[c] = req[c]
  BY <1>3 DEF Handle, WriteReject, WriteRequestInfo, WriteEscalate, WriteAdvance,
              WriteApprove, Unresolved, RunEffect
<1>4. ASSUME NEW d \in Calls, CallDies(d)
      PROVE  Wrote(c)' /\ req'[c] = req[c]
  BY <1>4 DEF CallDies
<1>5. CASE Sweep
  BY <1>5 DEF Sweep, SweepStart, SweepScan, SweepEnd, SweepDies, SweepWarn, SweepEscalate,
              SweepSkip
<1>6. CASE UNCHANGED vars
  BY <1>6 DEF vars
<1>7. QED
  BY <1>1, <1>2, <1>3, <1>4, <1>5, <1>6 DEF Next

\* An approval once given stays given.
LEMMA ApprovedStays ==
    ASSUME TypeOK, [Next]_vars, NEW i \in Instances, NEW s \in 1..Steps, ApprovedAt(i, s)
    PROVE  ApprovedAt(i, s)'
<1>1. PICK c \in Calls : Wrote(c) /\ req[c].inst = i /\ req[c].action = "APPROVE"
                            /\ req[c].copy.step = s
  BY DEF ApprovedAt
<1>2. Wrote(c)' /\ req'[c] = req[c]
  BY <1>1, WroteStays
<1>3. QED
  BY <1>1, <1>2 DEF ApprovedAt

Climbed == NoStepSkipped /\ CopyClimbed

\* Most steps move no row up and read nothing: they keep Climbed.
LEMMA ClimbedKept ==
    ASSUME TypeOK, [Next]_vars, Climbed, req' = req,
           \A i \in Instances : /\ row'[i].step = row[i].step
                                /\ row'[i].status = "APPROVED" => row[i].status = "APPROVED"
    PROVE  Climbed'
<1> USE DEF Climbed
<1>1. NoStepSkipped'
  <2>1. SUFFICES ASSUME NEW i \in Instances
                 PROVE  /\ \A s \in 1..(row'[i].step - 1) : ApprovedAt(i, s)'
                        /\ row'[i].status = "APPROVED" => \A s \in 1..Steps : ApprovedAt(i, s)'
    BY DEF NoStepSkipped
  <2>2. row[i].step \in 1..Steps /\ Steps \in Nat
    BY WorkflowAssumption DEF TypeOK, Rows
  <2>3. ASSUME NEW s \in 1..(row'[i].step - 1) PROVE ApprovedAt(i, s)'
    <3>1. s \in 1..Steps /\ ApprovedAt(i, s)
      BY <2>2, <2>3 DEF NoStepSkipped
    <3>2. QED
      BY <3>1, ApprovedStays
  <2>4. ASSUME row'[i].status = "APPROVED", NEW s \in 1..Steps PROVE ApprovedAt(i, s)'
    <3>1. ApprovedAt(i, s)
      BY <2>4 DEF NoStepSkipped
    <3>2. QED
      BY <3>1, ApprovedStays
  <2>5. QED
    BY <2>3, <2>4
<1>2. CopyClimbed'
  <2>1. SUFFICES ASSUME NEW c \in Calls, NEW s \in 1..(req[c].copy.step - 1)
                 PROVE  ApprovedAt(req[c].inst, s)'
    BY DEF CopyClimbed
  <2>2. req[c].inst \in Instances /\ s \in 1..Steps
    BY WorkflowAssumption DEF TypeOK, Rows
  <2>3. QED
    BY <2>1, <2>2, ApprovedStays DEF CopyClimbed
<1>3. QED
  BY <1>1, <1>2

\* The request that approves a step adds the approval that was missing.
LEMMA ApprovalAdds ==
    ASSUME TypeOK, [Next]_vars, Climbed, NEW c \in Calls, req[c].action = "APPROVE",
           pc' = [pc EXCEPT ![c] = "effect"], req' = req,
           NEW s \in 1..req[c].copy.step
    PROVE  ApprovedAt(req[c].inst, s)'
<1>1. req[c].inst \in Instances /\ req[c].copy.step \in 1..Steps /\ s \in 1..Steps
  BY WorkflowAssumption DEF TypeOK, Rows
<1>2. CASE s = req[c].copy.step
  BY <1>2 DEF ApprovedAt, Wrote, TypeOK
<1>3. CASE s # req[c].copy.step
  <2>1. s \in 1..(req[c].copy.step - 1)
    BY <1>1, <1>3
  <2>2. QED
    BY <1>1, <2>1, ApprovedStays DEF Climbed, CopyClimbed
<1>4. QED
  BY <1>2, <1>3

LEMMA ClimbedStep == TypeOK /\ Climbed /\ [Next]_vars => Climbed'
<1> USE WorkflowAssumption
<1> SUFFICES ASSUME TypeOK, Climbed, [Next]_vars PROVE Climbed'
  OBVIOUS
<1>1. ASSUME NEW i \in Instances, NEW u \in Initiators, Initiate(i, u) PROVE Climbed'
  <2>1. PICK h \in Holders[1] :
           Store(i, [status |-> "IN_PROGRESS", step |-> 1, assignee |-> h,
                     initiator |-> u, trail |-> <<>>, warned |-> FALSE])
    BY <1>1 DEF Initiate
  <2>2. req' = req
    BY <1>1 DEF Initiate
  <2>3. ASSUME NEW j \in Instances
        PROVE  /\ \A s \in 1..(row'[j].step - 1) : ApprovedAt(j, s)'
               /\ row'[j].status = "APPROVED" => \A s \in 1..Steps : ApprovedAt(j, s)'
    <3>1. CASE j = i
      BY <2>1, <3>1 DEF Store, TypeOK
    <3>2. CASE j # i
      <4>1. row'[j] = row[j] /\ row[j].step \in 1..Steps
        BY <2>1, <3>2 DEF Store, TypeOK, Rows
      <4>2. QED
        BY <4>1, ApprovedStays DEF Climbed, NoStepSkipped
    <3>3. QED
      BY <3>1, <3>2
  <2>4. CopyClimbed'
    <3>1. SUFFICES ASSUME NEW c \in Calls, NEW s \in 1..(req[c].copy.step - 1)
                   PROVE  ApprovedAt(req[c].inst, s)'
      BY <2>2 DEF CopyClimbed
    <3>2. req[c].inst \in Instances /\ s \in 1..Steps
      BY DEF TypeOK, Rows
    <3>3. ApprovedAt(req[c].inst, s)
      BY <3>1 DEF Climbed, CopyClimbed
    <3>4. QED
      BY <2>2, <3>2, <3>3, ApprovedStays
  <2>5. QED
    BY <2>3, <2>4 DEF Climbed, NoStepSkipped
<1>2. ASSUME NEW c \in Calls, NEW i \in Instances, NEW u \in Users, NEW a \in Actions,
             Fetch(c, i, u, a)
      PROVE Climbed'
  <2>1. row' = row /\ \A j \in Instances : row[j].step \in 1..Steps
    BY <1>2 DEF Fetch, TypeOK, Rows
  <2>2. NoStepSkipped'
    <3>1. SUFFICES ASSUME NEW j \in Instances
                   PROVE  /\ \A s \in 1..(row[j].step - 1) : ApprovedAt(j, s)'
                          /\ row[j].status = "APPROVED" => \A s \in 1..Steps : ApprovedAt(j, s)'
      BY <2>1 DEF NoStepSkipped
    <3>2. QED
      BY <2>1, ApprovedStays DEF Climbed, NoStepSkipped
  <2>3. ASSUME NEW d \in Calls, NEW s \in 1..(req'[d].copy.step - 1)
        PROVE  ApprovedAt(req[d].inst, s)'
    <3>1. CASE d = c
      <4>1. req'[d].inst = i /\ req'[d].copy = row[i]
        BY <1>2, <3>1 DEF Fetch, TypeOK
      <4>2. s \in 1..Steps /\ ApprovedAt(i, s)
        BY <2>1, <2>3, <4>1 DEF Climbed, NoStepSkipped
      <4>3. QED
        BY <4>1, <4>2, ApprovedStays
    <3>2. CASE d # c
      <4>1. req'[d] = req[d]
        BY <1>2, <3>2 DEF Fetch, TypeOK
      <4>2. req[d].inst \in Instances /\ s \in 1..Steps /\ ApprovedAt(req[d].inst, s)
        <5>1. req[d].inst \in Instances /\ req[d].copy.step \in 1..Steps
          BY DEF TypeOK, Rows
        <5>2. s \in 1..(req[d].copy.step - 1)
          BY <2>3, <4>1
        <5>3. ApprovedAt(req[d].inst, s)
          BY <5>2 DEF Climbed, CopyClimbed
        <5>4. s \in 1..Steps
          BY <5>1, <5>2, WorkflowAssumption
        <5>5. QED
          BY <5>1, <5>3, <5>4
      <4>3. QED
        BY <4>1, <4>2, ApprovedStays
    <3>3. QED
      BY <3>1, <3>2
  <2>4. QED
    BY <2>2, <2>3 DEF Climbed, CopyClimbed
<1>3. ASSUME NEW c \in Calls, Handle(c) PROVE Climbed'
  <2> DEFINE i == req[c].inst
  <2>1. i \in Instances /\ row[i].step \in 1..Steps /\ req[c].copy.step \in 1..Steps
    BY DEF TypeOK, Rows
  <2>2. CASE WriteReject(c)
    BY <2>1, <2>2, ClimbedKept DEF WriteReject, Store, TypeOK, Rows
  <2>3. CASE WriteRequestInfo(c)
    BY <2>1, <2>3, ClimbedKept DEF WriteRequestInfo, Store, TypeOK, Rows
  <2>4. CASE WriteEscalate(c)
    BY <2>1, <2>4, ClimbedKept DEF WriteEscalate, Store, TypeOK, Rows
  <2>5. CASE WriteAdvance(c) \/ WriteApprove(c)
    <3>1. /\ req[c].action = "APPROVE"
          /\ pc' = [pc EXCEPT ![c] = "effect"]
          /\ req' = req
      BY <2>5 DEF WriteAdvance, NextHolders, WriteApprove
    <3>2. \A s \in 1..req[c].copy.step : ApprovedAt(req[c].inst, s)'
      BY <3>1, ApprovalAdds
    <3>3. /\ \/ row'[i].step = req[c].copy.step + 1 /\ row'[i].status = "IN_PROGRESS"
             \/ row'[i].step = row[i].step /\ req[c].copy.step = Steps
          /\ \A j \in Instances \ {i} : row'[j] = row[j]
      <4>1. row[i] \in Rows /\ row \in [Instances -> Rows]
        BY <2>1 DEF TypeOK
      <4>2. CASE WriteAdvance(c)
        <5>1. PICK h \in Holders[req[c].copy.step + 1] :
                 Store(i, [row[i] EXCEPT !.status = "IN_PROGRESS", !.step = req[c].copy.step + 1,
                                         !.trail = NewTrail(c), !.assignee = h,
                                         !.warned = req[c].copy.warned])
          BY <4>2 DEF WriteAdvance, NextHolders, NextStep
        <5>2. QED
          BY <2>1, <4>1, <5>1 DEF Store, Rows
      <4>3. CASE WriteApprove(c)
        <5>1. Store(i, [row[i] EXCEPT !.status = "APPROVED", !.trail = NewTrail(c),
                                      !.assignee = Nobody, !.warned = req[c].copy.warned])
          BY <4>3 DEF WriteApprove
        <5>2. req[c].copy.step = Steps
          BY <2>1, <4>3 DEF WriteApprove, OnLastStep
        <5>3. QED
          BY <2>1, <4>1, <5>1, <5>2 DEF Store, Rows
      <4>4. QED
        BY <2>5, <4>2, <4>3
    <3>4. ASSUME NEW j \in Instances
          PROVE  /\ \A s \in 1..(row'[j].step - 1) : ApprovedAt(j, s)'
                 /\ row'[j].status = "APPROVED" => \A s \in 1..Steps : ApprovedAt(j, s)'
      <4>1. CASE j = i
        <5>1. \A s \in 1..req[c].copy.step : ApprovedAt(j, s)'
          BY <3>1, <3>2, <4>1
        <5>2. QED
          BY <2>1, <3>3, <4>1, <5>1
      <4>2. CASE j # i
        <5>1. row'[j] = row[j] /\ row[j].step \in 1..Steps
          BY <3>3, <4>2 DEF TypeOK, Rows
        <5>2. QED
          BY <5>1, ApprovedStays DEF Climbed, NoStepSkipped
      <4>3. QED
        BY <4>1, <4>2
    <3>5. CopyClimbed'
      <4>1. SUFFICES ASSUME NEW d \in Calls, NEW s \in 1..(req[d].copy.step - 1)
                     PROVE  ApprovedAt(req[d].inst, s)'
        BY <3>1 DEF CopyClimbed
      <4>2. req[d].inst \in Instances /\ s \in 1..Steps /\ ApprovedAt(req[d].inst, s)
        BY DEF TypeOK, Rows, Climbed, CopyClimbed
      <4>3. QED
        BY <3>1, <4>2, ApprovedStays
    <3>6. QED
      BY <3>4, <3>5 DEF Climbed, NoStepSkipped
  <2>6. CASE Unresolved(c) \/ RunEffect(c)
    BY <2>6, ClimbedKept DEF Unresolved, RunEffect
  <2>7. QED
    BY <1>3, <2>2, <2>3, <2>4, <2>5, <2>6 DEF Handle
<1>4. ASSUME NEW c \in Calls, CallDies(c) PROVE Climbed'
  BY <1>4, ClimbedKept DEF CallDies
<1>5. CASE Sweep
  <2>1. req' = req
    BY <1>5 DEF Sweep, SweepStart, SweepScan, SweepEnd, SweepDies, SweepWarn, SweepEscalate,
                SweepSkip
  <2>2. \A j \in Instances : /\ row'[j].step = row[j].step
                             /\ row'[j].status = "APPROVED" => row[j].status = "APPROVED"
    <3>1. \A i \in Instances : row[i] \in Rows
      BY DEF TypeOK
    <3>2. CASE SweepStart \/ SweepScan \/ SweepEnd \/ SweepDies
      BY <3>2 DEF SweepStart, SweepScan, SweepEnd, SweepDies
    <3>3. ASSUME NEW i \in Instances, SweepWarn(i)
          PROVE  row' = row \/ Store(i, [row[i] EXCEPT !.warned = TRUE])
      BY <3>3 DEF SweepWarn
    <3>4. ASSUME NEW i \in Instances, SweepEscalate(i)
          PROVE  \E h \in Users : Store(i, [row[i] EXCEPT !.status = "ESCALATED", !.assignee = h])
      <4>1. todo[i].step \in 1..Steps
        BY <3>4, CopiesDomain DEF SweepEscalate, TypeOK, Rows
      <4>2. QED
        BY <3>4, <4>1 DEF SweepEscalate
    <3>5. ASSUME NEW i \in Instances, SweepSkip(i) PROVE row' = row
      BY <3>5 DEF SweepSkip
    <3>6. ASSUME NEW i \in Instances, SweepWarn(i) \/ SweepEscalate(i) \/ SweepSkip(i)
          PROVE  \A j \in Instances : /\ row'[j].step = row[j].step
                                      /\ row'[j].status = "APPROVED" => row[j].status = "APPROVED"
      <4>1. CASE row' = row
        BY <4>1
      <4>2. CASE Store(i, [row[i] EXCEPT !.warned = TRUE])
        BY <3>1, <4>2 DEF Store, TypeOK, Rows
      <4>3. CASE \E h \in Users : Store(i, [row[i] EXCEPT !.status = "ESCALATED", !.assignee = h])
        BY <3>1, <4>3 DEF Store, TypeOK, Rows
      <4>4. QED
        BY <3>3, <3>4, <3>5, <3>6, <4>1, <4>2, <4>3
    <3>7. QED
      BY <1>5, <3>2, <3>6 DEF Sweep
  <2>3. QED
    BY <2>1, <2>2, ClimbedKept
<1>6. CASE UNCHANGED vars
  BY <1>6, ClimbedKept DEF vars
<1>7. QED
  BY <1>1, <1>2, <1>3, <1>4, <1>5, <1>6 DEF Next

LEMMA ClimbedInit == Init => Climbed
<1> SUFFICES ASSUME Init PROVE Climbed
  OBVIOUS
<1>1. \A i \in Instances : row[i].step = 1 /\ row[i].status = "ABSENT"
  BY DEF Init, AbsentRow
<1>2. \A c \in Calls : req[c].copy.step = 1
  BY DEF Init, NoRequest, AbsentRow
<1>3. QED
  BY <1>1, <1>2 DEF Climbed, NoStepSkipped, CopyClimbed

(* Nothing skips a step of an approval chain, however requests, SLA sweeps   *)
(* and process deaths overlap: processStep advances only from the step the   *)
(* request read, and each earlier step had been approved when it read it.    *)
THEOREM ChainClimbed == Spec => []NoStepSkipped
<1>1. TypeOK /\ Climbed /\ [Next]_vars => (TypeOK /\ Climbed)'
  BY TypeStep, ClimbedStep
<1>2. Climbed => NoStepSkipped
  BY DEF Climbed
<1>3. QED
  BY <1>1, <1>2, TypeInit, ClimbedInit, PTL DEF Spec
-----------------------------------------------------------------------------
\* A row written with a known initiator and, if open, an assignee is no orphan.
Staffed(r) ==
    /\ r.status # "ABSENT"
    /\ r.initiator \in Users
    /\ r.status \in OpenStatus => r.assignee # Nobody

Inbox == NoOrphan /\ Initiated

LEMMA InboxStored ==
    ASSUME TypeOK, Inbox, NEW i \in Instances, NEW r \in Rows, Store(i, r), Staffed(r),
           UNCHANGED req, \A c \in Calls : pc'[c] # "idle" => pc[c] # "idle",
           DOMAIN todo' \subseteq DOMAIN todo
    PROVE  Inbox'
<1>1. \A j \in Instances : row'[j] = IF j = i THEN r ELSE row[j]
  BY DEF Store, TypeOK
<1>2. DOMAIN todo \subseteq Instances
  BY CopiesDomain DEF TypeOK
<1>3. NoOrphan'
  BY <1>1 DEF Inbox, NoOrphan, Staffed
<1>4. Initiated'
  BY <1>1, <1>2 DEF Inbox, Initiated, Staffed, TypeOK
<1>5. QED
  BY <1>3, <1>4 DEF Inbox

LEMMA InboxStep == TypeOK /\ Inbox /\ [Next]_vars => Inbox'
<1> USE WorkflowAssumption
<1> SUFFICES ASSUME TypeOK, Inbox, [Next]_vars PROVE Inbox'
  OBVIOUS
<1>1. ASSUME NEW i \in Instances, NEW u \in Initiators, Initiate(i, u) PROVE Inbox'
  <2>1. PICK h \in Holders[1] :
           Store(i, [status |-> "IN_PROGRESS", step |-> 1, assignee |-> h,
                     initiator |-> u, trail |-> <<>>, warned |-> FALSE])
    BY <1>1 DEF Initiate
  <2>2. h \in Users /\ u \in Users /\ <<>> \in Seq(Entries)
    OBVIOUS
  <2> DEFINE r == [status |-> "IN_PROGRESS", step |-> 1, assignee |-> h,
                   initiator |-> u, trail |-> <<>>, warned |-> FALSE]
  <2>3. r \in Rows /\ Staffed(r) /\ r.status # "ABSENT"
    BY <2>2 DEF Rows, Status, OpenStatus, Staffed
  <2>4. UNCHANGED <<pc, req, phase, todo>>
    BY <1>1 DEF Initiate
  <2>5. QED
    BY <2>1, <2>3, <2>4, InboxStored
<1>2. ASSUME NEW c \in Calls, NEW i \in Instances, NEW u \in Users, NEW a \in Actions,
             Fetch(c, i, u, a)
      PROVE Inbox'
  BY <1>2 DEF Fetch, MayAct, OpenStatus, Inbox, NoOrphan, Initiated, TypeOK
<1>3. ASSUME NEW c \in Calls, Handle(c) PROVE Inbox'
  <2> DEFINE i == req[c].inst
  <2>1. /\ i \in Instances /\ row[i] \in Rows /\ req[c].copy \in Rows
        /\ NewTrail(c) \in Seq(Entries)
    <3>1. Entry(c) \in Entries /\ req[c].copy.trail \in Seq(Entries)
      BY DEF Entry, Entries, Rows, TypeOK
    <3>2. QED
      BY <3>1 DEF NewTrail, TypeOK
  <2>2. pc[c] # "idle" => /\ req[c].copy.initiator \in Users
                          /\ row[i].initiator \in Users
                          /\ row[i].status # "ABSENT"
    BY <2>1 DEF Inbox, Initiated
  <2>3. CASE WriteReject(c)
    <3> DEFINE r == [row[i] EXCEPT !.status = "REJECTED", !.trail = NewTrail(c),
                                   !.assignee = Nobody]
    <3>1. r \in Rows /\ Staffed(r)
      BY <2>1, <2>2, <2>3 DEF WriteReject, Rows, Status, Staffed, OpenStatus
    <3>2. QED
      BY <2>1, <2>3, <3>1, InboxStored DEF WriteReject, TypeOK
  <2>4. CASE WriteRequestInfo(c)
    <3> DEFINE r == [row[i] EXCEPT !.trail = NewTrail(c), !.assignee = req[c].copy.initiator]
    <3>1. r \in Rows /\ Staffed(r)
      BY <2>1, <2>2, <2>4 DEF WriteRequestInfo, Rows, Staffed
    <3>2. QED
      BY <2>1, <2>4, <3>1, InboxStored DEF WriteRequestInfo, TypeOK
  <2>5. CASE WriteEscalate(c)
    <3>1. PICK h \in Escalation[req[c].copy.step] :
             Store(i, [row[i] EXCEPT !.status = "ESCALATED", !.trail = NewTrail(c),
                                     !.assignee = h])
      BY <2>5 DEF WriteEscalate
    <3>2. h \in Users /\ h # Nobody
      BY <2>1 DEF Rows
    <3> DEFINE r == [row[i] EXCEPT !.status = "ESCALATED", !.trail = NewTrail(c), !.assignee = h]
    <3>3. r \in Rows /\ Staffed(r)
      BY <2>1, <2>2, <2>5, <3>2 DEF WriteEscalate, Rows, Status, Staffed, OpenStatus
    <3>4. QED
      BY <2>1, <2>5, <3>1, <3>3, InboxStored DEF WriteEscalate, TypeOK
  <2>6. CASE WriteAdvance(c)
    <3>1. PICK h \in Holders[req[c].copy.step + 1] :
             Store(i, [row[i] EXCEPT !.status = "IN_PROGRESS", !.step = req[c].copy.step + 1,
                                     !.trail = NewTrail(c), !.assignee = h,
                                     !.warned = req[c].copy.warned])
      BY <2>6 DEF WriteAdvance, NextHolders, NextStep
    <3>2. req[c].copy.step + 1 \in 1..Steps /\ req[c].copy.warned \in BOOLEAN
      BY <2>1, <2>6 DEF WriteAdvance, NextHolders, NextStep, OnLastStep, Rows
    <3>3. h \in Users /\ h # Nobody
      BY <3>1, <3>2
    <3> DEFINE r == [row[i] EXCEPT !.status = "IN_PROGRESS", !.step = req[c].copy.step + 1,
                                   !.trail = NewTrail(c), !.assignee = h,
                                   !.warned = req[c].copy.warned]
    <3>4. r \in Rows /\ Staffed(r)
      BY <2>1, <2>2, <2>6, <3>2, <3>3 DEF WriteAdvance, NextHolders, NextStep, Rows, Status, Staffed, OpenStatus
    <3>5. QED
      BY <2>1, <2>6, <3>1, <3>4, InboxStored DEF WriteAdvance, NextHolders, NextStep, TypeOK
  <2>7. CASE WriteApprove(c)
    <3> DEFINE r == [row[i] EXCEPT !.status = "APPROVED", !.trail = NewTrail(c),
                                   !.assignee = Nobody, !.warned = req[c].copy.warned]
    <3>1. r \in Rows /\ Staffed(r)
      <4>1. req[c].copy.warned \in BOOLEAN
        BY <2>1 DEF Rows
      <4>2. QED
        BY <2>1, <2>2, <2>7, <4>1 DEF WriteApprove, Rows, Status, Staffed, OpenStatus
    <3>2. QED
      BY <2>1, <2>7, <3>1, InboxStored DEF WriteApprove, TypeOK
  <2>8. CASE Unresolved(c) \/ RunEffect(c)
    BY <2>8 DEF Unresolved, RunEffect, Inbox, NoOrphan, Initiated, TypeOK
  <2>9. QED
    BY <1>3, <2>3, <2>4, <2>5, <2>6, <2>7, <2>8 DEF Handle
<1>4. ASSUME NEW c \in Calls, CallDies(c) PROVE Inbox'
  BY <1>4 DEF CallDies, Inbox, NoOrphan, Initiated, TypeOK
<1>5. CASE Sweep
  <2>1. CASE SweepStart \/ SweepScan
    <3>1. PICK S \in SUBSET OpenRows : todo' = [i \in S |-> row[i]]
      BY <2>1 DEF SweepStart, SweepScan
    <3>2. \A i \in DOMAIN todo' : row[i].status # "ABSENT"
      BY <3>1 DEF OpenRows, OpenStatus
    <3>3. QED
      BY <2>1, <3>2 DEF SweepStart, SweepScan, Inbox, NoOrphan, Initiated
  <2>2. CASE SweepEnd \/ SweepDies
    <3>1. DOMAIN todo' = {} /\ UNCHANGED <<row, pc, req>>
      BY <2>2 DEF SweepEnd, SweepDies, NoCopies
    <3>2. QED
      BY <3>1 DEF Inbox, NoOrphan, Initiated
  <2>3. ASSUME NEW i \in Instances, SweepWarn(i) \/ SweepEscalate(i) \/ SweepSkip(i)
        PROVE  Inbox'
    <3>1. /\ UNCHANGED <<pc, req>>
          /\ i \in DOMAIN todo
          /\ todo' = Without(todo, i)
      BY <2>3 DEF SweepWarn, SweepEscalate, SweepSkip
    <3>2. DOMAIN todo' \subseteq DOMAIN todo
      BY <3>1 DEF TypeOK, Without
    <3>3. row[i] \in Rows /\ Staffed(row[i]) /\ todo[i].step \in 1..Steps
      BY <3>1, CopiesDomain DEF TypeOK, Staffed, Inbox, NoOrphan, Initiated, Rows
    <3>4. CASE row' = row
      BY <3>1, <3>2, <3>4 DEF Inbox, NoOrphan, Initiated
    <3>5. CASE Store(i, [row[i] EXCEPT !.warned = TRUE])
      <4>1. [row[i] EXCEPT !.warned = TRUE] \in Rows /\ Staffed([row[i] EXCEPT !.warned = TRUE])
        BY <3>3 DEF Rows, Staffed
      <4>2. QED
        BY <3>1, <3>2, <3>5, <4>1, InboxStored
    <3>6. CASE SweepEscalate(i)
      <4>1. PICK h \in Escalation[todo[i].step] :
               Store(i, [row[i] EXCEPT !.status = "ESCALATED", !.assignee = h])
        BY <3>6 DEF SweepEscalate
      <4>2. h \in Users /\ h # Nobody
        BY <3>3
      <4> DEFINE r == [row[i] EXCEPT !.status = "ESCALATED", !.assignee = h]
      <4>3. r \in Rows /\ Staffed(r)
        BY <3>3, <4>2 DEF Rows, Status, OpenStatus, Staffed
      <4>4. QED
        BY <3>1, <3>2, <4>1, <4>3, InboxStored
    <3>7. QED
      BY <2>3, <3>4, <3>5, <3>6 DEF SweepWarn, SweepSkip
  <2>4. QED
    BY <1>5, <2>1, <2>2, <2>3 DEF Sweep
<1>6. CASE UNCHANGED vars
  BY <1>6 DEF vars, Inbox, NoOrphan, Initiated
<1>7. QED
  BY <1>1, <1>2, <1>3, <1>4, <1>5, <1>6 DEF Next

(* An open instance always waits in somebody's inbox, however requests, SLA  *)
(* sweeps and deaths overlap: every write that opens a row also assigns it,  *)
(* and only the writes that close a row clear its assignee.                  *)
THEOREM NothingOrphaned == Spec => []NoOrphan
<1>1. Init => Inbox
  BY DEF Init, AbsentRow, NoCopies, Inbox, NoOrphan, Initiated, OpenStatus
<1>2. TypeOK /\ Inbox /\ [Next]_vars => (TypeOK /\ Inbox)'
  BY TypeStep, InboxStep
<1>3. Inbox => NoOrphan
  BY DEF Inbox
<1>4. QED
  BY <1>1, <1>2, <1>3, TypeInit, PTL DEF Spec

-----------------------------------------------------------------------------
(* Requests and sweeps one at a time *)

Going(c) == pc[c] \in {"fetched", "effect"}

\* Only one request is under way, and none while the sweep is.
OneGoing ==
    /\ \A c, d \in Calls : Going(c) /\ Going(d) => c = d
    /\ \A c \in Calls : Going(c) => phase = "idle"
    /\ phase = "idle" => DOMAIN todo = {}

\* What a request or the sweep read of an open row is still so.
Current ==
    /\ \A c \in Calls :
          pc[c] = "fetched" => /\ req[c].copy = row[req[c].inst]
                               /\ row[req[c].inst].status \in OpenStatus
    /\ \A i \in DOMAIN todo :
          /\ row[i].status \in OpenStatus
          /\ todo[i].step = row[i].step

\* The approvals in the history of r are those of the steps before the one it is at, or all.
TrailGood(r) ==
    /\ \A n \in Approvals(r.trail) : r.trail[n].step < r.step \/ r.status = "APPROVED"
    /\ \A m, n \in Approvals(r.trail) : m < n => r.trail[m].step < r.trail[n].step
    /\ \A s \in 1..Steps : s < r.step \/ r.status = "APPROVED" =>
          \E n \in Approvals(r.trail) : r.trail[n].step = s

\* Who an open row is assigned to, and who acts, is entitled to at its step.
EntitledOnly ==
    \A i \in Instances, s \in 1..Steps :
        /\ row[i].status \in OpenStatus /\ row[i].step = s => row[i].assignee \in Entitled(i, s)
        /\ \A c \in Calls :
              pc[c] # "idle" /\ req[c].inst = i /\ req[c].copy.step = s
                  => req[c].actor \in Entitled(i, s)

\* A request that decides its instance.
Final(c) == req[c].action = "REJECT" \/ (req[c].action = "APPROVE" /\ OnLastStep(c))

\* An instance is decided by one request.
DecidedByOne ==
    /\ \A c \in Calls : Wrote(c) /\ Final(c) => row[req[c].inst].status \in {"APPROVED", "REJECTED"}
    /\ \A c, d \in Calls : Wrote(c) /\ Final(c) /\ Wrote(d) /\ Final(d) /\ req[c].inst = req[d].inst => c = d

\* A row that is not there yet is at the first step.
Unbegun == \A i \in Instances : row[i].status = "ABSENT" => row[i].step = 1

InTurn ==
    /\ OneGoing
    /\ Unbegun
    /\ Current
    /\ \A i \in Instances : TrailGood(row[i])
    /\ EntitledOnly
    /\ DecidedByOne

\* The request c replaces its row by r.
Writes(c, r) ==
    /\ pc[c] = "fetched"
    /\ Store(req[c].inst, r)
    /\ r.initiator = row[req[c].inst].initiator
    /\ r.trail = NewTrail(c)
    /\ UNCHANGED <<req, phase, todo>>
    /\ \/ /\ req[c].action = "REJECT"
          /\ r.status = "REJECTED" /\ r.step = row[req[c].inst].step
          /\ pc' = [pc EXCEPT ![c] = "effect"]
       \/ /\ req[c].action = "REQUEST_INFO"
          /\ r.status = row[req[c].inst].status /\ r.step = row[req[c].inst].step
          /\ r.assignee = req[c].copy.initiator
          /\ pc' = [pc EXCEPT ![c] = "done"]
       \/ /\ req[c].action = "ESCALATE"
          /\ r.status = "ESCALATED" /\ r.step = row[req[c].inst].step
          /\ r.assignee \in Escalation[req[c].copy.step]
          /\ pc' = [pc EXCEPT ![c] = "done"]
       \/ /\ req[c].action = "APPROVE" /\ ~OnLastStep(c)
          /\ r.status = "IN_PROGRESS" /\ r.step = req[c].copy.step + 1
          /\ r.assignee \in Holders[req[c].copy.step + 1]
          /\ pc' = [pc EXCEPT ![c] = "effect"]
       \/ /\ req[c].action = "APPROVE" /\ OnLastStep(c)
          /\ r.status = "APPROVED" /\ r.step = row[req[c].inst].step
          /\ pc' = [pc EXCEPT ![c] = "effect"]

\* The request c goes on or ends without writing.
Ends(c) ==
    /\ UNCHANGED <<row, req, phase, todo>>
    /\ \/ pc[c] = "fetched" /\ pc' = [pc EXCEPT ![c] = "failed"]
       \/ pc[c] = "effect" /\ \E place \in {"done", "lost"} : pc' = [pc EXCEPT ![c] = place]

LEMMA HandleWrites ==
    ASSUME TypeOK, NEW c \in Calls, Handle(c) \/ CallDies(c)
    PROVE  Ends(c) \/ \E r \in Rows : Writes(c, r)
<1> DEFINE i == req[c].inst
<1>1. i \in Instances /\ row[i] \in Rows /\ req[c].copy \in Rows
  BY DEF TypeOK
<1>2. NewTrail(c) \in Seq(Entries)
  <2>1. Entry(c) \in Entries /\ req[c].copy.trail \in Seq(Entries)
    BY DEF Entry, Entries, Rows, TypeOK
  <2>2. QED
    BY <2>1 DEF NewTrail
<1>3. CASE WriteReject(c)
  <2> DEFINE r == [row[i] EXCEPT !.status = "REJECTED", !.trail = NewTrail(c), !.assignee = Nobody]
  <2>1. /\ r \in Rows /\ r.initiator = row[i].initiator /\ r.trail = NewTrail(c)
        /\ r.status = "REJECTED" /\ r.step = row[i].step
    BY <1>1, <1>2 DEF Rows, Status
  <2>2. Writes(c, r)
    <3>1. Store(i, r)
      BY <1>3 DEF WriteReject
    <3> HIDE DEF r
    <3>2. QED
      BY <1>3, <2>1, <3>1 DEF WriteReject, Writes
  <2>3. QED
    BY <2>1, <2>2
<1>4. CASE WriteRequestInfo(c)
  <2> DEFINE r == [row[i] EXCEPT !.trail = NewTrail(c), !.assignee = req[c].copy.initiator]
  <2>1. /\ r \in Rows /\ r.initiator = row[i].initiator /\ r.trail = NewTrail(c)
        /\ r.status = row[i].status /\ r.step = row[i].step
        /\ r.assignee = req[c].copy.initiator
    BY <1>1, <1>2 DEF Rows
  <2>2. Writes(c, r)
    <3>1. Store(i, r)
      BY <1>4 DEF WriteRequestInfo
    <3> HIDE DEF r
    <3>2. QED
      BY <1>4, <2>1, <3>1 DEF WriteRequestInfo, Writes
  <2>3. QED
    BY <2>1, <2>2
<1>5. CASE WriteEscalate(c)
  <2>1. PICK h \in Escalation[req[c].copy.step] :
           Store(i, [row[i] EXCEPT !.status = "ESCALATED", !.trail = NewTrail(c), !.assignee = h])
    BY <1>5 DEF WriteEscalate
  <2> DEFINE r == [row[i] EXCEPT !.status = "ESCALATED", !.trail = NewTrail(c), !.assignee = h]
  <2>2. h \in Users
    BY <1>1, WorkflowAssumption DEF Rows
  <2>3. /\ r \in Rows /\ r.initiator = row[i].initiator /\ r.trail = NewTrail(c)
        /\ r.status = "ESCALATED" /\ r.step = row[i].step /\ r.assignee = h
    BY <1>1, <1>2, <2>2 DEF Rows, Status, OpenStatus
  <2>4. Writes(c, r)
    <3>1. Store(i, r)
      BY <2>1
    <3> HIDE DEF r
    <3>2. QED
      BY <1>5, <2>3, <3>1 DEF WriteEscalate, Writes
  <2>5. QED
    BY <2>3, <2>4
<1>6. CASE WriteAdvance(c)
  <2>1. PICK h \in Holders[req[c].copy.step + 1] :
           Store(i, [row[i] EXCEPT !.status = "IN_PROGRESS", !.step = req[c].copy.step + 1,
                                   !.trail = NewTrail(c), !.assignee = h,
                                   !.warned = req[c].copy.warned])
    BY <1>6 DEF WriteAdvance, NextHolders, NextStep
  <2>2. req[c].copy.step + 1 \in 1..Steps /\ req[c].copy.warned \in BOOLEAN
    BY <1>1, <1>6, WorkflowAssumption DEF WriteAdvance, OnLastStep, Rows
  <2>3. h \in Users
    BY <2>1, <2>2, WorkflowAssumption
  <2> DEFINE r == [row[i] EXCEPT !.status = "IN_PROGRESS", !.step = req[c].copy.step + 1,
                                 !.trail = NewTrail(c), !.assignee = h,
                                 !.warned = req[c].copy.warned]
  <2>4. /\ r \in Rows /\ r.initiator = row[i].initiator /\ r.trail = NewTrail(c)
        /\ r.status = "IN_PROGRESS" /\ r.step = req[c].copy.step + 1 /\ r.assignee = h
    BY <1>1, <1>2, <2>2, <2>3 DEF Rows, Status, OpenStatus
  <2>5. Writes(c, r)
    <3>1. Store(i, r)
      BY <2>1
    <3> HIDE DEF r
    <3>2. QED
      BY <1>6, <2>4, <3>1 DEF WriteAdvance, Writes
  <2>6. QED
    BY <2>4, <2>5
<1>7. CASE WriteApprove(c)
  <2> DEFINE r == [row[i] EXCEPT !.status = "APPROVED", !.trail = NewTrail(c), !.assignee = Nobody,
                                 !.warned = req[c].copy.warned]
  <2>1. req[c].copy.warned \in BOOLEAN
    BY <1>1 DEF Rows
  <2>2. /\ r \in Rows /\ r.initiator = row[i].initiator /\ r.trail = NewTrail(c)
        /\ r.status = "APPROVED" /\ r.step = row[i].step
    BY <1>1, <1>2, <2>1 DEF Rows, Status
  <2>3. Writes(c, r)
    <3>1. Store(i, r)
      BY <1>7 DEF WriteApprove
    <3> HIDE DEF r
    <3>2. QED
      BY <1>7, <2>2, <3>1 DEF WriteApprove, Writes
  <2>4. QED
    BY <2>2, <2>3
<1>8. CASE Unresolved(c) \/ RunEffect(c) \/ CallDies(c)
  BY <1>8 DEF Unresolved, RunEffect, CallDies, Ends, TypeOK
<1>9. QED
  BY <1>3, <1>4, <1>5, <1>6, <1>7, <1>8 DEF Handle

\* What the sweep does to row i.
Swept(i) ==
    /\ row'[i].step = row[i].step /\ row'[i].trail = row[i].trail
    /\ row'[i].initiator = row[i].initiator
    /\ \/ row'[i].status = row[i].status /\ row'[i].assignee = row[i].assignee
       \/ /\ row[i].status \in OpenStatus
          /\ row'[i].status = "ESCALATED" /\ row'[i].assignee \in Escalation[row[i].step]

LEMMA SweepSweeps ==
    ASSUME TypeOK, Current, Sweep
    PROVE  UNCHANGED <<pc, req>> /\ \A i \in Instances : Swept(i)
<1>1. UNCHANGED <<pc, req>>
  BY DEF Sweep, SweepStart, SweepScan, SweepEnd, SweepDies, SweepWarn, SweepEscalate, SweepSkip
<1>2. ASSUME row' = row PROVE \A i \in Instances : Swept(i)
  BY <1>2 DEF Swept
<1>3. CASE SweepStart \/ SweepScan \/ SweepEnd \/ SweepDies
  BY <1>1, <1>2, <1>3 DEF SweepStart, SweepScan, SweepEnd, SweepDies
<1>4. ASSUME NEW i \in Instances, SweepWarn(i) \/ SweepEscalate(i) \/ SweepSkip(i)
      PROVE  \A j \in Instances : Swept(j)
  <2>1. row[i] \in Rows /\ row[i].status \in OpenStatus /\ todo[i].step = row[i].step
    BY <1>4 DEF TypeOK, Current, SweepWarn, SweepEscalate, SweepSkip
  <2>2. CASE row' = row
    BY <1>2, <2>2
  <2>3. CASE Store(i, [row[i] EXCEPT !.warned = TRUE])
    BY <2>1, <2>3 DEF Store, Swept, TypeOK, Rows
  <2>4. CASE SweepEscalate(i)
    <3>1. PICK h \in Escalation[row[i].step] :
             Store(i, [row[i] EXCEPT !.status = "ESCALATED", !.assignee = h])
      BY <2>1, <2>4 DEF SweepEscalate
    <3>2. QED
      BY <2>1, <3>1 DEF Store, Swept, TypeOK, Rows
  <2>5. QED
    BY <1>4, <2>2, <2>3, <2>4 DEF SweepWarn, SweepSkip
<1>5. QED
  BY <1>1, <1>3, <1>4 DEF Sweep

\* Room for a request or a sweep, one at a time, means that nothing is under way.
LEMMA RoomMeansAlone ==
    ASSUME MaxOpen <= 1, OneGoing, InFlight < MaxOpen
    PROVE  phase = "idle" /\ \A c \in Calls : ~Going(c)
<1> DEFINE W == {c \in Calls : pc[c] \in {"fetched", "effect"}}
<1>1. W = {} \/ \E c \in Calls : W = {c}
  BY DEF OneGoing, Going
<1>2. Cardinality({}) = 0 /\ \A c \in Calls : Cardinality({c}) = 1
  BY FS_EmptySet, FS_Singleton
<1>3. Cardinality(W) \in {0, 1} /\ (Cardinality(W) = 0 => W = {})
  BY <1>1, <1>2
<1>4. InFlight = Cardinality(W) + (IF phase = "idle" THEN 0 ELSE 1)
  BY DEF InFlight
<1> HIDE DEF W
<1>5. Cardinality(W) = 0 /\ phase = "idle"
  BY <1>3, <1>4, WorkflowAssumption
<1>6. QED
  BY <1>3, <1>5 DEF W, Going

\* The steps of the engine, one request or sweep at a time.
Begins(i, u) ==
    /\ row[i].status = "ABSENT"
    /\ \E h \in Holders[1] :
          Store(i, [status |-> "IN_PROGRESS", step |-> 1, assignee |-> h,
                    initiator |-> u, trail |-> <<>>, warned |-> FALSE])
    /\ UNCHANGED <<pc, req, phase, todo>>

Reads(c, i, u, a) ==
    /\ phase = "idle" /\ \A d \in Calls : ~Going(d)
    /\ pc[c] = "idle"
    /\ MayAct(row[i], u)
    /\ req' = [req EXCEPT ![c] = [inst |-> i, actor |-> u, action |-> a, copy |-> row[i]]]
    /\ pc' = [pc EXCEPT ![c] = "fetched"]
    /\ UNCHANGED <<row, phase, todo>>

Turn ==
    \/ \E i \in Instances, u \in Initiators : Begins(i, u)
    \/ \E c \in Calls, i \in Instances, u \in Users, a \in Actions : Reads(c, i, u, a)
    \/ \E c \in Calls : Ends(c) \/ \E r \in Rows : Writes(c, r)
    \/ Sweep
    \/ UNCHANGED vars

LEMMA NextIsTurn ==
    ASSUME MaxOpen <= 1, TypeOK, OneGoing, [Next]_vars
    PROVE  Turn
<1>1. ASSUME NEW i \in Instances, NEW u \in Initiators, Initiate(i, u) PROVE Turn
  BY <1>1 DEF Initiate, Begins, Turn
<1>2. ASSUME NEW c \in Calls, NEW i \in Instances, NEW u \in Users, NEW a \in Actions, Fetch(c, i, u, a)
      PROVE  Turn
  <2>1. Reads(c, i, u, a)
    BY <1>2, RoomMeansAlone DEF Fetch, Reads
  <2>2. QED
    BY <2>1 DEF Turn
<1>3. ASSUME NEW c \in Calls, Handle(c) \/ CallDies(c) PROVE Turn
  BY <1>3, HandleWrites DEF Turn
<1>4. CASE Sweep \/ UNCHANGED vars
  BY <1>4 DEF Turn
<1>5. QED
  BY <1>1, <1>2, <1>3, <1>4 DEF Next

LEMMA GoingStep ==
    ASSUME MaxOpen <= 1, TypeOK, OneGoing, Turn
    PROVE  OneGoing'
<1> USE DEF OneGoing, Going
<1>1. ASSUME NEW i \in Instances, NEW u \in Initiators, Begins(i, u) PROVE OneGoing'
  BY <1>1 DEF Begins
<1>2. ASSUME NEW c \in Calls, NEW i \in Instances, NEW u \in Users, NEW a \in Actions, Reads(c, i, u, a)
      PROVE  OneGoing'
  BY <1>2 DEF Reads, TypeOK
<1>3. ASSUME NEW c \in Calls, Ends(c) PROVE OneGoing'
  BY <1>3 DEF Ends, TypeOK
<1>4. ASSUME NEW c \in Calls, NEW r \in Rows, Writes(c, r) PROVE OneGoing'
  <2>1. Going(c) /\ UNCHANGED <<phase, todo>> /\ \A d \in Calls \ {c} : pc'[d] = pc[d]
    BY <1>4 DEF Writes, TypeOK
  <2>2. QED
    BY <2>1
<1>5. CASE Sweep
  <2>1. CASE SweepStart
    <3>1. \A c \in Calls : ~Going(c)
      BY <2>1, RoomMeansAlone DEF SweepStart
    <3>2. QED
      BY <2>1, <3>1 DEF SweepStart
  <2>2. CASE SweepScan
    BY <2>2 DEF SweepScan
  <2>3. CASE SweepEnd \/ SweepDies
    BY <2>3 DEF SweepEnd, SweepDies, NoCopies
  <2>4. ASSUME NEW i \in Instances, SweepWarn(i) \/ SweepEscalate(i) \/ SweepSkip(i) PROVE OneGoing'
    BY <2>4 DEF SweepWarn, SweepEscalate, SweepSkip
  <2>5. QED
    BY <1>5, <2>1, <2>2, <2>3, <2>4 DEF Sweep
<1>6. CASE UNCHANGED vars
  BY <1>6 DEF vars
<1>7. QED
  BY <1>1, <1>2, <1>3, <1>4, <1>5, <1>6 DEF Turn

LEMMA CurrentStep ==
    ASSUME TypeOK, OneGoing, Current, Turn
    PROVE  Current'
<1>1. ASSUME NEW i \in Instances, NEW u \in Initiators, Begins(i, u) PROVE Current'
  <2>1. \A j \in Instances \ {i} : row'[j] = row[j]
    BY <1>1 DEF Begins, Store, TypeOK
  <2>2. row[i].status \notin OpenStatus /\ UNCHANGED <<pc, req, todo>>
    BY <1>1 DEF Begins, OpenStatus
  <2>3. DOMAIN todo \subseteq Instances /\ \A c \in Calls : req[c].inst \in Instances
    BY CopiesDomain DEF TypeOK
  <2>4. QED
    BY <2>1, <2>2, <2>3 DEF Current
<1>2. ASSUME NEW c \in Calls, NEW i \in Instances, NEW u \in Users, NEW a \in Actions, Reads(c, i, u, a)
      PROVE  Current'
  BY <1>2 DEF Reads, Current, TypeOK, MayAct
<1>3. ASSUME NEW c \in Calls, Ends(c) PROVE Current'
  BY <1>3 DEF Ends, Current, TypeOK
<1>4. ASSUME NEW c \in Calls, NEW r \in Rows, Writes(c, r) PROVE Current'
  <2>1. DOMAIN todo = {} /\ todo' = todo /\ req' = req
    BY <1>4 DEF OneGoing, Going, Writes
  <2>2. \A d \in Calls : pc'[d] # "fetched"
    BY <1>4 DEF OneGoing, Going, Writes, TypeOK
  <2>3. QED
    BY <2>1, <2>2 DEF Current
<1>5. CASE Sweep
  <2>1. UNCHANGED <<pc, req>> /\ \A i \in Instances : Swept(i)
    BY <1>5, SweepSweeps
  <2>2. \A c \in Calls : pc'[c] # "fetched" \/ row' = row
    <3>1. ASSUME NEW c \in Calls, pc[c] = "fetched" PROVE row' = row
      <4>1. phase = "idle"
        BY <3>1 DEF OneGoing, Going
      <4>2. QED
        BY <1>5, <4>1 DEF Sweep, SweepStart, SweepScan, SweepEnd, SweepDies, SweepWarn, SweepEscalate, SweepSkip
    <3>2. QED
      BY <2>1, <3>1
  <2>3. \A c \in Calls : pc'[c] = "fetched" => /\ req'[c].copy = row'[req'[c].inst]
                                              /\ row'[req'[c].inst].status \in OpenStatus
    BY <2>1, <2>2 DEF Current
  <2>4. \A j \in DOMAIN todo' : row'[j].status \in OpenStatus /\ todo'[j].step = row'[j].step
    <3>1. CASE SweepStart \/ SweepScan
      <4>1. PICK S \in SUBSET OpenRows : todo' = [i \in S |-> row[i]]
        BY <3>1 DEF SweepStart, SweepScan
      <4>2. QED
        BY <3>1, <4>1 DEF SweepStart, SweepScan, OpenRows
    <3>2. CASE SweepEnd \/ SweepDies
      BY <3>2 DEF SweepEnd, SweepDies, NoCopies
    <3>3. ASSUME NEW i \in Instances, SweepWarn(i) \/ SweepEscalate(i) \/ SweepSkip(i)
          PROVE  \A j \in DOMAIN todo' : row'[j].status \in OpenStatus /\ todo'[j].step = row'[j].step
      <4>1. todo' = Without(todo, i)
        BY <3>3 DEF SweepWarn, SweepEscalate, SweepSkip
      <4>2. \A j \in DOMAIN todo' : j \in DOMAIN todo /\ todo'[j] = todo[j] /\ j \in Instances
        BY <4>1, CopiesDomain DEF TypeOK, Without
      <4>3. QED
        BY <2>1, <4>2 DEF Current, Swept, OpenStatus
    <3>4. QED
      BY <1>5, <3>1, <3>2, <3>3 DEF Sweep
  <2>5. QED
    BY <2>3, <2>4 DEF Current
<1>6. CASE UNCHANGED vars
  BY <1>6 DEF vars, Current
<1>7. QED
  BY <1>1, <1>2, <1>3, <1>4, <1>5, <1>6 DEF Turn

-----------------------------------------------------------------------------
\* The history with one more entry.
LEMMA TrailGrows ==
    ASSUME NEW t \in Seq(Entries), NEW e \in Entries
    PROVE  /\ Append(t, e)[Len(t) + 1] = e
           /\ \A n \in 1..Len(t) : Append(t, e)[n] = t[n]
           /\ Approvals(Append(t, e)) =
                  Approvals(t) \cup (IF e.action = "APPROVE" THEN {Len(t) + 1} ELSE {})
<1> DEFINE u == Append(t, e)
<1>1. Len(t) \in Nat /\ Len(u) = Len(t) + 1
  OBVIOUS
<1>2. u[Len(t) + 1] = e /\ \A n \in 1..Len(t) : u[n] = t[n]
  OBVIOUS
<1> HIDE DEF u
<1>3. Approvals(u) = Approvals(t) \cup (IF e.action = "APPROVE" THEN {Len(t) + 1} ELSE {})
  BY <1>1, <1>2 DEF Approvals
<1>4. QED
  BY <1>2, <1>3 DEF u

\* An entry that is no approval leaves the history as good as it was.
LEMMA TrailKept ==
    ASSUME NEW r \in Rows, NEW e \in Entries, e.action # "APPROVE", TrailGood(r),
           r.status # "APPROVED", NEW q \in Rows,
           q.trail = Append(r.trail, e), q.step = r.step, q.status # "APPROVED"
    PROVE  TrailGood(q)
<1> DEFINE t == r.trail
           u == q.trail
<1>1. t \in Seq(Entries)
  BY DEF Rows
<1>2. Approvals(u) = Approvals(t) /\ \A n \in Approvals(t) : u[n] = t[n]
  BY <1>1, TrailGrows DEF Approvals
<1> HIDE DEF t, u
<1>3. QED
  BY <1>2 DEF TrailGood, t, u

\* Nor does an approval of the step the row is at.
LEMMA TrailClimbs ==
    ASSUME NEW r \in Rows, NEW e \in Entries, e.action = "APPROVE", e.step = r.step,
           TrailGood(r), r.status # "APPROVED", NEW q \in Rows, q.trail = Append(r.trail, e),
           \/ q.step = r.step + 1 /\ q.status # "APPROVED"
           \/ r.step = Steps /\ q.status = "APPROVED"
    PROVE  TrailGood(q)
<1> DEFINE t == r.trail
           u == q.trail
           last == Len(t) + 1
<1>1. t \in Seq(Entries) /\ r.step \in 1..Steps /\ q.step \in 1..Steps /\ Steps \in Nat
  BY WorkflowAssumption DEF Rows
<1>2. Len(t) \in Nat /\ \A n \in Approvals(t) : n \in 1..Len(t)
  BY <1>1 DEF Approvals
<1>3. Approvals(u) = Approvals(t) \cup {last}
  BY <1>1, TrailGrows
<1>4. u[last].step = r.step /\ \A n \in Approvals(t) : u[n] = t[n] /\ n < last
  BY <1>1, <1>2, TrailGrows
<1>5. \A n \in Approvals(t) : t[n].step < r.step /\ t[n].step \in 1..Steps
  <2>1. \A n \in Approvals(t) : t[n] \in Entries
    BY <1>1, <1>2
  <2>2. QED
    BY <2>1 DEF TrailGood, Entries
<1>6. \A m, n \in Approvals(t) : m < n => t[m].step < t[n].step
  BY DEF TrailGood
<1>7. \A s \in 1..Steps : s < r.step => \E n \in Approvals(t) : t[n].step = s
  BY DEF TrailGood
<1>8. last \in Nat /\ \A n \in Approvals(t) : n \in Nat
  BY <1>2
<1> HIDE DEF t, u, last
<1>9. \A n \in Approvals(u) : u[n].step < q.step \/ q.status = "APPROVED"
  BY <1>1, <1>3, <1>4, <1>5
<1>10. \A m, n \in Approvals(u) : m < n => u[m].step < u[n].step
  BY <1>1, <1>3, <1>4, <1>5, <1>6, <1>8
<1>11. ASSUME NEW s \in 1..Steps, s < q.step \/ q.status = "APPROVED"
       PROVE  \E n \in Approvals(u) : u[n].step = s
  <2>1. s < r.step \/ s = r.step
    BY <1>1, <1>11
  <2>2. QED
    BY <1>3, <1>4, <1>7, <2>1
<1>12. QED
  BY <1>9, <1>10, <1>11 DEF TrailGood, u

LEMMA TrailStep ==
    ASSUME TypeOK, TypeOK', OneGoing, Current, \A i \in Instances : TrailGood(row[i]), Turn
    PROVE  \A i \in Instances : TrailGood(row'[i])
<1>1. ASSUME NEW i \in Instances, NEW u \in Initiators, Begins(i, u)
      PROVE  \A j \in Instances : TrailGood(row'[j])
  <2>1. \A j \in Instances \ {i} : row'[j] = row[j]
    BY <1>1 DEF Begins, Store, TypeOK
  <2>2. row'[i].trail = <<>> /\ row'[i].step = 1 /\ row'[i].status # "APPROVED"
    BY <1>1 DEF Begins, Store, TypeOK
  <2>3. Approvals(<<>>) = {}
    BY DEF Approvals
  <2>4. TrailGood(row'[i])
    BY <2>2, <2>3, WorkflowAssumption DEF TrailGood
  <2>5. QED
    BY <2>1, <2>4
<1>2. ASSUME row' = row PROVE \A i \in Instances : TrailGood(row'[i])
  BY <1>2
<1>3. ASSUME NEW c \in Calls, NEW r \in Rows, Writes(c, r)
      PROVE  \A j \in Instances : TrailGood(row'[j])
  <2> DEFINE i == req[c].inst
             e == Entry(c)
  <2>1. i \in Instances /\ row[i] \in Rows /\ req[c].copy = row[i] /\ row[i].status \in OpenStatus
    BY <1>3 DEF Writes, Current, TypeOK
  <2>2. row'[i] = r /\ \A j \in Instances \ {i} : row'[j] = row[j]
    BY <1>3, <2>1 DEF Writes, Store, TypeOK
  <2>3. e \in Entries /\ e.step = row[i].step /\ e.action = req[c].action
    BY <2>1 DEF Entry, Entries, Rows, TypeOK
  <2>4. r.trail = Append(row[i].trail, e)
    BY <1>3, <2>1 DEF Writes, NewTrail
  <2>5. row[i].status # "APPROVED" /\ row[i].step \in 1..Steps
    BY <2>1 DEF OpenStatus, Rows
  <2>6. TrailGood(row[i])
    BY <2>1
  <2>7. CASE req[c].action # "APPROVE"
    <3>1. r.step = row[i].step /\ r.status # "APPROVED"
      BY <1>3, <2>5, <2>7 DEF Writes
    <3> HIDE DEF e, i
    <3>2. TrailGood(r)
      BY <2>1, <2>3, <2>4, <2>5, <2>6, <2>7, <3>1, TrailKept
    <3>3. QED
      BY <2>2, <3>2
  <2>8. CASE req[c].action = "APPROVE"
    <3>1. \/ r.step = row[i].step + 1 /\ r.status # "APPROVED"
          \/ row[i].step = Steps /\ r.status = "APPROVED"
      BY <1>3, <2>1, <2>5, <2>8, WorkflowAssumption DEF Writes, OnLastStep
    <3> HIDE DEF e, i
    <3>2. TrailGood(r)
      BY <2>1, <2>3, <2>4, <2>5, <2>6, <2>8, <3>1, TrailClimbs
    <3>3. QED
      BY <2>2, <3>2
  <2>9. QED
    BY <2>7, <2>8
<1>4. CASE Sweep
  <2>1. \A i \in Instances : /\ row'[i].trail = row[i].trail /\ row'[i].step = row[i].step
                             /\ row'[i].status = "APPROVED" <=> row[i].status = "APPROVED"
    BY <1>4, SweepSweeps DEF Swept, OpenStatus
  <2>2. QED
    BY <2>1 DEF TrailGood
<1>5. QED
  BY <1>1, <1>2, <1>3, <1>4 DEF Turn, Reads, Ends, vars

\* Who was entitled at a step of an instance stays so.
LEMMA EntitledStays ==
    ASSUME TypeOK, [Next]_vars, NEW i \in Instances, NEW s \in 1..Steps,
           row'[i].initiator = row[i].initiator
    PROVE  Entitled(i, s) \subseteq Entitled(i, s)'
<1>1. ASSUME AskedBack(i, s) PROVE AskedBack(i, s)'
  <2>1. PICK c \in Calls : Wrote(c) /\ req[c].inst = i /\ req[c].action = "REQUEST_INFO"
                              /\ req[c].copy.step = s
    BY <1>1 DEF AskedBack
  <2>2. Wrote(c)' /\ req'[c] = req[c]
    BY <2>1, WroteStays
  <2>3. QED
    BY <2>1, <2>2 DEF AskedBack
<1>2. QED
  BY <1>1 DEF Entitled

\* The rows that are there keep their initiator.
LEMMA InitiatorStays ==
    ASSUME TypeOK, Current, Turn, NEW i \in Instances, row[i].status # "ABSENT"
    PROVE  row'[i].initiator = row[i].initiator /\ row'[i].status # "ABSENT"
<1>1. ASSUME NEW j \in Instances, NEW u \in Initiators, Begins(j, u)
      PROVE  row'[i] = row[i]
  BY <1>1 DEF Begins, Store, TypeOK
<1>2. ASSUME NEW c \in Calls, NEW r \in Rows, Writes(c, r)
      PROVE  row'[i].initiator = row[i].initiator /\ row'[i].status # "ABSENT"
  BY <1>2 DEF Writes, Store, TypeOK
<1>3. CASE Sweep
  BY <1>3, SweepSweeps DEF Swept
<1>4. QED
  BY <1>1, <1>2, <1>3 DEF Turn, Reads, Ends, vars

LEMMA EntitledStep ==
    ASSUME TypeOK, [Next]_vars, Inbox, OneGoing, Current, EntitledOnly, Turn
    PROVE  EntitledOnly'
<1> USE WorkflowAssumption
<1>1. \A i \in Instances : row[i].step \in 1..Steps
  BY DEF TypeOK, Rows
<1>2. \A c \in Calls : req[c].inst \in Instances
  BY DEF TypeOK
<1>3. \A i \in Instances : \A s \in 1..Steps :
         row[i].status # "ABSENT" => Entitled(i, s) \subseteq Entitled(i, s)'
  BY InitiatorStays, EntitledStays
<1>4. \A i \in Instances : \A s \in 1..Steps :
         Holders[s] \subseteq Entitled(i, s)' /\ Escalation[s] \subseteq Entitled(i, s)'
  BY DEF Entitled
<1>5. \A i \in Instances, s \in 1..Steps, c \in Calls :
         pc[c] # "idle" /\ req[c].inst = i /\ req[c].copy.step = s => req[c].actor \in Entitled(i, s)'
  BY <1>3 DEF EntitledOnly, Inbox, Initiated
<1>6. \A i \in Instances, s \in 1..Steps :
         row[i].status \in OpenStatus /\ row[i].step = s => row[i].assignee \in Entitled(i, s)'
  BY <1>3 DEF EntitledOnly, OpenStatus
<1>7. ASSUME NEW i \in Instances, NEW u \in Initiators, Begins(i, u) PROVE EntitledOnly'
  <2>1. row'[i].step = 1 /\ row'[i].assignee \in Holders[1]
    BY <1>7 DEF Begins, Store, TypeOK
  <2>2. UNCHANGED <<pc, req>> /\ \A j \in Instances \ {i} : row'[j] = row[j]
    BY <1>7 DEF Begins, Store, TypeOK
  <2>3. \A s \in 1..Steps : row'[i].step = s => row'[i].assignee \in Entitled(i, s)'
    BY <1>4, <2>1
  <2>4. QED
    BY <1>5, <1>6, <2>2, <2>3 DEF EntitledOnly
<1>8. ASSUME NEW c \in Calls, NEW i \in Instances, NEW u \in Users, NEW a \in Actions, Reads(c, i, u, a)
      PROVE  EntitledOnly'
  <2>1. row' = row /\ \A d \in Calls \ {c} : pc'[d] = pc[d] /\ req'[d] = req[d]
    BY <1>8 DEF Reads, TypeOK
  <2>2. req'[c].inst = i /\ req'[c].actor = u /\ req'[c].copy = row[i]
    BY <1>8 DEF Reads, TypeOK
  <2>3. \A s \in 1..Steps : row[i].step = s => u \in Entitled(i, s)'
    <3>1. CASE u \in Admins
      BY <3>1 DEF Entitled
    <3>2. CASE u = row[i].assignee
      BY <1>6, <1>8, <3>2 DEF Reads, MayAct
    <3>3. QED
      BY <1>8, <3>1, <3>2 DEF Reads, MayAct
  <2>4. QED
    BY <1>5, <1>6, <2>1, <2>2, <2>3 DEF EntitledOnly
<1>9. ASSUME NEW c \in Calls, Ends(c) PROVE EntitledOnly'
  <2>1. row' = row /\ req' = req /\ \A d \in Calls : pc'[d] # "idle" => pc[d] # "idle"
    BY <1>9 DEF Ends, TypeOK
  <2>2. QED
    BY <1>5, <1>6, <2>1 DEF EntitledOnly
<1>10. ASSUME NEW c \in Calls, NEW r \in Rows, Writes(c, r) PROVE EntitledOnly'
  <2>1. PICK i \in Instances : i = req[c].inst
    BY <1>2
  <2>2. req[c].copy = row[i]
    BY <1>10, <2>1 DEF Writes, Current
  <2>3. row'[i] = r /\ \A j \in Instances \ {i} : row'[j] = row[j]
    BY <1>10, <2>1 DEF Writes, Store, TypeOK
  <2>4. req' = req /\ \A d \in Calls : pc'[d] # "idle" => pc[d] # "idle"
    BY <1>10 DEF Writes, TypeOK
  <2>5. ASSUME NEW s \in 1..Steps, r.step = s, r.status \in OpenStatus
        PROVE  r.assignee \in Entitled(i, s)'
    <3>1. CASE req[c].action = "REQUEST_INFO"
      <4>1. s = row[i].step /\ r.assignee = row[i].initiator
        BY <1>10, <2>1, <2>2, <2>5, <3>1 DEF Writes
      <4>2. AskedBack(i, s)'
        BY <1>10, <2>1, <2>2, <2>4, <3>1, <4>1 DEF Writes, AskedBack, Wrote, TypeOK
      <4>3. row'[i].initiator = r.assignee
        BY <1>10, <2>1, <2>3, <4>1 DEF Writes
      <4>4. QED
        BY <4>2, <4>3 DEF Entitled
    <3>2. CASE req[c].action = "ESCALATE"
      <4>1. r.assignee \in Escalation[s]
        BY <1>10, <2>1, <2>2, <2>5, <3>2 DEF Writes
      <4>2. QED
        BY <1>4, <4>1
    <3>3. CASE req[c].action = "APPROVE"
      <4>1. r.assignee \in Holders[s]
        BY <1>10, <2>5, <3>3 DEF Writes, OpenStatus
      <4>2. QED
        BY <1>4, <4>1
    <3>4. QED
      BY <1>10, <2>5, <3>1, <3>2, <3>3 DEF Writes, OpenStatus
  <2>6. QED
    BY <1>5, <1>6, <2>3, <2>4, <2>5 DEF EntitledOnly
<1>11. CASE Sweep
  <2>1. UNCHANGED <<pc, req>> /\ \A i \in Instances : Swept(i)
    BY <1>11, SweepSweeps
  <2>2. ASSUME NEW i \in Instances, NEW s \in 1..Steps, row'[i].step = s, row'[i].status \in OpenStatus
        PROVE  row'[i].assignee \in Entitled(i, s)'
    <3>1. Swept(i) /\ row[i].step = s
      BY <2>1, <2>2 DEF Swept
    <3>2. CASE row'[i].status = row[i].status /\ row'[i].assignee = row[i].assignee
      BY <1>6, <2>2, <3>1, <3>2
    <3>3. CASE row'[i].assignee \in Escalation[row[i].step]
      BY <1>4, <3>1, <3>3
    <3>4. QED
      BY <3>1, <3>2, <3>3 DEF Swept
  <2>3. QED
    BY <1>5, <2>1, <2>2 DEF EntitledOnly
<1>12. CASE UNCHANGED vars
  BY <1>5, <1>6, <1>12 DEF EntitledOnly, vars
<1>13. QED
  BY <1>7, <1>8, <1>9, <1>10, <1>11, <1>12 DEF Turn

LEMMA DecidedStep ==
    ASSUME TypeOK, OneGoing, Current, DecidedByOne, Turn
    PROVE  DecidedByOne'
<1> DEFINE Decides(c) == Wrote(c) /\ Final(c)
           Closed(i) == row[i].status \in {"APPROVED", "REJECTED"}
<1>1. \A c \in Calls : Decides(c) => Closed(req[c].inst)
  BY DEF DecidedByOne
<1>2. \A c, d \in Calls : Decides(c) /\ Decides(d) /\ req[c].inst = req[d].inst => c = d
  BY DEF DecidedByOne
<1>3. \A c \in Calls : req[c].inst \in Instances
  BY DEF TypeOK
<1>4. ASSUME \A c \in Calls : Decides(c)' => Decides(c) /\ req'[c].inst = req[c].inst,
             \A i \in Instances : Closed(i) => Closed(i)'
      PROVE  DecidedByOne'
  BY <1>1, <1>2, <1>3, <1>4 DEF DecidedByOne
<1>5. ASSUME req' = req, \A c \in Calls : Wrote(c)' => Wrote(c)
      PROVE  \A c \in Calls : Decides(c)' => Decides(c) /\ req'[c].inst = req[c].inst
  BY <1>5 DEF Final, OnLastStep
<1>6. ASSUME NEW i \in Instances, NEW u \in Initiators, Begins(i, u) PROVE DecidedByOne'
  <2>1. \A j \in Instances : Closed(j) => Closed(j)'
    BY <1>6 DEF Begins, Store, TypeOK
  <2>2. req' = req /\ \A c \in Calls : Wrote(c)' => Wrote(c)
    BY <1>6 DEF Begins, Wrote
  <2>3. QED
    BY <1>4, <1>5, <2>1, <2>2
<1>7. ASSUME NEW c \in Calls, NEW i \in Instances, NEW u \in Users, NEW a \in Actions, Reads(c, i, u, a)
      PROVE  DecidedByOne'
  <2>1. row' = row /\ \A d \in Calls \ {c} : pc'[d] = pc[d] /\ req'[d] = req[d]
    BY <1>7 DEF Reads, TypeOK
  <2>2. pc'[c] = "fetched"
    BY <1>7 DEF Reads, TypeOK
  <2>3. \A d \in Calls : Decides(d)' => Decides(d) /\ req'[d].inst = req[d].inst
    BY <2>1, <2>2 DEF Wrote, Final, OnLastStep
  <2>4. \A j \in Instances : Closed(j) => Closed(j)'
    BY <2>1
  <2>5. QED
    BY <1>4, <2>3, <2>4
<1>8. ASSUME NEW c \in Calls, Ends(c) PROVE DecidedByOne'
  <2>1. row' = row /\ req' = req /\ \A d \in Calls : Wrote(d)' => Wrote(d)
    BY <1>8 DEF Ends, Wrote, TypeOK
  <2>2. QED
    BY <1>4, <1>5, <2>1
<1>9. ASSUME NEW c \in Calls, NEW r \in Rows, Writes(c, r) PROVE DecidedByOne'
  <2>1. req[c].inst \in Instances /\ row[req[c].inst].status \in OpenStatus
    BY <1>9 DEF Writes, Current, TypeOK
  <2>2. row'[req[c].inst] = r /\ \A j \in Instances \ {req[c].inst} : row'[j] = row[j]
    BY <1>9, <2>1 DEF Writes, Store, TypeOK
  <2>3. req' = req /\ \A d \in Calls \ {c} : Wrote(d)' => Wrote(d)
    BY <1>9 DEF Writes, Wrote, TypeOK
  <2>4. \A j \in Instances : Closed(j) => Closed(j)' /\ j # req[c].inst
    BY <2>1, <2>2 DEF OpenStatus
  <2>5. \A d \in Calls \ {c} : Decides(d)' => Decides(d) /\ req[d].inst # req[c].inst
    BY <1>1, <1>3, <2>3, <2>4 DEF Final, OnLastStep
  <2>6. Final(c) => Closed(req[c].inst)'
    BY <1>9, <2>2 DEF Writes, Final
  <2>7. Decides(c)' => Closed(req[c].inst)'
    BY <2>3, <2>6 DEF Final, OnLastStep
  <2>8. \A d \in Calls : Decides(d)' => row'[req[d].inst].status \in {"APPROVED", "REJECTED"}
    <3>1. \A j \in Instances : Closed(j) => row'[j].status \in {"APPROVED", "REJECTED"}
      BY <2>4
    <3>2. \A d \in Calls \ {c} : Decides(d)' => row'[req[d].inst].status \in {"APPROVED", "REJECTED"}
      BY <1>1, <1>3, <2>5, <3>1
    <3>3. QED
      BY <2>3, <2>7, <3>2
  <2>9. \A d, e \in Calls : Decides(d)' /\ Decides(e)' /\ req[d].inst = req[e].inst => d = e
    BY <1>2, <2>5
  <2>10. QED
    BY <2>3, <2>8, <2>9 DEF DecidedByOne
<1>10. CASE Sweep
  <2>1. UNCHANGED <<pc, req>> /\ \A i \in Instances : Swept(i)
    BY <1>10, SweepSweeps
  <2>2. \A i \in Instances : Closed(i) => Closed(i)'
    BY <2>1 DEF Swept, OpenStatus
  <2>3. QED
    BY <1>4, <1>5, <2>1, <2>2 DEF Wrote
<1>11. CASE UNCHANGED vars
  BY <1>4, <1>5, <1>11 DEF vars, Wrote
<1>12. QED
  BY <1>6, <1>7, <1>8, <1>9, <1>10, <1>11 DEF Turn

LEMMA UnbegunStep ==
    ASSUME TypeOK, Current, Unbegun, Turn
    PROVE  Unbegun'
<1> SUFFICES ASSUME NEW i \in Instances, row'[i].status = "ABSENT" PROVE row'[i].step = 1
  BY DEF Unbegun
<1>1. row[i].status = "ABSENT"
  BY InitiatorStays
<1>2. ASSUME NEW j \in Instances, NEW u \in Initiators, Begins(j, u) PROVE row'[i].step = 1
  BY <1>1, <1>2 DEF Begins, Store, TypeOK, Unbegun
<1>3. ASSUME NEW c \in Calls, NEW r \in Rows, Writes(c, r) PROVE row'[i].step = 1
  BY <1>1, <1>3 DEF Writes, Store, Current, OpenStatus, TypeOK, Unbegun
<1>4. CASE Sweep
  BY <1>1, <1>4, SweepSweeps DEF Swept, Unbegun
<1>5. QED
  BY <1>1, <1>2, <1>3, <1>4 DEF Turn, Reads, Ends, vars, Unbegun

LEMMA InTurnInit == Init => InTurn
<1> SUFFICES ASSUME Init PROVE InTurn
  OBVIOUS
<1>1. /\ \A i \in Instances : row[i] = AbsentRow
      /\ \A c \in Calls : pc[c] = "idle"
      /\ phase = "idle" /\ DOMAIN todo = {}
  BY DEF Init, NoCopies
<1>2. AbsentRow.status = "ABSENT" /\ AbsentRow.step = 1 /\ AbsentRow.trail = <<>>
  BY DEF AbsentRow
<1>3. Approvals(<<>>) = {}
  BY DEF Approvals
<1>4. TrailGood(AbsentRow)
  BY <1>2, <1>3 DEF TrailGood
<1>5. OneGoing /\ Current
  BY <1>1 DEF OneGoing, Current, Going
<1>6. EntitledOnly /\ DecidedByOne
  BY <1>1, <1>2 DEF EntitledOnly, DecidedByOne, Wrote, OpenStatus
<1>7. Unbegun
  BY <1>1, <1>2 DEF Unbegun
<1>8. QED
  BY <1>1, <1>4, <1>5, <1>6, <1>7 DEF InTurn

LEMMA InTurnStep ==
    ASSUME MaxOpen <= 1
    PROVE  TypeOK /\ Inbox /\ InTurn /\ [Next]_vars => InTurn'
<1> SUFFICES ASSUME TypeOK, Inbox, InTurn, [Next]_vars PROVE InTurn'
  OBVIOUS
<1>1. Turn /\ TypeOK'
  BY NextIsTurn, TypeStep DEF InTurn
<1>2. QED
  BY <1>1, GoingStep, CurrentStep, UnbegunStep, TrailStep, EntitledStep, DecidedStep DEF InTurn

LEMMA InTurnAlways ==
    ASSUME MaxOpen <= 1
    PROVE  Spec => [](TypeOK /\ Inbox /\ InTurn)
<1>1. Init => Inbox
  BY DEF Init, AbsentRow, NoCopies, Inbox, NoOrphan, Initiated, OpenStatus
<1>2. TypeOK /\ Inbox /\ InTurn /\ [Next]_vars => (TypeOK /\ Inbox /\ InTurn)'
  BY TypeStep, InboxStep, InTurnStep
<1>3. QED
  BY <1>1, <1>2, TypeInit, InTurnInit, PTL DEF Spec

(* Where requests and sweeps do not overlap, deaths or not, the history of an *)
(* approved instance names each step once, in order, and each approval was    *)
(* given by somebody entitled at its step (processStep's check of the         *)
(* assignee, whom only the holders of the step, its escalation and the        *)
(* question to the initiator can have set).                                   *)
THEOREM TrailIsComplete ==
    ASSUME MaxOpen <= 1
    PROVE  Spec => []TrailComplete
<1>1. ASSUME TypeOK, InTurn PROVE TrailComplete
  <2>1. ASSUME NEW i \in Instances, row[i].status = "APPROVED"
        PROVE  /\ {row[i].trail[n].step : n \in Approvals(row[i].trail)} = 1..Steps
               /\ \A m, n \in Approvals(row[i].trail) : m < n => row[i].trail[m].step < row[i].trail[n].step
    <3> DEFINE t == row[i].trail
    <3>1. TrailGood(row[i]) /\ t \in Seq(Entries)
      BY <1>1 DEF InTurn, TypeOK, Rows
    <3>2. \A n \in Approvals(t) : t[n] \in Entries
      BY <3>1 DEF Approvals
    <3>3. \A n \in Approvals(t) : t[n].step \in 1..Steps
      BY <3>2 DEF Entries
    <3>4. \A s \in 1..Steps : \E n \in Approvals(t) : t[n].step = s
      BY <2>1, <3>1 DEF TrailGood
    <3>5. {t[n].step : n \in Approvals(t)} = 1..Steps
      BY <3>3, <3>4
    <3>6. QED
      BY <3>1, <3>5 DEF TrailGood
  <2>2. ASSUME NEW c \in Calls, Wrote(c)
        PROVE  req[c].actor \in Entitled(req[c].inst, req[c].copy.step)
    <3>1. req[c].inst \in Instances /\ req[c].copy.step \in 1..Steps
      BY <1>1 DEF TypeOK, Rows
    <3>2. QED
      BY <1>1, <2>2, <3>1 DEF InTurn, EntitledOnly, Wrote
  <2>3. QED
    BY <2>1, <2>2 DEF TrailComplete
<1>2. TypeOK /\ InTurn => TrailComplete
  BY <1>1
<1>3. QED
  BY <1>2, InTurnAlways, PTL

-----------------------------------------------------------------------------
(* The refinement of WorkflowDecision *)

Statuses == {"ABSENT", "IN_PROGRESS", "ESCALATED", "APPROVED", "REJECTED"}

LEMMA OutcomeIs ==
    ASSUME TypeOK, NEW i \in Instances
    PROVE  /\ row[i].status \in Statuses
           /\ row[i].status = "ABSENT" => Outcome[i] = "none"
           /\ row[i].status \in OpenStatus => Outcome[i] = "open"
           /\ row[i].status = "APPROVED" => Outcome[i] = "approved"
           /\ row[i].status = "REJECTED" => Outcome[i] = "rejected"
<1>1. row[i].status \in Statuses
  BY DEF TypeOK, Rows, Status, OpenStatus, Statuses
<1>2. CASE row[i].status = "ABSENT"
  BY <1>1, <1>2 DEF Outcome, OpenStatus
<1>3. CASE row[i].status = "APPROVED"
  BY <1>1, <1>3 DEF Outcome, OpenStatus
<1>4. CASE row[i].status = "REJECTED"
  BY <1>1, <1>4 DEF Outcome, OpenStatus
<1>5. CASE row[i].status \in {"IN_PROGRESS", "ESCALATED"}
  BY <1>1, <1>5 DEF Outcome, OpenStatus
<1>6. QED
  BY <1>1, <1>2, <1>3, <1>4, <1>5 DEF Statuses

LEMMA OutcomeThen ==
    ASSUME TypeOK', NEW i \in Instances
    PROVE  /\ row'[i].status \in Statuses
           /\ row'[i].status = "ABSENT" => Outcome'[i] = "none"
           /\ row'[i].status \in OpenStatus => Outcome'[i] = "open"
           /\ row'[i].status = "APPROVED" => Outcome'[i] = "approved"
           /\ row'[i].status = "REJECTED" => Outcome'[i] = "rejected"
<1>1. row'[i].status \in Statuses
  BY DEF TypeOK, Rows, Status, OpenStatus, Statuses
<1>2. CASE row'[i].status = "ABSENT"
  BY <1>1, <1>2 DEF Outcome, OpenStatus
<1>3. CASE row'[i].status = "APPROVED"
  BY <1>1, <1>3 DEF Outcome, OpenStatus
<1>4. CASE row'[i].status = "REJECTED"
  BY <1>1, <1>4 DEF Outcome, OpenStatus
<1>5. CASE row'[i].status \in {"IN_PROGRESS", "ESCALATED"}
  BY <1>1, <1>5 DEF Outcome, OpenStatus
<1>6. QED
  BY <1>1, <1>2, <1>3, <1>4, <1>5 DEF Statuses

\* Functions of instances that agree on all but i.
LEMMA ChangedAt ==
    ASSUME NEW f, NEW g, DOMAIN f = Instances, DOMAIN g = Instances,
           f = [j \in Instances |-> f[j]], g = [j \in Instances |-> g[j]],
           NEW i \in Instances, \A j \in Instances \ {i} : g[j] = f[j]
    PROVE  g = [f EXCEPT ![i] = g[i]]
OBVIOUS

LEMMA OutcomeStays ==
    ASSUME TypeOK, TypeOK', NEW i \in Instances,
           \/ row'[i].status = row[i].status
           \/ row[i].status \in OpenStatus /\ row'[i].status \in OpenStatus
    PROVE  Outcome'[i] = Outcome[i]
<1>1. CASE row[i].status \in OpenStatus /\ row'[i].status \in OpenStatus
  BY <1>1, OutcomeIs, OutcomeThen
<1>2. CASE row'[i].status = row[i].status
  BY <1>2, OutcomeIs, OutcomeThen DEF Statuses, OpenStatus
<1>3. QED
  BY <1>1, <1>2

LEMMA OutcomeMoves ==
    ASSUME TypeOK, TypeOK', NEW i \in Instances, \A j \in Instances \ {i} : row'[j] = row[j]
    PROVE  Outcome' = [Outcome EXCEPT ![i] = Outcome'[i]]
<1>1. \A j \in Instances \ {i} : Outcome'[j] = Outcome[j]
  BY OutcomeStays
<1>2. DOMAIN Outcome = Instances /\ Outcome = [j \in Instances |-> Outcome[j]]
  BY DEF Outcome
<1>3. DOMAIN Outcome' = Instances /\ Outcome' = [j \in Instances |-> Outcome'[j]]
  BY DEF Outcome
<1>4. QED
  BY <1>1, <1>2, <1>3, ChangedAt

LEMMA LevelMoves ==
    ASSUME TypeOK, TypeOK', NEW i \in Instances, \A j \in Instances \ {i} : row'[j] = row[j]
    PROVE  Level' = [Level EXCEPT ![i] = row'[i].step]
BY DEF Level

LEMMA SameOutcomes ==
    ASSUME TypeOK, TypeOK',
           \A i \in Instances : /\ row'[i].step = row[i].step
                                /\ \/ row'[i].status = row[i].status
                                   \/ row[i].status \in OpenStatus /\ row'[i].status \in OpenStatus
    PROVE  Outcome' = Outcome /\ Level' = Level
<1>1. \A i \in Instances : Outcome'[i] = Outcome[i]
  BY OutcomeStays
<1>2. Outcome = [j \in Instances |-> Outcome[j]] /\ Outcome' = [j \in Instances |-> Outcome'[j]]
  BY DEF Outcome
<1>3. Level' = Level
  BY DEF Level
<1>4. QED
  BY <1>1, <1>2, <1>3

\* Nothing is applied as long as no request that decided gets done.
LEMMA AppliedStays ==
    ASSUME \A c \in Calls : pc[c] = "done" => pc'[c] = "done",
           \A c \in Calls : pc'[c] = "done" => req'[c] = req[c] /\ (pc[c] = "done" \/ ~Final(c))
    PROVE  Applied' = Applied
<1>1. ASSUME NEW i \in Instances PROVE Effects(i)' = Effects(i)
  BY DEF Effects, Final, OnLastStep
<1>2. QED
  BY <1>1 DEF Applied

\* What a step of the engine is to the instance it touches.
LEMMA BeginsBegin ==
    ASSUME TypeOK, TypeOK', Unbegun, NEW i \in Instances, NEW u \in Initiators, Begins(i, u)
    PROVE  Decision!Begin(i)
<1>1. row'[i].status = "IN_PROGRESS" /\ row'[i].step = 1
  BY DEF Begins, Store, TypeOK
<1>2. row[i].status = "ABSENT" /\ row[i].step = 1
  BY DEF Begins, Unbegun
<1>3. \A j \in Instances \ {i} : row'[j] = row[j]
  BY DEF Begins, Store, TypeOK
<1>4. Applied' = Applied
  BY AppliedStays DEF Begins
<1>5. Outcome' = [Outcome EXCEPT ![i] = "open"]
  BY <1>1, <1>3, OutcomeMoves, OutcomeThen DEF OpenStatus
<1>6. Level' = Level
  BY <1>1, <1>2, <1>3 DEF Level
<1>7. QED
  BY <1>2, <1>4, <1>5, <1>6, OutcomeIs DEF Decision!Begin

LEMMA WritesGoOn ==
    ASSUME TypeOK, TypeOK', Current, NEW c \in Calls, NEW r \in Rows, Writes(c, r)
    PROVE  Decision!Next \/ UNCHANGED <<Outcome, Level, Applied>>
<1>1. PICK i \in Instances : i = req[c].inst
  BY DEF TypeOK
<1>2. req[c].copy = row[i] /\ row[i].status \in OpenStatus /\ row[i].step \in 1..Steps
  BY <1>1 DEF Writes, Current, TypeOK, Rows
<1>3. row'[i] = r /\ \A j \in Instances \ {i} : row'[j] = row[j]
  BY <1>1 DEF Writes, Store, TypeOK
<1>4. Applied' = Applied
  <2>1. \A d \in Calls : pc[d] = "done" => pc'[d] = "done"
    BY DEF Writes, TypeOK
  <2>2. \A d \in Calls : pc'[d] = "done" => pc[d] = "done" \/ ~Final(d)
    BY DEF Writes, TypeOK, Final
  <2>3. QED
    BY <2>1, <2>2, AppliedStays DEF Writes
<1>5. Outcome[i] = "open" /\ Level[i] = row[i].step
  BY <1>2, OutcomeIs DEF Level
<1>6. Outcome' = [Outcome EXCEPT ![i] = Outcome'[i]] /\ Level' = [Level EXCEPT ![i] = r.step]
  BY <1>3, OutcomeMoves, LevelMoves
<1>7. CASE r.status = "REJECTED" /\ r.step = row[i].step
  <2>1. Outcome'[i] = "rejected" /\ Level' = Level
    BY <1>3, <1>7, OutcomeThen DEF Level
  <2>2. Decision!Reject(i)
    BY <1>4, <1>5, <1>6, <2>1 DEF Decision!Reject
  <2>3. QED
    BY <2>2 DEF Decision!Next
<1>8. CASE r.status \in OpenStatus /\ r.step = row[i].step
  <2>1. Outcome' = Outcome /\ Level' = Level
    BY <1>2, <1>3, <1>8, SameOutcomes
  <2>2. QED
    BY <1>4, <2>1
<1>9. CASE r.status = "IN_PROGRESS" /\ r.step = row[i].step + 1
  <2>1. Outcome'[i] = Outcome[i] /\ Outcome = [j \in Instances |-> Outcome[j]]
    BY <1>2, <1>3, <1>9, OutcomeStays DEF OpenStatus, Outcome
  <2>2. Outcome' = Outcome
    BY <1>6, <2>1
  <2>3. row[i].step < Steps
    BY <1>2, <1>9, WorkflowAssumption DEF Rows
  <2>4. Decision!Climb(i)
    BY <1>4, <1>5, <1>6, <1>9, <2>2, <2>3 DEF Decision!Climb
  <2>5. QED
    BY <2>4 DEF Decision!Next
<1>10. CASE r.status = "APPROVED" /\ r.step = row[i].step /\ row[i].step = Steps
  <2>1. Outcome'[i] = "approved" /\ Level' = Level
    BY <1>3, <1>10, OutcomeThen DEF Level
  <2>2. Decision!Approve(i)
    BY <1>4, <1>5, <1>6, <1>10, <2>1 DEF Decision!Approve
  <2>3. QED
    BY <2>2 DEF Decision!Next
<1>11. \/ r.status = "REJECTED" /\ r.step = row[i].step
       \/ r.status \in OpenStatus /\ r.step = row[i].step
       \/ r.status = "IN_PROGRESS" /\ r.step = row[i].step + 1
       \/ r.status = "APPROVED" /\ r.step = row[i].step /\ row[i].step = Steps
  BY <1>1, <1>2, WorkflowAssumption DEF Writes, OnLastStep, OpenStatus
<1>12. QED
  BY <1>7, <1>8, <1>9, <1>10, <1>11

LEMMA EndsApply ==
    ASSUME TypeOK, DecidedByOne, NEW c \in Calls, Ends(c)
    PROVE  Decision!Next \/ UNCHANGED <<Outcome, Level, Applied>>
<1>1. Outcome' = Outcome /\ Level' = Level
  BY DEF Ends, Outcome, Level
<1>2. CASE pc'[c] # "done" \/ ~Final(c)
  <2>1. \A d \in Calls : pc[d] = "done" => pc'[d] = "done"
    BY DEF Ends, TypeOK
  <2>2. \A d \in Calls : pc'[d] = "done" => pc[d] = "done" \/ ~Final(d)
    BY <1>2 DEF Ends, TypeOK
  <2>3. QED
    BY <1>1, <2>1, <2>2, AppliedStays DEF Ends
<1>3. CASE pc'[c] = "done" /\ Final(c)
  <2>1. PICK i \in Instances : i = req[c].inst
    BY DEF TypeOK
  <2>2. pc[c] = "effect" /\ Wrote(c) /\ pc' = [pc EXCEPT ![c] = "done"] /\ UNCHANGED <<row, req>>
    BY <1>3 DEF Ends, Wrote, TypeOK
  <2>3. Outcome[i] \in {"approved", "rejected"}
    BY <1>3, <2>1, <2>2, OutcomeIs DEF DecidedByOne
  <2>4. Effects(i) = {}
    <3>1. ASSUME NEW d \in Effects(i) PROVE d = c
      BY <1>3, <2>1, <2>2, <3>1 DEF Effects, DecidedByOne, Wrote, Final
    <3>2. c \notin Effects(i)
      BY <2>2 DEF Effects
    <3>3. QED
      BY <3>1, <3>2
  <2>5. Effects(i)' = Effects(i) \cup {c}
    BY <1>3, <2>1, <2>2 DEF Effects, Final, OnLastStep, TypeOK
  <2>6. \A j \in Instances \ {i} : Effects(j)' = Effects(j)
    BY <2>1, <2>2 DEF Effects, OnLastStep, TypeOK
  <2>7. Effects(i)' = {c} /\ Cardinality({}) = 0 /\ Cardinality({c}) = 1
    BY <2>4, <2>5, FS_EmptySet, FS_Singleton
  <2>8. Applied[i] = 0 /\ Applied' = [Applied EXCEPT ![i] = 1]
    BY <2>4, <2>6, <2>7 DEF Applied
  <2>9. Decision!Apply(i)
    BY <1>1, <2>3, <2>8 DEF Decision!Apply
  <2>10. QED
    BY <2>9 DEF Decision!Next
<1>4. QED
  BY <1>2, <1>3

LEMMA DecisionGoesOn ==
    ASSUME TypeOK, TypeOK', InTurn, Turn
    PROVE  Decision!Next \/ UNCHANGED <<Outcome, Level, Applied>>
<1>1. ASSUME NEW i \in Instances, NEW u \in Initiators, Begins(i, u)
      PROVE  Decision!Next
  BY <1>1, BeginsBegin DEF Decision!Next, InTurn
<1>2. ASSUME NEW c \in Calls, NEW i \in Instances, NEW u \in Users, NEW a \in Actions, Reads(c, i, u, a)
      PROVE  UNCHANGED <<Outcome, Level, Applied>>
  <2>1. row' = row /\ \A d \in Calls : pc[d] = "done" => pc'[d] = "done" /\ req'[d] = req[d]
    BY <1>2 DEF Reads, TypeOK
  <2>2. \A d \in Calls : pc'[d] = "done" => pc[d] = "done"
    BY <1>2 DEF Reads, TypeOK
  <2>3. Applied' = Applied
    BY <2>1, <2>2, AppliedStays
  <2>4. QED
    BY <2>1, <2>3 DEF Outcome, Level
<1>3. ASSUME NEW c \in Calls, Ends(c)
      PROVE  Decision!Next \/ UNCHANGED <<Outcome, Level, Applied>>
  BY <1>3, EndsApply DEF InTurn
<1>4. ASSUME NEW c \in Calls, NEW r \in Rows, Writes(c, r)
      PROVE  Decision!Next \/ UNCHANGED <<Outcome, Level, Applied>>
  BY <1>4, WritesGoOn DEF InTurn
<1>5. CASE Sweep
  <2>1. UNCHANGED <<pc, req>> /\ \A i \in Instances : Swept(i)
    BY <1>5, SweepSweeps DEF InTurn
  <2>2. Applied' = Applied
    BY <2>1, AppliedStays
  <2>3. \A i \in Instances :
           /\ row'[i].step = row[i].step
           /\ \/ row'[i].status = row[i].status
              \/ row[i].status \in OpenStatus /\ row'[i].status \in OpenStatus
    BY <2>1 DEF Swept, OpenStatus
  <2>4. QED
    BY <2>2, <2>3, SameOutcomes
<1>6. CASE UNCHANGED vars
  BY <1>6, AppliedStays DEF vars, Outcome, Level
<1>7. QED
  BY <1>1, <1>2, <1>3, <1>4, <1>5, <1>6 DEF Turn

LEMMA DecisionBegins == Init => Decision!Init
<1> SUFFICES ASSUME Init PROVE Decision!Init
  OBVIOUS
<1>1. \A i \in Instances : row[i].status = "ABSENT" /\ row[i].step = 1
  BY DEF Init, AbsentRow
<1>2. Outcome = [i \in Instances |-> "none"] /\ Level = [i \in Instances |-> 1]
  <2>1. TypeOK
    BY TypeInit
  <2>2. \A i \in Instances : Outcome[i] = "none"
    BY <1>1, <2>1, OutcomeIs
  <2>3. Outcome = [i \in Instances |-> Outcome[i]]
    BY DEF Outcome
  <2>4. QED
    BY <1>1, <2>2, <2>3 DEF Level
<1>3. \A i \in Instances : Effects(i) = {}
  BY DEF Init, Effects
<1>4. Applied = [i \in Instances |-> 0]
  BY <1>3, FS_EmptySet DEF Applied
<1>5. QED
  BY <1>2, <1>4 DEF Decision!Init

(* Where requests and sweeps do not overlap, deaths or not, the engine       *)
(* implements WorkflowDecision: an instance is begun once, climbs one step   *)
(* at a time, is decided once and for all, and the handler of its decision   *)
(* runs at most once, after the row was written.                             *)
THEOREM EngineDecidesOnce ==
    ASSUME MaxOpen <= 1
    PROVE  Spec => DecidedOnce
<1>1. TypeOK /\ InTurn /\ [Next]_vars => TypeOK' /\ Turn
  BY TypeStep, NextIsTurn DEF InTurn
<1>2. TypeOK /\ InTurn /\ [Next]_vars => [Decision!Next]_<<Outcome, Level, Applied>>
  BY <1>1, DecisionGoesOn
<1>3. Spec => [][Decision!Next]_<<Outcome, Level, Applied>>
  BY InTurnAlways, <1>2, PTL DEF Spec
<1>4. Spec => Decision!Init
  BY DecisionBegins, PTL DEF Spec
<1>5. QED
  BY <1>3, <1>4, PTL DEF DecidedOnce, Decision!Spec, Decision!vars

-----------------------------------------------------------------------------
(* The log of deliveries *)

Places == {"idle", "row", "add", "post", "log"}
Answers == {"open", "failed", "success"}

LogRow == [attempt : Nat, answer : Answers]
Errands == [event : Events, row : Nat, attempt : Nat, ok : BOOLEAN]

DeliveryColumns ==
    /\ at \in [Workers -> Places]
    /\ event \in [Events -> {"none", "emitted", "heard"}]
    /\ log \in [Events -> Seq(LogRow)]
    /\ seen \in [Events -> Nat] /\ accepted \in [Events -> Nat]
    /\ delivery \in [Workers -> Errands]

Holds(w, e) == at[w] # "idle" /\ delivery[w].event = e

\* What the n-th row of e tells.
RowTells(e, n) ==
    /\ log[e][n].attempt = n
    /\ n < Len(log[e]) => log[e][n].answer = "failed"
    /\ log[e][n].answer # "open" => n <= seen[e]
    /\ log[e][n].answer = "success" => accepted[e] > 0

\* Where the delivery d of e stands, at the end of its rows.
Stands(e, place, d) ==
    /\ event[e] # "emitted"
    /\ place = "row" => /\ d.attempt = Len(log[e]) + 1
                        /\ Len(log[e]) < MaxAttempts
                        /\ seen[e] = Len(log[e])
                        /\ Len(log[e]) > 0 => log[e][Len(log[e])].answer = "failed"
    /\ place # "row" => /\ Len(log[e]) > 0
                        /\ d.row = Len(log[e]) /\ d.attempt = Len(log[e])
    /\ place \in {"add", "post"} => seen[e] = Len(log[e]) - 1
    /\ place = "log" => /\ seen[e] = Len(log[e])
                        /\ d.ok => accepted[e] > 0

\* The rows of e are one chain of attempts, with one delivery at most at its end.
Chain(e) ==
    /\ Len(log[e]) <= MaxAttempts
    /\ seen[e] <= Len(log[e])
    /\ \A n \in 1..Len(log[e]) : RowTells(e, n)
    /\ \A w \in Workers : Holds(w, e) => Stands(e, at[w], delivery[w])
    /\ \A v, w \in Workers : Holds(v, e) /\ Holds(w, e) => v = w
    /\ event[e] = "emitted" => Len(log[e]) = 0

\* The handler of the last approval of instance e has returned: only then may e be announced.
DecisionDone(e) == \E c \in Calls : pc[c] = "done" /\ LastApproval(c) /\ req[c].inst = e

Vacant(e) == Len(log[e]) = 0 /\ \A w \in Workers : ~Holds(w, e)
Unheard(e) == event[e] = "none" /\ Vacant(e)

Sends(w, place, d) == at' = [at EXCEPT ![w] = place] /\ delivery' = [delivery EXCEPT ![w] = d]

\* What a delivery of e does to other events: nothing.
OnlyTouches(w, e) ==
    /\ \A v \in Workers \ {w} : at'[v] = at[v] /\ delivery'[v] = delivery[v]
    /\ at[w] = "idle" \/ delivery[w].event = e
    /\ at'[w] = "idle" \/ delivery'[w].event = e
    /\ \A f \in Events \ {e} : /\ log'[f] = log[f] /\ event'[f] = event[f]
                               /\ seen'[f] = seen[f] /\ accepted'[f] = accepted[f]

LEMMA ApartFrom ==
    ASSUME NEW w \in Workers, NEW e \in Events, OnlyTouches(w, e), NEW f \in Events \ {e}
    PROVE  (Chain(f) => Chain(f)') /\ (Unheard(f) => Unheard(f)')
<1>1. \A v \in Workers : /\ Holds(v, f)' <=> Holds(v, f)
                         /\ Holds(v, f) => at'[v] = at[v] /\ delivery'[v] = delivery[v]
  BY DEF OnlyTouches, Holds
<1>2. log'[f] = log[f] /\ event'[f] = event[f] /\ seen'[f] = seen[f] /\ accepted'[f] = accepted[f]
  BY DEF OnlyTouches
<1>3. \A n : RowTells(f, n) => RowTells(f, n)'
  BY <1>2 DEF RowTells
<1>4. ASSUME NEW v \in Workers, Holds(v, f), Stands(f, at[v], delivery[v])
      PROVE  Stands(f, at[v], delivery[v])'
  <2>1. at'[v] = at[v] /\ delivery'[v] = delivery[v]
    BY <1>1, <1>4
  <2>2. QED
    BY <1>2, <1>4, <2>1 DEF Stands
<1>5. Chain(f) => Chain(f)'
  BY <1>1, <1>2, <1>3, <1>4 DEF Chain
<1>6. Unheard(f) => Unheard(f)'
  BY <1>1, <1>2 DEF Unheard, Vacant
<1>7. QED
  BY <1>5, <1>6

LEMMA NoDeliveryType == NoDelivery \in Errands
BY WebhooksAssumption DEF NoDelivery, Errands

\* A step of the one delivery of e: the worker w goes to place with d.
DeliveryOf(w, e) == OnlyTouches(w, e) /\ DeliveryColumns' /\ Chain(e)'

LEMMA Delivers ==
    ASSUME DeliveryColumns, NEW w \in Workers, NEW e \in Events,
           at[w] = "idle" \/ delivery[w].event = e,
           \A v \in Workers \ {w} : ~Holds(v, e),
           NEW place \in Places, NEW d \in Errands, Sends(w, place, d),
           place # "idle" => d.event = e /\ Stands(e, place, d)',
           log' \in [Events -> Seq(LogRow)], seen' \in [Events -> Nat], accepted' \in [Events -> Nat],
           event' \in [Events -> {"none", "emitted", "heard"}],
           \A f \in Events \ {e} : /\ log'[f] = log[f] /\ event'[f] = event[f]
                                   /\ seen'[f] = seen[f] /\ accepted'[f] = accepted[f],
           Len(log'[e]) <= MaxAttempts, seen'[e] <= Len(log'[e]),
           \A n \in 1..Len(log'[e]) : RowTells(e, n)',
           event'[e] = "emitted" => Len(log'[e]) = 0
    PROVE  DeliveryOf(w, e)
<1>1. at'[w] = place /\ delivery'[w] = d
  BY DEF Sends, DeliveryColumns
<1>2. \A v \in Workers \ {w} : at'[v] = at[v] /\ delivery'[v] = delivery[v]
  BY DEF Sends, DeliveryColumns
<1>3. DeliveryColumns'
  BY DEF Sends, DeliveryColumns
<1>4. OnlyTouches(w, e)
  BY <1>1, <1>2 DEF OnlyTouches
<1>5. \A v \in Workers \ {w} : ~Holds(v, e)'
  BY <1>2 DEF Holds
<1>6. ASSUME NEW v \in Workers, Holds(v, e)' PROVE Stands(e, at[v], delivery[v])' /\ v = w
  <2>1. v = w
    BY <1>5, <1>6
  <2>2. place # "idle"
    BY <1>1, <1>6, <2>1 DEF Holds
  <2>3. Stands(e, place, d)'
    BY <2>2
  <2>4. Stands(e, at[w], delivery[w])'
    BY <1>1, <2>3 DEF Stands
  <2>5. QED
    BY <2>1, <2>4
<1>7. Chain(e)'
  BY <1>6 DEF Chain
<1>8. QED
  BY <1>3, <1>4, <1>7 DEF DeliveryOf

\* The worker that holds e is alone on it, and stands where its place says.
LEMMA HolderStands ==
    ASSUME DeliveryColumns, NEW w \in Workers, NEW e \in Events, e = delivery[w].event, Chain(e), at[w] # "idle"
    PROVE  /\ Stands(e, at[w], delivery[w]) /\ ~Unheard(e)
           /\ \A v \in Workers \ {w} : ~Holds(v, e)
           /\ Len(log[e]) \in Nat /\ seen[e] \in Nat /\ accepted[e] \in Nat /\ log[e] \in Seq(LogRow)
           /\ delivery[w] \in Errands /\ Len(log[e]) <= MaxAttempts /\ event[e] # "emitted"
<1>1. Holds(w, e)
  BY DEF Holds
<1>2. Stands(e, at[w], delivery[w]) /\ \A v \in Workers \ {w} : ~Holds(v, e)
  BY <1>1 DEF Chain
<1>3. QED
  BY <1>1, <1>2 DEF Chain, Unheard, Vacant, DeliveryColumns, Stands

LEMMA CreateDoes ==
    ASSUME DeliveryColumns, NEW w \in Workers, NEW e \in Events, e = delivery[w].event, Chain(e), CreateRow(w)
    PROVE  DeliveryOf(w, e) /\ ~Unheard(e)
<1> DEFINE d == delivery[w]
           L == Len(log[e])
           r == [attempt |-> d.attempt, answer |-> "open"]
<1>1. at[w] = "row"
  BY DEF CreateRow
<1>2. /\ Stands(e, "row", d) /\ ~Unheard(e)
      /\ \A v \in Workers \ {w} : ~Holds(v, e)
      /\ L \in Nat /\ seen[e] \in Nat /\ accepted[e] \in Nat /\ log[e] \in Seq(LogRow)
      /\ d \in Errands /\ event[e] # "emitted"
  BY <1>1, HolderStands
<1>3. d.attempt = L + 1 /\ L < MaxAttempts /\ seen[e] = L /\ (L > 0 => log[e][L].answer = "failed")
  BY <1>2 DEF Stands
<1>4. r \in LogRow /\ r.attempt = L + 1 /\ r.answer = "open"
  BY <1>2, <1>3 DEF LogRow, Errands, Answers
<1>5. PICK q \in Errands : /\ q = [d EXCEPT !.row = L + 1]
                          /\ q.event = e /\ q.row = L + 1 /\ q.attempt = L + 1
  <2> DEFINE x == [d EXCEPT !.row = L + 1]
  <2>1. x \in Errands /\ x.event = e /\ x.row = L + 1 /\ x.attempt = L + 1
    BY <1>2, <1>3 DEF Errands
  <2>2. QED
    BY <2>1
<1>6. log' = [log EXCEPT ![e] = Append(log[e], r)]
  BY DEF CreateRow
<1>7. PICK place \in {"add", "post"} : Sends(w, place, q)
  BY <1>2, <1>5 DEF CreateRow, Arrive, Move, Sends, Errands
<1>8. UNCHANGED <<event, seen, accepted>>
  BY DEF CreateRow, endpoint
<1> HIDE DEF r
<1>9. /\ Append(log[e], r) \in Seq(LogRow) /\ Len(Append(log[e], r)) = L + 1
      /\ Append(log[e], r)[L + 1] = r
      /\ \A n \in 1..L : Append(log[e], r)[n] = log[e][n]
  BY <1>2, <1>4, AppendProperties
<1>10. log'[e] = Append(log[e], r) /\ log' \in [Events -> Seq(LogRow)]
       /\ \A f \in Events \ {e} : log'[f] = log[f]
  BY <1>6, <1>9 DEF DeliveryColumns
<1>11. Len(log'[e]) = L + 1 /\ log'[e][L + 1] = r /\ \A n \in 1..L : log'[e][n] = log[e][n]
  BY <1>9, <1>10
<1> DEFINE t == log'[e]
<1>12. ASSUME NEW n \in 1..(L + 1) PROVE RowTells(e, n)'
  <2>1. CASE n = L + 1
    BY <1>2, <1>4, <1>11, <2>1 DEF RowTells
  <2>2. CASE n # L + 1
    <3>1. n \in 1..L /\ RowTells(e, n)
      BY <1>2, <2>2 DEF Chain
    <3>2. log'[e][n] = log[e][n] /\ (n = L => log[e][n].answer = "failed")
      BY <1>3, <1>11, <3>1
    <3>3. QED
      BY <1>2, <1>8, <1>11, <3>1, <3>2 DEF RowTells
  <2>3. QED
    BY <2>1, <2>2
<1>13. Stands(e, place, q)'
  BY <1>2, <1>3, <1>5, <1>8, <1>11 DEF Stands
<1>14. place \in Places /\ place # "idle"
  BY DEF Places
<1>15. L + 1 <= MaxAttempts /\ seen'[e] <= L + 1 /\ event'[e] # "emitted"
  BY <1>2, <1>3, <1>8, WebhooksAssumption
<1>16. seen' \in [Events -> Nat] /\ accepted' \in [Events -> Nat]
       /\ event' \in [Events -> {"none", "emitted", "heard"}]
  BY <1>8 DEF DeliveryColumns
<1>17. DeliveryOf(w, e)
  BY <1>2, <1>5, <1>7, <1>8, <1>10, <1>11, <1>12, <1>13, <1>14, <1>15, <1>16, Delivers
<1>18. QED
  BY <1>2, <1>17

\* A call that ends, for whatever reason, leaves the rows as they are.
LEMMA DeliveryEnds ==
    ASSUME DeliveryColumns, NEW w \in Workers, NEW e \in Events, e = delivery[w].event, Chain(e), at[w] # "idle",
           Sends(w, "idle", NoDelivery), UNCHANGED <<event, log, seen, accepted>>
    PROVE  DeliveryOf(w, e) /\ ~Unheard(e)
<1>1. \A v \in Workers \ {w} : ~Holds(v, e)
  BY HolderStands
<1>2. ~Unheard(e)
  BY HolderStands
<1>3. \A n \in 1..Len(log'[e]) : RowTells(e, n)'
  BY DEF Chain, RowTells
<1>4. Len(log'[e]) <= MaxAttempts /\ seen'[e] <= Len(log'[e]) /\ (event'[e] = "emitted" => Len(log'[e]) = 0)
  BY DEF Chain
<1>5. "idle" \in Places /\ NoDelivery \in Errands
  BY NoDeliveryType DEF Places
<1>6. log' \in [Events -> Seq(LogRow)] /\ seen' \in [Events -> Nat] /\ accepted' \in [Events -> Nat]
      /\ event' \in [Events -> {"none", "emitted", "heard"}]
  BY DEF DeliveryColumns
<1>7. DeliveryOf(w, e)
  BY <1>1, <1>3, <1>4, <1>5, <1>6, Delivers
<1>8. QED
  BY <1>2, <1>7

LEMMA PostDoes ==
    ASSUME DeliveryColumns, NEW w \in Workers, NEW e \in Events, e = delivery[w].event, Chain(e), Post(w)
    PROVE  DeliveryOf(w, e) /\ ~Unheard(e)
<1> DEFINE d == delivery[w]
           L == Len(log[e])
<1>1. at[w] = "post"
  BY DEF Post
<1>2. /\ Stands(e, "post", d) /\ ~Unheard(e)
      /\ \A v \in Workers \ {w} : ~Holds(v, e)
      /\ L \in Nat /\ seen[e] \in Nat /\ accepted[e] \in Nat
      /\ d \in Errands /\ event[e] # "emitted" /\ L <= MaxAttempts
  BY <1>1, HolderStands
<1>3. L > 0 /\ d.row = L /\ d.attempt = L /\ seen[e] = L - 1
  BY <1>2 DEF Stands
<1>4. PICK takes \in BOOLEAN, ok \in BOOLEAN :
         /\ ok => takes
         /\ accepted' = [accepted EXCEPT ![e] = @ + (IF takes THEN 1 ELSE 0)]
         /\ delivery' = [delivery EXCEPT ![w] = [d EXCEPT !.ok = ok]]
  BY DEF Post
<1>5. PICK q \in Errands : /\ q = [d EXCEPT !.ok = ok]
                          /\ q.event = e /\ q.row = L /\ q.attempt = L /\ q.ok = ok
  <2> DEFINE x == [d EXCEPT !.ok = ok]
  <2>1. x \in Errands /\ x.event = e /\ x.row = L /\ x.attempt = L /\ x.ok = ok
    BY <1>2, <1>3 DEF Errands
  <2>2. QED
    BY <2>1
<1>6. Sends(w, "log", q) /\ "log" \in Places /\ "log" # "idle"
  BY <1>4, <1>5 DEF Post, Arrive, Move, Sends, Places
<1>7. seen' = [seen EXCEPT ![e] = @ + 1] /\ UNCHANGED <<event, log>>
  BY DEF Post
<1>8. /\ seen' \in [Events -> Nat] /\ seen'[e] = L /\ \A f \in Events \ {e} : seen'[f] = seen[f]
  BY <1>2, <1>3, <1>7 DEF DeliveryColumns
<1>9. /\ accepted' \in [Events -> Nat] /\ \A f \in Events \ {e} : accepted'[f] = accepted[f]
      /\ accepted'[e] = accepted[e] + (IF takes THEN 1 ELSE 0)
  BY <1>2, <1>4 DEF DeliveryColumns
<1>10. accepted'[e] >= accepted[e] /\ (ok => accepted'[e] > 0)
  BY <1>2, <1>4, <1>9
<1>11. ASSUME NEW n \in 1..Len(log'[e]) PROVE RowTells(e, n)'
  <2>1. RowTells(e, n) /\ n <= L
    BY <1>2, <1>7, <1>11 DEF Chain
  <2>2. QED
    BY <1>2, <1>7, <1>8, <1>9, <1>10, <2>1 DEF RowTells
<1>12. Stands(e, "log", q)'
  BY <1>2, <1>3, <1>5, <1>7, <1>8, <1>10 DEF Stands
<1>13. Len(log'[e]) <= MaxAttempts /\ seen'[e] <= Len(log'[e]) /\ event'[e] # "emitted"
       /\ \A f \in Events \ {e} : log'[f] = log[f] /\ event'[f] = event[f]
  BY <1>2, <1>7, <1>8
<1>14. log' \in [Events -> Seq(LogRow)] /\ event' \in [Events -> {"none", "emitted", "heard"}]
  BY <1>7 DEF DeliveryColumns
<1>15. DeliveryOf(w, e)
  BY <1>2, <1>5, <1>6, <1>8, <1>9, <1>11, <1>12, <1>13, <1>14, Delivers
<1>16. QED
  BY <1>2, <1>15

\* A sequence with another n-th element.
LEMMA Rewritten ==
    ASSUME NEW R, NEW s \in Seq(R), NEW n \in 1..Len(s), NEW x \in R
    PROVE  /\ [s EXCEPT ![n] = x] \in Seq(R)
           /\ Len([s EXCEPT ![n] = x]) = Len(s)
           /\ \A m \in 1..Len(s) : [s EXCEPT ![n] = x][m] = IF m = n THEN x ELSE s[m]
BY ExceptSeq

LEMMA AnswerDoes ==
    ASSUME DeliveryColumns, NEW w \in Workers, NEW e \in Events, e = delivery[w].event, Chain(e), LogAnswer(w)
    PROVE  DeliveryOf(w, e) /\ ~Unheard(e)
<1> DEFINE d == delivery[w]
           L == Len(log[e])
           x == IF d.ok THEN "success" ELSE "failed"
           y == [log[e][L] EXCEPT !.answer = x]
           s == [log[e] EXCEPT ![L] = y]
<1>1. at[w] = "log"
  BY DEF LogAnswer
<1>2. /\ Stands(e, "log", d) /\ ~Unheard(e)
      /\ \A v \in Workers \ {w} : ~Holds(v, e)
      /\ L \in Nat /\ seen[e] \in Nat /\ accepted[e] \in Nat /\ log[e] \in Seq(LogRow)
      /\ d \in Errands /\ event[e] # "emitted" /\ L <= MaxAttempts
  BY <1>1, HolderStands
<1>3. L \in 1..L /\ d.row = L /\ d.attempt = L /\ seen[e] = L /\ (d.ok => accepted[e] > 0)
  BY <1>2 DEF Stands
<1>4. log[e][L] \in LogRow /\ RowTells(e, L)
  BY <1>2, <1>3 DEF Chain
<1>5. y \in LogRow /\ y.attempt = L /\ y.answer = x /\ x # "open" /\ (x = "success" <=> d.ok) /\ (~d.ok => x = "failed")
  <2>1. x \in Answers /\ x # "open" /\ (x = "success" <=> d.ok) /\ (~d.ok => x = "failed")
    BY DEF Answers
  <2> HIDE DEF x
  <2>2. y \in LogRow /\ y.attempt = log[e][L].attempt /\ y.answer = x
    BY <1>4, <2>1 DEF LogRow
  <2>3. QED
    BY <1>4, <2>1, <2>2 DEF RowTells
<1>6. log' = [log EXCEPT ![e] = s]
  <2>1. log' = [log EXCEPT ![e][L].answer = x]
    BY <1>3 DEF LogAnswer
  <2>2. [log EXCEPT ![e][L].answer = x] = [log EXCEPT ![e] = [log[e] EXCEPT ![L] = [log[e][L] EXCEPT !.answer = x]]]
    OBVIOUS
  <2>3. QED
    BY <2>1, <2>2
<1> HIDE DEF y, x
<1>7. s \in Seq(LogRow) /\ Len(s) = L /\ \A n \in 1..L : s[n] = IF n = L THEN y ELSE log[e][n]
  BY <1>2, <1>3, <1>5, Rewritten
<1> HIDE DEF s
<1>8. log'[e] = s /\ log' \in [Events -> Seq(LogRow)] /\ \A f \in Events \ {e} : log'[f] = log[f]
  BY <1>6, <1>7 DEF DeliveryColumns
<1>9. UNCHANGED <<event, seen, accepted>>
  BY DEF LogAnswer, endpoint
<1>10. Len(log'[e]) = L /\ log'[e][L] = y /\ \A n \in 1..L : n # L => log'[e][n] = log[e][n]
  BY <1>3, <1>7, <1>8
<1>11. ASSUME NEW n \in 1..L PROVE RowTells(e, n)'
  <2>1. CASE n = L
    BY <1>2, <1>3, <1>5, <1>9, <1>10, <2>1 DEF RowTells
  <2>2. CASE n # L
    <3>1. RowTells(e, n)
      BY <1>11 DEF Chain
    <3>2. log'[e][n] = log[e][n]
      BY <1>10, <2>2
    <3>3. QED
      BY <1>9, <1>10, <3>1, <3>2 DEF RowTells
  <2>3. QED
    BY <2>1, <2>2
<1>12. L <= MaxAttempts /\ seen'[e] <= L /\ event'[e] # "emitted"
       /\ \A f \in Events \ {e} : event'[f] = event[f] /\ seen'[f] = seen[f] /\ accepted'[f] = accepted[f]
  BY <1>2, <1>3, <1>9
<1>13. seen' \in [Events -> Nat] /\ accepted' \in [Events -> Nat]
       /\ event' \in [Events -> {"none", "emitted", "heard"}]
  BY <1>9 DEF DeliveryColumns
<1>14. CASE Again(d)
  <2>1. PICK q \in Errands : q = [d EXCEPT !.attempt = L + 1] /\ q.event = e /\ q.attempt = L + 1
    <3> DEFINE z == [d EXCEPT !.attempt = L + 1]
    <3>1. z \in Errands /\ z.event = e /\ z.attempt = L + 1
      BY <1>2 DEF Errands
    <3>2. QED
      BY <3>1
  <2>2. Sends(w, "row", q) /\ "row" \in Places /\ "row" # "idle"
    <3>1. at' = [at EXCEPT ![w] = "row"] /\ delivery' = [delivery EXCEPT ![w].attempt = @ + 1]
      BY <1>14 DEF LogAnswer, Arrive, Move
    <3>2. delivery' = [delivery EXCEPT ![w] = q]
      BY <1>3, <2>1, <3>1
    <3>3. QED
      BY <3>1, <3>2 DEF Sends, Places
  <2>3. ~d.ok /\ L < MaxAttempts
    BY <1>3, <1>14 DEF Again
  <2>4. log'[e][L].answer = "failed"
    BY <1>5, <1>10, <2>3
  <2>5. Stands(e, "row", q)'
    BY <1>3, <1>9, <1>10, <1>12, <2>1, <2>3, <2>4 DEF Stands
  <2>6. DeliveryOf(w, e)
    BY <1>2, <1>8, <1>10, <1>11, <1>12, <1>13, <2>1, <2>2, <2>5, Delivers
  <2>7. QED
    BY <1>2, <2>6
<1>15. CASE ~Again(d)
  <2>1. Sends(w, "idle", NoDelivery) /\ "idle" \in Places
    BY <1>15 DEF LogAnswer, Finished, Arrive, Move, Sends, Places
  <2>2. DeliveryOf(w, e)
    BY <1>2, <1>8, <1>10, <1>11, <1>12, <1>13, <2>1, NoDeliveryType, Delivers
  <2>3. QED
    BY <1>2, <2>2
<1>16. QED
  BY <1>14, <1>15

\* A listener that finds a subscriber, or the call of a test, starts with the first row.
Starts(w, e) ==
    /\ at[w] = "idle"
    /\ Sends(w, "row", [NoDelivery EXCEPT !.event = e])
    /\ UNCHANGED <<log, seen, accepted>>

LEMMA DeliveryStarts ==
    ASSUME DeliveryColumns, NEW w \in Workers, NEW e \in Events, Starts(w, e), Chain(e), Vacant(e),
           event' \in [Events -> {"none", "emitted", "heard"}], event'[e] # "emitted",
           \A f \in Events \ {e} : event'[f] = event[f]
    PROVE  DeliveryOf(w, e)
<1> DEFINE q == [NoDelivery EXCEPT !.event = e]
<1>1. q \in Errands /\ q.event = e /\ q.attempt = 1
  BY NoDeliveryType DEF Errands, NoDelivery
<1>2. Sends(w, "row", q) /\ "row" \in Places /\ UNCHANGED <<log, seen, accepted>> /\ at[w] = "idle"
  BY DEF Starts, Places
<1> HIDE DEF q
<1>3. Len(log[e]) = 0 /\ seen[e] = 0 /\ \A v \in Workers : ~Holds(v, e)
  BY DEF Vacant, Chain, DeliveryColumns
<1>4. Stands(e, "row", q)'
  BY <1>1, <1>2, <1>3, WebhooksAssumption DEF Stands
<1>5. Len(log'[e]) <= MaxAttempts /\ seen'[e] <= Len(log'[e]) /\ \A n \in 1..Len(log'[e]) : RowTells(e, n)'
  BY <1>2, <1>3, WebhooksAssumption
<1>6. log' \in [Events -> Seq(LogRow)] /\ seen' \in [Events -> Nat] /\ accepted' \in [Events -> Nat]
  BY <1>2 DEF DeliveryColumns
<1>7. QED
  BY <1>1, <1>2, <1>3, <1>4, <1>5, <1>6, Delivers

\* Subscriptions and emissions, and what the engine does, leave the deliveries alone.
Elsewhere ==
    /\ UNCHANGED <<at, log, seen, accepted, delivery>>
    /\ event' \in [Events -> {"none", "emitted", "heard"}]

LEMMA ElsewhereKeeps ==
    ASSUME DeliveryColumns, Elsewhere
    PROVE  /\ DeliveryColumns'
           /\ \A e \in Events : Chain(e) /\ (event'[e] = "emitted" => event[e] = "emitted" \/ Vacant(e)) => Chain(e)'
           /\ \A e \in Events : event'[e] = event[e] /\ Unheard(e) => Unheard(e)'
<1>1. UNCHANGED <<at, log, seen, accepted, delivery>>
  BY DEF Elsewhere
<1>2. \A v, e : Holds(v, e)' <=> Holds(v, e)
  BY <1>1 DEF Holds
<1>3. ASSUME NEW e \in Events, Chain(e), event'[e] = "emitted" => event[e] = "emitted" \/ Vacant(e)
      PROVE  Chain(e)'
  <2>1. \A n \in 1..Len(log[e]) : RowTells(e, n)'
    BY <1>1, <1>3 DEF Chain, RowTells
  <2>2. ASSUME NEW v \in Workers, Holds(v, e) PROVE Stands(e, at[v], delivery[v])'
    <3>1. Stands(e, at[v], delivery[v])
      BY <1>3, <2>2 DEF Chain
    <3>2. event[e] # "emitted" /\ ~Vacant(e)
      BY <2>2, <3>1 DEF Stands, Vacant
    <3>3. event'[e] # "emitted"
      BY <1>3, <3>2
    <3>4. QED
      BY <1>1, <3>1, <3>3 DEF Stands
  <2>3. event'[e] = "emitted" => Len(log[e]) = 0
    BY <1>3 DEF Chain, Vacant
  <2>4. QED
    BY <1>1, <1>2, <1>3, <2>1, <2>2, <2>3 DEF Chain
<1>4. ASSUME NEW e \in Events, event'[e] = event[e], Unheard(e) PROVE Unheard(e)'
  BY <1>1, <1>2, <1>4 DEF Unheard, Vacant
<1>5. DeliveryColumns'
  BY <1>1 DEF Elsewhere, DeliveryColumns
<1>6. QED
  BY <1>3, <1>4, <1>5

LEMMA DeliverDoes ==
    ASSUME DeliveryColumns, \A e \in Events : Chain(e), NEW w \in Workers, Deliver(w)
    PROVE  \E e \in Events : DeliveryOf(w, e) /\ ~Unheard(e)
<1>1. PICK e \in Events : e = delivery[w].event
  BY DEF DeliveryColumns, Errands
<1>2. Chain(e)
  OBVIOUS
<1>3. CASE CreateRow(w)
  BY <1>1, <1>2, <1>3, CreateDoes
<1>4. CASE AddJob(w)
  <2>1. /\ at[w] # "idle" /\ Sends(w, "idle", NoDelivery)
        /\ UNCHANGED <<event, log, seen, accepted>>
    BY <1>4 DEF AddJob, Finished, Arrive, Move, Sends, endpoint
  <2>2. QED
    BY <1>1, <1>2, <2>1, DeliveryEnds
<1>5. CASE Post(w)
  BY <1>1, <1>2, <1>5, PostDoes
<1>6. CASE LogAnswer(w)
  BY <1>1, <1>2, <1>6, AnswerDoes
<1>7. ASSUME NEW f \in Events, Listen(w, f) PROVE DeliveryOf(w, f) /\ ~Unheard(f)
  <2>1. Chain(f) /\ event[f] = "emitted" /\ event' = [event EXCEPT ![f] = "heard"]
    BY <1>7 DEF Listen
  <2>2. /\ event' \in [Events -> {"none", "emitted", "heard"}] /\ event'[f] = "heard"
        /\ \A g \in Events \ {f} : event'[g] = event[g]
    BY <2>1 DEF DeliveryColumns
  <2>3. ~Unheard(f) /\ Vacant(f)
    BY <2>1 DEF Unheard, Vacant, Chain, Stands
  <2>4. CASE hook = "enabled"
    <3>1. Starts(w, f)
      BY <1>7, <2>4 DEF Listen, Idle, Starts, Arrive, Move, Sends, endpoint
    <3>2. QED
      BY <2>1, <2>2, <2>3, <3>1, DeliveryStarts
  <2>5. CASE hook # "enabled"
    <3>1. Elsewhere /\ at[w] = "idle"
      BY <1>7, <2>2, <2>5 DEF Listen, Idle, Elsewhere, endpoint, queueVars
    <3>2. Chain(f)' /\ DeliveryColumns'
      BY <2>1, <2>2, <3>1, ElsewhereKeeps
    <3>3. OnlyTouches(w, f)
      BY <2>2, <3>1 DEF Elsewhere, OnlyTouches
    <3>4. QED
      BY <2>3, <3>2, <3>3 DEF DeliveryOf
  <2>6. QED
    BY <2>4, <2>5
<1>8. QED
  BY <1>3, <1>4, <1>5, <1>6, <1>7 DEF Deliver

LEMMA OthersDo ==
    ASSUME DeliveryColumns, \A e \in Events : Chain(e), NEW w \in Workers,
           DeliveryFails(w) \/ \E e \in Tests : Test(w, e)
    PROVE  \E e \in Events : DeliveryOf(w, e)
<1>1. CASE DeliveryFails(w)
  <2>1. PICK e \in Events : e = delivery[w].event
    BY DEF DeliveryColumns, Errands
  <2>2. /\ at[w] # "idle" /\ Sends(w, "idle", NoDelivery)
        /\ UNCHANGED <<event, log, seen, accepted>>
    BY <1>1 DEF DeliveryFails, Fails, Move, Sends, endpoint
  <2>3. QED
    BY <2>1, <2>2, DeliveryEnds
<1>2. ASSUME NEW e \in Tests, Test(w, e) PROVE \E f \in Events : DeliveryOf(w, f)
  <2>1. e \in Events
    BY WebhooksAssumption
  <2>2. Starts(w, e) /\ event' = event /\ event[e] = "none" /\ Vacant(e)
    BY <1>2 DEF Test, Fresh, Vacant, Holds, Idle, Starts, Arrive, Move, Sends, endpoint
  <2>3. event' \in [Events -> {"none", "emitted", "heard"}]
    BY <2>2 DEF DeliveryColumns
  <2>4. event'[e] # "emitted" /\ \A f \in Events \ {e} : event'[f] = event[f]
    BY <2>2
  <2>5. DeliveryOf(w, e)
    BY <2>1, <2>2, <2>3, <2>4, DeliveryStarts
  <2>6. QED
    BY <2>1, <2>5
<1>3. QED
  BY <1>1, <1>2

\* A delivery keeps the chain of every event.
LEMMA EveryKept ==
    ASSUME \A e \in Events : Chain(e), NEW w \in Workers, NEW e \in Events, DeliveryOf(w, e)
    PROVE  /\ \A f \in Events : Chain(f)'
           /\ \A f \in Events \ {e} : Unheard(f) => Unheard(f)'
<1>1. OnlyTouches(w, e) /\ Chain(e)'
  BY DEF DeliveryOf
<1>2. ASSUME NEW f \in Events \ {e}
      PROVE  Chain(f)' /\ (Unheard(f) => Unheard(f)')
  <2>1. Chain(f)
    OBVIOUS
  <2>2. QED
    BY <1>1, <2>1, ApartFrom
<1>3. QED
  BY <1>1, <1>2

-----------------------------------------------------------------------------
(* The engine and the log of deliveries together *)

Deliveries ==
    IF scope = "notices"
    THEN \A e \in Events : Len(log[e]) = 0 /\ seen[e] = 0
    ELSE /\ DeliveryColumns
         /\ \A e \in Events : Chain(e)
         /\ scope = "engine" => \A e \in Events : DecisionDone(e) \/ Unheard(e)

LEMMA DeliveriesInit == AnnouncementsInit => Deliveries
<1> SUFFICES ASSUME AnnouncementsInit PROVE Deliveries
  OBVIOUS
<1>1. QueueInit /\ WebhookInit
  BY DEF AnnouncementsInit
<1>2. /\ \A e \in Events : event[e] = "none" /\ log[e] = <<>> /\ seen[e] = 0 /\ accepted[e] = 0
      /\ \A w \in Workers : at[w] = "idle" /\ delivery[w] = NoDelivery
  BY <1>1 DEF QueueInit, WebhookInit
<1>3. \A e \in Events : Len(log[e]) = 0
  BY <1>2
<1>4. DeliveryColumns
  BY <1>1, NoDeliveryType DEF QueueInit, WebhookInit, DeliveryColumns, Places
<1>5. ASSUME NEW e \in Events PROVE Chain(e) /\ Unheard(e)
  <2>1. \A v \in Workers : ~Holds(v, e)
    BY <1>2 DEF Holds
  <2>2. QED
    BY <1>2, <1>3, <2>1, WebhooksAssumption DEF Chain, Unheard, Vacant
<1>6. QED
  BY <1>2, <1>3, <1>4, <1>5 DEF Deliveries

\* What was decided and applied stays so.
LEMMA DoneStays ==
    ASSUME TypeOK, [Next]_vars, NEW e, DecisionDone(e)
    PROVE  DecisionDone(e)'
<1>1. PICK c \in Calls : pc[c] = "done" /\ LastApproval(c) /\ req[c].inst = e
  BY DEF DecisionDone
<1>2. pc'[c] = "done" /\ req'[c] = req[c]
  <2>1. CASE \E i \in Instances, u \in Initiators : Initiate(i, u)
    BY <1>1, <2>1 DEF Initiate
  <2>2. ASSUME NEW d \in Calls, NEW i \in Instances, NEW u \in Users, NEW a \in Actions, Fetch(d, i, u, a)
        PROVE  pc'[c] = "done" /\ req'[c] = req[c]
    BY <1>1, <2>2 DEF Fetch, TypeOK
  <2>3. ASSUME NEW d \in Calls, Handle(d) \/ CallDies(d) PROVE pc'[c] = "done" /\ req'[c] = req[c]
    <3>1. Ends(d) \/ \E r \in Rows : Writes(d, r)
      BY <2>3, HandleWrites
    <3>2. c # d /\ req' = req /\ \A b \in Calls \ {d} : pc'[b] = pc[b]
      BY <1>1, <3>1 DEF Ends, Writes, TypeOK
    <3>3. QED
      BY <1>1, <3>2
  <2>4. CASE Sweep
    BY <1>1, <2>4 DEF Sweep, SweepStart, SweepScan, SweepEnd, SweepDies, SweepWarn, SweepEscalate, SweepSkip
  <2>5. CASE UNCHANGED vars
    BY <1>1, <2>5 DEF vars
  <2>6. QED
    BY <2>1, <2>2, <2>3, <2>4, <2>5 DEF Next
<1>3. LastApproval(c)' /\ req'[c].inst = e
  BY <1>1, <1>2 DEF LastApproval, OnLastStep
<1>4. QED
  BY <1>2, <1>3 DEF DecisionDone

\* A step of the composition is a step of the engine, or leaves it alone.
LEMMA EngineStep == [AnnouncementsNext]_announcementVars => [Next]_vars
BY DEF AnnouncementsNext, announcementVars, HandleAndEmit, OtherEngineStep, DeliverOn, AttendTo,
       OtherWebhookStep, OtherNoticeStep, Next

LEMMA DeliveriesStep ==
    TypeOK /\ InTurn /\ Deliveries /\ [AnnouncementsNext]_announcementVars => Deliveries'
<1> SUFFICES ASSUME TypeOK, InTurn, Deliveries, [AnnouncementsNext]_announcementVars PROVE Deliveries'
  OBVIOUS
<1>1. \A e : DecisionDone(e) => DecisionDone(e)'
  BY EngineStep, DoneStays
\* Steps of the engine, of the subscription and of emissions.
<1>2. ASSUME scope # "notices", scope' = scope, UNCHANGED <<at, log, seen, accepted, delivery>>,
             event' \in [Events -> {"none", "emitted", "heard"}],
             \A e \in Events : \/ event'[e] = event[e]
                               \/ Vacant(e) /\ (scope = "engine" => DecisionDone(e)')
      PROVE  Deliveries'
  <2>1. DeliveryColumns /\ \A e \in Events : Chain(e)
    BY <1>2 DEF Deliveries
  <2>2. Elsewhere
    BY <1>2 DEF Elsewhere
  <2>3. DeliveryColumns' /\ \A e \in Events : Chain(e)'
    BY <1>2, <2>1, <2>2, ElsewhereKeeps
  <2>4. ASSUME scope = "engine", NEW e \in Events PROVE DecisionDone(e)' \/ Unheard(e)'
    <3>1. DecisionDone(e) \/ Unheard(e)
      BY <1>2, <2>4 DEF Deliveries
    <3>2. QED
      BY <1>1, <1>2, <2>1, <2>2, <2>4, <3>1, ElsewhereKeeps
  <2>5. QED
    BY <1>2, <2>3, <2>4 DEF Deliveries
<1>3. ASSUME UNCHANGED webhookVars, UNCHANGED scope, scope = "notices" \/ UNCHANGED queueVars
      PROVE  Deliveries'
  <2>1. UNCHANGED <<event, log, seen, accepted, delivery, scope>>
    BY <1>3 DEF webhookVars, endpoint
  <2>2. CASE scope = "notices"
    BY <2>1, <2>2 DEF Deliveries
  <2>3. CASE scope # "notices"
    <3>1. UNCHANGED at /\ event' \in [Events -> {"none", "emitted", "heard"}]
      BY <1>3, <2>1, <2>3 DEF queueVars, Deliveries, DeliveryColumns
    <3>2. QED
      BY <1>2, <2>1, <2>3, <3>1
  <2>4. QED
    BY <2>2, <2>3
<1>4. ASSUME NEW c \in Calls, HandleAndEmit(c) PROVE Deliveries'
  <2>0. PICK i : i = req[c].inst
    OBVIOUS
  <2>1. /\ scope = "engine" /\ scope' = scope /\ Handle(c)
        /\ UNCHANGED <<at, log, seen, accepted, delivery>>
        /\ event' = IF Completing(c) /\ pc'[c] # "lost" THEN [event EXCEPT ![i] = "emitted"] ELSE event
    BY <1>4, <2>0 DEF HandleAndEmit, Platform, queueVars, endpoint
  <2>2. event \in [Events -> {"none", "emitted", "heard"}] /\ \A e \in Events : DecisionDone(e) \/ Unheard(e)
    BY <2>1 DEF Deliveries, DeliveryColumns
  <2>3. CASE ~(Completing(c) /\ pc'[c] # "lost")
    BY <1>2, <2>1, <2>2, <2>3
  <2>4. CASE Completing(c) /\ pc'[c] # "lost"
    <3>1. pc[c] = "effect" /\ LastApproval(c) /\ Final(c) /\ Wrote(c)
      BY <2>4 DEF Completing, LastApproval, Final, Wrote
    <3>2. ~DecisionDone(i)
      <4>1. SUFFICES ASSUME NEW d \in Calls, pc[d] = "done", LastApproval(d), req[d].inst = i PROVE FALSE
        BY DEF DecisionDone
      <4>2. Wrote(d) /\ Final(d)
        BY <4>1 DEF Wrote, Final, LastApproval
      <4>3. c = d
        BY <2>0, <3>1, <4>1, <4>2 DEF InTurn, DecidedByOne
      <4>4. QED
        BY <3>1, <4>1, <4>3
    <3>3. RunEffect(c)
      BY <2>1, <3>1 DEF Handle, WriteReject, WriteRequestInfo, WriteEscalate, WriteAdvance, WriteApprove, Unresolved
    <3>4. pc'[c] = "done" /\ req' = req
      BY <2>4, <3>3 DEF RunEffect, TypeOK
    <3>5. LastApproval(c)' /\ req'[c].inst = i
      BY <2>0, <3>1, <3>4 DEF LastApproval, OnLastStep
    <3>6. DecisionDone(i)'
      BY <3>4, <3>5 DEF DecisionDone
    <3>7. event' = [event EXCEPT ![i] = "emitted"]
      BY <2>1, <2>4
    <3>8. event' \in [Events -> {"none", "emitted", "heard"}] /\ \A e \in Events \ {i} : event'[e] = event[e]
      BY <2>2, <3>7
    <3>9. i \in Events => Vacant(i)
      BY <2>2, <3>2 DEF Unheard
    <3>10. \A e \in Events : event'[e] = event[e] \/ (Vacant(e) /\ (scope = "engine" => DecisionDone(e)'))
      BY <3>6, <3>8, <3>9
    <3>11. QED
      BY <1>2, <2>1, <3>8, <3>10
  <2>5. QED
    BY <2>3, <2>4
<1>5. CASE OtherEngineStep
  <2>1. /\ scope = "engine" /\ scope' = scope
        /\ UNCHANGED <<at, event, log, seen, accepted, delivery>>
    BY <1>5 DEF OtherEngineStep, Platform, queueVars, endpoint
  <2>2. event' \in [Events -> {"none", "emitted", "heard"}]
    BY <2>1 DEF Deliveries, DeliveryColumns
  <2>3. QED
    BY <1>2, <2>1, <2>2
<1>6. ASSUME NEW w \in Workers, DeliverOn(w) PROVE Deliveries'
  <2>1. scope # "notices" /\ scope' = scope /\ Deliver(w)
    BY <1>6 DEF DeliverOn
  <2>2. DeliveryColumns /\ \A e \in Events : Chain(e)
    BY <2>1 DEF Deliveries
  <2>3. PICK e \in Events : DeliveryOf(w, e) /\ ~Unheard(e)
    BY <2>1, <2>2, DeliverDoes
  <2>4. (\A f \in Events : Chain(f)') /\ (\A f \in Events \ {e} : Unheard(f) => Unheard(f)')
    BY <2>2, <2>3, EveryKept
  <2>5. scope = "engine" => \A f \in Events : DecisionDone(f)' \/ Unheard(f)'
    BY <1>1, <2>1, <2>3, <2>4 DEF Deliveries
  <2>6. DeliveryColumns'
    BY <2>3 DEF DeliveryOf
  <2>7. QED
    BY <2>1, <2>4, <2>5, <2>6 DEF Deliveries
<1>7. CASE OtherWebhookStep
  <2>1. /\ scope \in {"webhooks", "engine"} /\ scope' = scope
        /\ scope = "engine" => Unsubscribe
        /\ scope = "webhooks" => WebhookOther
    BY <1>7 DEF OtherWebhookStep
  <2>2. DeliveryColumns /\ \A e \in Events : Chain(e)
    BY <2>1 DEF Deliveries
  <2>3. ASSUME scope = "webhooks", NEW w \in Workers, DeliveryFails(w) \/ \E e \in Tests : Test(w, e)
        PROVE  Deliveries'
    <3>1. PICK e \in Events : DeliveryOf(w, e)
      BY <2>2, <2>3, OthersDo
    <3>2. \A f \in Events : Chain(f)'
      BY <2>2, <3>1, EveryKept
    <3>3. QED
      BY <2>1, <2>3, <3>1, <3>2 DEF Deliveries, DeliveryOf
  <2>4. CASE Subscribe \/ Unsubscribe
    <3>1. UNCHANGED <<at, event, log, seen, accepted, delivery>>
      BY <2>4 DEF Subscribe, Unsubscribe, endpoint, queueVars
    <3>2. event' \in [Events -> {"none", "emitted", "heard"}]
      BY <2>2, <3>1 DEF DeliveryColumns
    <3>3. QED
      BY <1>2, <2>1, <3>1, <3>2
  <2>5. ASSUME scope = "webhooks", NEW e \in Events \ Tests, Emit(e) PROVE Deliveries'
    <3>1. UNCHANGED <<at, log, seen, accepted, delivery>> /\ event' = [event EXCEPT ![e] = "emitted"]
      BY <2>5 DEF Emit, endpoint, queueVars
    <3>2. Vacant(e)
      BY <2>5 DEF Emit, Fresh, Vacant, Holds
    <3>3. /\ event' \in [Events -> {"none", "emitted", "heard"}]
          /\ \A f \in Events : event'[f] = event[f] \/ Vacant(f)
      BY <2>2, <3>1, <3>2 DEF DeliveryColumns
    <3>4. QED
      BY <1>2, <2>1, <2>5, <3>1, <3>3
  <2>6. QED
    BY <2>1, <2>3, <2>4, <2>5 DEF WebhookOther
<1>8. ASSUME NEW w \in Workers, AttendTo(w) PROVE Deliveries'
  BY <1>3, <1>8 DEF AttendTo
<1>9. CASE OtherNoticeStep
  BY <1>3, <1>9 DEF OtherNoticeStep
<1>10. CASE UNCHANGED announcementVars
  BY <1>3, <1>10 DEF announcementVars
<1>11. QED
  BY <1>4, <1>5, <1>6, <1>7, <1>8, <1>9, <1>10 DEF AnnouncementsNext

(* Announcing its decisions does not disturb the engine (processStep emits after *)
(* handleCompleted returned): every behaviour of the composition is, as far as   *)
(* the engine goes, one of the engine alone.                                     *)
THEOREM EngineUndisturbed == AnnouncementsSpec => Spec
<1>1. AnnouncementsInit => Init
  BY DEF AnnouncementsInit
<1>2. QED
  BY <1>1, EngineStep, PTL DEF AnnouncementsSpec, Spec

LEMMA DeliveriesAlways ==
    ASSUME MaxOpen <= 1
    PROVE  AnnouncementsSpec => [](TypeOK /\ InTurn /\ Deliveries)
<1>1. AnnouncementsSpec => [](TypeOK /\ Inbox /\ InTurn)
  BY EngineUndisturbed, InTurnAlways, PTL
<1>2. QED
  BY <1>1, DeliveriesInit, DeliveriesStep, PTL DEF AnnouncementsSpec

(* The log of deliveries can be believed, whatever fails and however deliveries   *)
(* overlap (enqueueDelivery and deliver of webhook-delivery.service.ts): the rows *)
(* of an event are its attempts, in order, at most MAX_ATTEMPTS, each because the *)
(* one before it failed, and tell what the endpoint got and accepted.             *)
THEOREM DeliveriesLogged ==
    ASSUME MaxOpen <= 1
    PROVE  AnnouncementsSpec => []LogTellsAttempts
<1>1. Deliveries => LogTellsAttempts
  <2> SUFFICES ASSUME Deliveries, NEW e \in Events
               PROVE  /\ Len(log[e]) <= MaxAttempts /\ seen[e] <= Len(log[e])
                      /\ \A n \in 1..Len(log[e]) :
                            /\ log[e][n].attempt = n
                            /\ n < Len(log[e]) => log[e][n].answer = "failed"
                            /\ log[e][n].answer # "open" => n <= seen[e]
                            /\ log[e][n].answer = "success" => accepted[e] > 0
    BY DEF LogTellsAttempts
  <2>1. CASE scope = "notices"
    BY <2>1, WebhooksAssumption DEF Deliveries
  <2>2. CASE scope # "notices"
    BY <2>2 DEF Deliveries, Chain, RowTells
  <2>3. QED
    BY <2>1, <2>2
<1>2. QED
  BY <1>1, DeliveriesAlways, PTL

\* An instance whose last approval was written is approved, for good.
ApprovalStands ==
    \A c \in Calls : Wrote(c) /\ LastApproval(c) => row[req[c].inst].status = "APPROVED"

LEMMA ApprovalStandsStep ==
    ASSUME MaxOpen <= 1, TypeOK, InTurn, ApprovalStands, [Next]_vars
    PROVE  ApprovalStands'
<1> DEFINE Stood(c) == Wrote(c) /\ LastApproval(c)
           Approved(i) == row[i].status = "APPROVED"
<1>1. Turn /\ OneGoing /\ Current
  BY NextIsTurn DEF InTurn
<1>2. \A c \in Calls : req[c].inst \in Instances /\ (Stood(c) => Approved(req[c].inst))
  BY DEF ApprovalStands, TypeOK
<1>3. ASSUME \A c \in Calls : Stood(c)' => Stood(c) /\ req'[c].inst = req[c].inst,
             \A i \in Instances : Approved(i) => Approved(i)'
      PROVE  ApprovalStands'
  BY <1>2, <1>3 DEF ApprovalStands
<1>4. ASSUME req' = req, \A c \in Calls : Wrote(c)' => Wrote(c)
      PROVE  \A c \in Calls : Stood(c)' => Stood(c) /\ req'[c].inst = req[c].inst
  BY <1>4 DEF LastApproval, OnLastStep
<1>5. ASSUME NEW i \in Instances, NEW u \in Initiators, Begins(i, u) PROVE ApprovalStands'
  <2>1. \A j \in Instances : Approved(j) => Approved(j)'
    BY <1>5 DEF Begins, Store, TypeOK
  <2>2. req' = req /\ \A c \in Calls : Wrote(c)' => Wrote(c)
    BY <1>5 DEF Begins, Wrote
  <2>3. QED
    BY <1>3, <1>4, <2>1, <2>2
<1>6. ASSUME NEW c \in Calls, NEW i \in Instances, NEW u \in Users, NEW a \in Actions, Reads(c, i, u, a)
      PROVE  ApprovalStands'
  <2>1. row' = row /\ \A d \in Calls \ {c} : pc'[d] = pc[d] /\ req'[d] = req[d]
    BY <1>6 DEF Reads, TypeOK
  <2>2. pc'[c] = "fetched"
    BY <1>6 DEF Reads, TypeOK
  <2>3. \A d \in Calls : Stood(d)' => Stood(d) /\ req'[d].inst = req[d].inst
    BY <2>1, <2>2 DEF Wrote, LastApproval, OnLastStep
  <2>4. \A j \in Instances : Approved(j) => Approved(j)'
    BY <2>1
  <2>5. QED
    BY <1>3, <2>3, <2>4
<1>7. ASSUME NEW c \in Calls, Ends(c) PROVE ApprovalStands'
  <2>1. row' = row /\ req' = req /\ \A d \in Calls : Wrote(d)' => Wrote(d)
    BY <1>7 DEF Ends, Wrote, TypeOK
  <2>2. QED
    BY <1>3, <1>4, <2>1
<1>8. ASSUME NEW c \in Calls, NEW r \in Rows, Writes(c, r) PROVE ApprovalStands'
  <2>1. req[c].inst \in Instances /\ row[req[c].inst].status \in OpenStatus
    BY <1>1, <1>8 DEF Writes, Current, TypeOK
  <2>2. row'[req[c].inst] = r /\ \A j \in Instances \ {req[c].inst} : row'[j] = row[j]
    BY <1>8, <2>1 DEF Writes, Store, TypeOK
  <2>3. req' = req /\ \A d \in Calls \ {c} : Wrote(d)' => Wrote(d)
    BY <1>8 DEF Writes, Wrote, TypeOK
  <2>4. \A j \in Instances : Approved(j) => Approved(j)' /\ j # req[c].inst
    BY <2>1, <2>2 DEF OpenStatus
  <2>5. \A d \in Calls : LastApproval(d)' <=> LastApproval(d)
    BY <2>3 DEF LastApproval, OnLastStep
  <2>6. \A d \in Calls \ {c} : Stood(d)' => Approved(req[d].inst)'
    BY <1>2, <2>3, <2>4, <2>5
  <2>7. LastApproval(c) => r.status = "APPROVED"
    BY <1>8 DEF Writes, LastApproval
  <2>8. QED
    BY <2>2, <2>3, <2>5, <2>6, <2>7 DEF ApprovalStands
<1>9. CASE Sweep
  <2>1. UNCHANGED <<pc, req>> /\ \A i \in Instances : Swept(i)
    BY <1>1, <1>9, SweepSweeps
  <2>2. \A i \in Instances : Approved(i) => Approved(i)'
    BY <2>1 DEF Swept, OpenStatus
  <2>3. QED
    BY <1>3, <1>4, <2>1, <2>2 DEF Wrote
<1>10. CASE UNCHANGED vars
  BY <1>3, <1>4, <1>10 DEF vars, Wrote
<1>11. QED
  BY <1>1, <1>5, <1>6, <1>7, <1>8, <1>9, <1>10 DEF Turn

(* What subscribers are told is true (processStep emits workflow.completed when  *)
(* handleCompleted has returned): where requests and sweeps do not overlap, an   *)
(* instance announced as completed is approved, for good, and its effect was     *)
(* applied, whatever fails between the update, the handler and the event.        *)
THEOREM AnnouncedTruly ==
    ASSUME MaxOpen <= 1
    PROVE  AnnouncementsSpec => []AnnouncedIsTrue
<1>1. AnnouncementsInit => ApprovalStands
  BY DEF AnnouncementsInit, Init, ApprovalStands, Wrote
<1>2. TypeOK /\ InTurn /\ ApprovalStands /\ [AnnouncementsNext]_announcementVars => ApprovalStands'
  BY EngineStep, ApprovalStandsStep
<1>3. AnnouncementsSpec => []ApprovalStands
  BY <1>1, <1>2, DeliveriesAlways, PTL DEF AnnouncementsSpec
<1>4. Deliveries /\ ApprovalStands => AnnouncedIsTrue
  <2> SUFFICES ASSUME Deliveries, ApprovalStands, NEW i \in Instances, scope = "engine",
                      event[i] # "none" \/ seen[i] > 0
               PROVE  row[i].status = "APPROVED" /\ Effects(i) # {}
    BY DEF AnnouncedIsTrue
  <2>1. i \in Events
    BY AnnouncementsAssumption
  <2>2. DeliveryColumns /\ Chain(i) /\ (DecisionDone(i) \/ Unheard(i))
    BY <2>1 DEF Deliveries
  <2>3. ~Unheard(i)
    BY <2>1, <2>2 DEF Unheard, Vacant, Chain, DeliveryColumns
  <2>4. PICK c \in Calls : pc[c] = "done" /\ LastApproval(c) /\ req[c].inst = i
    BY <2>2, <2>3 DEF DecisionDone
  <2>5. row[i].status = "APPROVED"
    BY <2>4 DEF ApprovalStands, Wrote
  <2>6. c \in Effects(i)
    BY <2>4 DEF Effects, LastApproval
  <2>7. QED
    BY <2>5, <2>6
<1>5. QED
  BY <1>3, <1>4, DeliveriesAlways, PTL

-----------------------------------------------------------------------------
(* Leave: the types of rows and calls *)

LeaveStages == {"idle", "set", "ensure", "reserve", "create", "decided", "load", "charge", "mark"}

LeaveCalls == [request : Requests, year : Years, to : {"APPROVED", "REJECTED"},
               allocated : Nat, carried : Nat]

LEMMA NoCallTyped == NoCall \in LeaveCalls
<1>1. (CHOOSE r \in Requests : TRUE) \in Requests
  BY LeaveAssumption
<1>2. 1 \in Years
  BY LeaveAssumption DEF Years
<1>3. QED
  BY <1>1, <1>2 DEF NoCall, LeaveCalls

LEMMA DaysNat == Days \in [Requests -> Nat] /\ \A r \in Requests : Days[r] \in Nat
BY LeaveAssumption

\* What a row has left is a number.
LEMMA AvailableInt ==
    ASSUME NEW bal \in Row
    PROVE  Available(bal) \in Int
BY DEF Row, Available

\* The lesser of two numbers, when it is above zero, is a natural number.
LEMMA LesserNat ==
    ASSUME NEW a \in Int, NEW b \in Int, Min({a, b}) > 0
    PROVE  Min({a, b}) \in Nat
<1>1. \E x \in {a, b} : \A y \in {a, b} : x =< y
  <2>1. CASE a =< b
    BY <2>1
  <2>2. CASE b =< a
    BY <2>2
  <2>3. QED
    BY <2>1, <2>2
<1>2. Min({a, b}) \in {a, b}
  BY <1>1, Zenon DEF Min
<1>3. QED
  BY <1>2

\* Days that are put aside, and days that are charged.
LEMMA MovedRow ==
    ASSUME NEW bal \in Row, NEW d \in Nat
    PROVE  /\ [bal EXCEPT !.pending = @ + d]
                 = [allocated |-> bal.allocated, carried |-> bal.carried,
                    used |-> bal.used, pending |-> bal.pending + d]
           /\ Charged(bal, "APPROVED", d)
                 = [allocated |-> bal.allocated, carried |-> bal.carried,
                    used |-> bal.used + d, pending |-> bal.pending - d]
           /\ Charged(bal, "REJECTED", d)
                 = [allocated |-> bal.allocated, carried |-> bal.carried,
                    used |-> bal.used, pending |-> bal.pending - d]
           /\ [bal EXCEPT !.pending = @ + d] \in Row
           /\ Charged(bal, "APPROVED", d) \in Row /\ Charged(bal, "REJECTED", d) \in Row
<1>1. \A a, c, u, p : [allocated |-> a, carried |-> c, used |-> u, pending |-> p] \in Row
          <=> a \in Nat /\ c \in Nat /\ u \in Nat /\ p \in Int
  BY DEF Row
<1>2. [bal EXCEPT !.pending = @ + d]
          = [allocated |-> bal.allocated, carried |-> bal.carried,
             used |-> bal.used, pending |-> bal.pending + d]
  BY DEF Row
<1>3. Charged(bal, "APPROVED", d)
          = [allocated |-> bal.allocated, carried |-> bal.carried,
             used |-> bal.used + d, pending |-> bal.pending - d]
  BY DEF Row, Charged
<1>4. Charged(bal, "REJECTED", d)
          = [allocated |-> bal.allocated, carried |-> bal.carried,
             used |-> bal.used, pending |-> bal.pending - d]
  BY DEF Row, Charged
<1>5. bal.allocated \in Nat /\ bal.carried \in Nat /\ bal.used \in Nat /\ bal.pending \in Int
  BY DEF Row
<1>6. QED
  BY <1>1, <1>2, <1>3, <1>4, <1>5

\* A row whose allowance is set anew.
LEMMA ResetRow ==
    ASSUME NEW old \in Row, NEW a \in Nat, NEW c \in Nat
    PROVE  [old EXCEPT !.allocated = a, !.carried = c]
               = [allocated |-> a, carried |-> c, used |-> old.used, pending |-> old.pending]
<1> DEFINE once == [old EXCEPT !.allocated = a]
<1>1. once = [allocated |-> a, carried |-> old.carried, used |-> old.used, pending |-> old.pending]
  BY DEF Row
<1>2. once \in Row
  BY <1>1 DEF Row
<1>3. [old EXCEPT !.allocated = a, !.carried = c] = [once EXCEPT !.carried = c]
  OBVIOUS
<1> HIDE DEF once
<1>4. [once EXCEPT !.carried = c]
          = [allocated |-> once.allocated, carried |-> c, used |-> once.used, pending |-> once.pending]
  BY <1>2 DEF Row
<1>5. once.allocated = a /\ once.used = old.used /\ once.pending = old.pending
  BY <1>1
<1>6. QED
  BY <1>3, <1>4, <1>5

\* Row put in for year y.
Put(y, bal) == balance' = [balance EXCEPT ![y] = bal]

LEMMA PutIs ==
    ASSUME LeaveTypeOK, NEW y \in Years, NEW bal \in Row, Put(y, bal)
    PROVE  /\ balance' \in [Years -> Row \cup {None}]
           /\ balance'[y] = bal /\ balance'[y] # None
           /\ \A x \in Years \ {y} : balance'[x] = balance[x]
BY LeaveAssumption DEF LeaveTypeOK, Put

\* A row that is made or set holds what it held.
Same(old, bal) == IF old = None THEN bal.used = 0 /\ bal.pending = 0
                  ELSE bal.used = old.used /\ bal.pending = old.pending

LEMMA UpsertedDoes ==
    ASSUME LeaveTypeOK, NEW y \in Years, NEW a \in Nat, NEW c \in Nat, balance' = Upserted(y, a, c)
    PROVE  \E bal \in Row : Put(y, bal) /\ Same(balance[y], bal)
<1>1. balance \in [Years -> Row \cup {None}]
  BY DEF LeaveTypeOK
<1>2. CASE balance[y] = None
  <2> DEFINE bal == [allocated |-> a, carried |-> c, used |-> 0, pending |-> 0]
  <2>1. bal \in Row /\ Same(balance[y], bal)
    BY <1>2 DEF Row, Same
  <2>2. balance' = [balance EXCEPT ![y] = bal]
    BY <1>1, <1>2 DEF Upserted
  <2>3. QED
    BY <2>1, <2>2 DEF Put
<1>3. CASE balance[y] # None
  <2> DEFINE bal == [balance[y] EXCEPT !.allocated = a, !.carried = c]
  <2>1. balance[y] \in Row
    BY <1>1, <1>3
  <2>2. bal = [allocated |-> a, carried |-> c, used |-> balance[y].used, pending |-> balance[y].pending]
    BY <2>1, ResetRow
  <2>3. bal \in Row
    <3>1. balance[y].used \in Nat /\ balance[y].pending \in Int
      BY <2>1 DEF Row
    <3> HIDE DEF bal
    <3>2. QED
      BY <2>2, <3>1 DEF Row
  <2>4. Same(balance[y], bal)
    <3> HIDE DEF bal
    <3>1. QED
      BY <1>3, <2>2 DEF Same
  <2>5. balance' = [balance EXCEPT ![y] = bal]
    BY <1>1, <1>3 DEF Upserted
  <2>6. QED
    BY <2>3, <2>4, <2>5 DEF Put
<1>4. QED
  BY <1>2, <1>3

LEMMA GotoTyped ==
    ASSUME LeaveTypeOK, NEW h \in Handlers, NEW place \in LeaveStages, Goto(h, place)
    PROVE  stage' \in [Handlers -> LeaveStages] /\ call' \in [Handlers -> LeaveCalls]
<1>1. stage \in [Handlers -> LeaveStages] /\ call \in [Handlers -> LeaveCalls]
  BY DEF LeaveTypeOK, LeaveStages, LeaveCalls
<1>2. QED
  BY <1>1, NoCallTyped DEF Goto

LEMMA StartTyped ==
    ASSUME LeaveTypeOK, NEW h \in Handlers, NEW place \in LeaveStages, NEW what \in LeaveCalls,
           Start(h, place, what)
    PROVE  stage' \in [Handlers -> LeaveStages] /\ call' \in [Handlers -> LeaveCalls]
<1>1. stage \in [Handlers -> LeaveStages] /\ call \in [Handlers -> LeaveCalls]
  BY DEF LeaveTypeOK, LeaveStages, LeaveCalls
<1>2. QED
  BY <1>1 DEF Start

(* The five ways a call begins: where it stands and what it holds.            *)
LEMMA Begun ==
    ASSUME LeaveTypeOK, NEW h \in Handlers,
           \/ \E y \in Years : Allocate(h, y)
           \/ \E from, to \in Years : from < to /\ CarryForward(h, from, to)
           \/ \E r \in Requests : Decide(h, r) \/ \E y \in Years : Ask(h, r, y)
    PROVE  \E place \in LeaveStages, what \in LeaveCalls :
               /\ Start(h, place, what)
               /\ \/ place = "set" /\ named' = named
                  \/ place = "decided" /\ chain[what.request] = "open" /\ named' = named
                  \/ /\ named[what.request] = 0
                     /\ named' = [named EXCEPT ![what.request] = what.year]
                     /\ what.to = "APPROVED"
                     /\ \/ place = "ensure"
                        \/ /\ place = "reserve" /\ balance[what.year] # None
                           /\ Days[what.request] <= Available(balance[what.year])
<1>1. ASSUME NEW y \in Years, Allocate(h, y)
      PROVE  \E what \in LeaveCalls : Start(h, "set", what) /\ named' = named
  <2> DEFINE bal == balance[y]
  <2>1. PICK a \in Grants \cup {IF bal = None THEN 0 ELSE bal.allocated},
             c \in Carries \cup {IF bal = None THEN 0 ELSE bal.carried} :
                /\ Start(h, "set", [NoCall EXCEPT !.year = y, !.allocated = a, !.carried = c])
                /\ UNCHANGED named
    BY <1>1 DEF Allocate
  <2>2. a \in Nat /\ c \in Nat
    BY LeaveAssumption DEF LeaveTypeOK, Row
  <2>3. [NoCall EXCEPT !.year = y, !.allocated = a, !.carried = c] \in LeaveCalls
    BY <2>2, NoCallTyped DEF LeaveCalls
  <2>4. QED
    BY <2>1, <2>3
<1>2. ASSUME NEW from \in Years, NEW to \in Years, CarryForward(h, from, to)
      PROVE  \E what \in LeaveCalls : Start(h, "set", what) /\ named' = named
  <2> DEFINE carry == Min({Available(balance[from]), CarryLimit})
  <2>1. /\ balance[from] # None /\ carry > 0
        /\ Start(h, "set", [NoCall EXCEPT !.year = to, !.allocated = Annual, !.carried = carry])
        /\ UNCHANGED named
    BY <1>2 DEF CarryForward
  <2>2. Available(balance[from]) \in Int
    BY <2>1, AvailableInt DEF LeaveTypeOK
  <2>3. carry \in Nat /\ Annual \in Nat
    BY <2>1, <2>2, LesserNat, LeaveAssumption
  <2> HIDE DEF carry
  <2>4. [NoCall EXCEPT !.year = to, !.allocated = Annual, !.carried = carry] \in LeaveCalls
    BY <2>3, NoCallTyped DEF LeaveCalls
  <2>5. QED
    BY <2>1, <2>4
<1>3. ASSUME NEW r \in Requests, Decide(h, r)
      PROVE  \E what \in LeaveCalls :
                 Start(h, "decided", what) /\ chain[what.request] = "open" /\ named' = named
  <2>1. PICK verdict \in {"APPROVED", "REJECTED"} :
           Start(h, "decided", [NoCall EXCEPT !.request = r, !.to = verdict])
    BY <1>3 DEF Decide
  <2>2. [NoCall EXCEPT !.request = r, !.to = verdict] \in LeaveCalls
         /\ [NoCall EXCEPT !.request = r, !.to = verdict].request = r
    BY NoCallTyped DEF LeaveCalls
  <2>3. QED
    BY <1>3, <2>1, <2>2 DEF Decide
<1>4. ASSUME NEW r \in Requests, NEW y \in Years, Ask(h, r, y)
      PROVE  \E place \in LeaveStages, what \in LeaveCalls :
               /\ Start(h, place, what)
               /\ named[what.request] = 0
               /\ named' = [named EXCEPT ![what.request] = what.year]
               /\ what.to = "APPROVED"
               /\ \/ place = "ensure"
                  \/ /\ place = "reserve" /\ balance[what.year] # None
                     /\ Days[what.request] <= Available(balance[what.year])
  <2> DEFINE what == [NoCall EXCEPT !.request = r, !.year = y]
             place == IF balance[y] = None THEN "ensure" ELSE "reserve"
  <2>1. /\ named[r] = 0 /\ named' = [named EXCEPT ![r] = y]
        /\ balance[y] # None => Days[r] <= Available(balance[y])
        /\ Start(h, place, what)
    BY <1>4 DEF Ask, AfterCheck
  <2>2. what \in LeaveCalls /\ what.request = r /\ what.year = y /\ what.to = "APPROVED"
    BY NoCallTyped DEF LeaveCalls, NoCall
  <2>3. place \in LeaveStages
    BY DEF LeaveStages
  <2> HIDE DEF what
  <2>4. QED
    BY <2>1, <2>2, <2>3
<1>5. QED
  BY <1>1, <1>2, <1>3, <1>4, Zenon DEF LeaveStages

\* A call that has found or made a row of its year still has it.
RowsThere ==
    \A h \in Handlers : stage[h] \in {"reserve", "create"} => balance[call[h].year] # None

LEMMA LeaveTypesInit == LeaveInit => LeaveTypeOK /\ RowsThere
BY NoCallTyped, LeaveAssumption DEF LeaveInit, RowsThere, LeaveTypeOK, LeaveCalls

\* What the statements that touch a balance do to it.
LEMMA SetDoes ==
    ASSUME LeaveTypeOK, NEW h \in Handlers, SetBalance(h)
    PROVE  \E bal \in Row : Put(call[h].year, bal) /\ Same(balance[call[h].year], bal)
<1>1. call[h].year \in Years /\ call[h].allocated \in Nat /\ call[h].carried \in Nat
  BY DEF LeaveTypeOK
<1>2. balance' = Upserted(call[h].year, call[h].allocated, call[h].carried)
  BY DEF SetBalance
<1>3. QED
  BY <1>1, <1>2, UpsertedDoes

LEMMA EnsureDoes ==
    ASSUME LeaveTypeOK, NEW h \in Handlers, Ensure(h)
    PROVE  \E bal \in Row :
               /\ Put(call[h].year, bal) /\ Same(balance[call[h].year], bal)
               /\ \/ Goto(h, "idle")
                  \/ Goto(h, "reserve") /\ Days[call[h].request] <= Available(bal)
<1> DEFINE y == call[h].year
<1>1. y \in Years /\ Annual \in Nat /\ 0 \in Nat
  BY LeaveAssumption DEF LeaveTypeOK
<1>2. balance' = Upserted(y, Annual, 0)
  BY DEF Ensure
<1>3. PICK bal \in Row : Put(y, bal) /\ Same(balance[y], bal)
  BY <1>1, <1>2, UpsertedDoes
<1>4. Upserted(y, Annual, 0)[y] = bal
  BY <1>1, <1>2, <1>3, PutIs
<1>5. Goto(h, IF Days[call[h].request] <= Available(Upserted(y, Annual, 0)[y]) THEN "reserve" ELSE "idle")
  BY DEF Ensure, AfterCheck
<1>6. QED
  BY <1>3, <1>4, <1>5

LEMMA ReserveDoes ==
    ASSUME LeaveTypeOK, RowsThere, NEW h \in Handlers, Reserve(h)
    PROVE  \E bal \in Row :
               LET old == balance[call[h].year] IN
               /\ Put(call[h].year, bal) /\ old \in Row
               /\ bal.used = old.used /\ bal.pending = old.pending + Days[call[h].request]
               /\ bal.allocated = old.allocated /\ bal.carried = old.carried
<1> DEFINE y == call[h].year
           old == balance[y]
           bal == [old EXCEPT !.pending = @ + Days[call[h].request]]
<1>1. y \in Years /\ Days[call[h].request] \in Nat
  BY DaysNat DEF LeaveTypeOK
<1>2. old \in Row
  BY <1>1 DEF LeaveTypeOK, RowsThere, Reserve, At
<1>3. balance' = [balance EXCEPT ![y] = bal]
  BY DEF Reserve
<1>4. bal = [allocated |-> old.allocated, carried |-> old.carried,
             used |-> old.used, pending |-> old.pending + Days[call[h].request]]
      /\ bal \in Row
  BY <1>1, <1>2, MovedRow
<1> HIDE DEF bal
<1>5. Put(y, bal)
  BY <1>3 DEF Put
<1>6. /\ bal.used = old.used /\ bal.pending = old.pending + Days[call[h].request]
      /\ bal.allocated = old.allocated /\ bal.carried = old.carried
  BY <1>4
<1>7. QED
  BY <1>2, <1>4, <1>5, <1>6

LEMMA ChargeDoes ==
    ASSUME LeaveTypeOK, NEW h \in Handlers, Charge(h)
    PROVE  LET y == startYear[call[h].request] IN
           \/ y = 0 /\ balance' = balance /\ Goto(h, "idle")
           \/ y \in Years /\ balance[y] = None /\ balance' = balance /\ Goto(h, "mark")
           \/ /\ y \in Years /\ balance[y] \in Row /\ Goto(h, "mark")
              /\ \E bal \in Row :
                     /\ Put(y, bal)
                     /\ bal.pending = balance[y].pending - Days[call[h].request]
                     /\ call[h].to = "APPROVED" => bal.used = balance[y].used + Days[call[h].request]
                     /\ call[h].to = "REJECTED" => bal.used = balance[y].used
<1> DEFINE r == call[h].request
           y == startYear[r]
           bal == Charged(balance[y], call[h].to, Days[r])
<1>1. r \in Requests /\ y \in Years \cup {0} /\ call[h].to \in {"APPROVED", "REJECTED"} /\ Days[r] \in Nat
  BY LeaveAssumption, DaysNat DEF LeaveTypeOK
<1>2. /\ IF y = 0 \/ balance[y] = None THEN balance' = balance
         ELSE balance' = [balance EXCEPT ![y] = bal]
      /\ Goto(h, IF y = 0 THEN "idle" ELSE "mark")
  BY DEF Charge
<1>3. CASE y = 0
  BY <1>2, <1>3
<1>4. CASE y # 0 /\ balance[y] = None
  BY <1>1, <1>2, <1>4
<1>5. CASE y # 0 /\ balance[y] # None
  <2>1. y \in Years /\ balance[y] \in Row
    BY <1>1, <1>5 DEF LeaveTypeOK
  <2>2. /\ bal \in Row
        /\ bal.pending = balance[y].pending - Days[r]
        /\ call[h].to = "APPROVED" => bal.used = balance[y].used + Days[r]
        /\ call[h].to = "REJECTED" => bal.used = balance[y].used
    <3>1. CASE call[h].to = "APPROVED"
      <4>1. bal = Charged(balance[y], "APPROVED", Days[r])
        BY <3>1
      <4> HIDE DEF bal
      <4>2. bal \in Row /\ bal = [allocated |-> balance[y].allocated, carried |-> balance[y].carried,
                                  used |-> balance[y].used + Days[r], pending |-> balance[y].pending - Days[r]]
        BY <1>1, <2>1, <4>1, MovedRow
      <4>3. QED
        BY <3>1, <4>2
    <3>2. CASE call[h].to = "REJECTED"
      <4>1. bal = Charged(balance[y], "REJECTED", Days[r])
        BY <3>2
      <4> HIDE DEF bal
      <4>2. bal \in Row /\ bal = [allocated |-> balance[y].allocated, carried |-> balance[y].carried,
                                  used |-> balance[y].used, pending |-> balance[y].pending - Days[r]]
        BY <1>1, <2>1, <4>1, MovedRow
      <4>3. QED
        BY <3>2, <4>2
    <3>3. QED
      BY <1>1, <3>1, <3>2
  <2> HIDE DEF bal
  <2>3. Put(y, bal) /\ Goto(h, "mark")
    BY <1>2, <1>5 DEF Put
  <2>4. QED
    BY <2>1, <2>2, <2>3
<1>6. QED
  BY <1>3, <1>4, <1>5

\* The rows and the requests a statement of a call leaves behind; rows do not vanish.
LEMMA RowsTyped ==
    ASSUME LeaveTypeOK, RowsThere, NEW h \in Handlers, Step(h)
    PROVE  /\ balance' \in [Years -> Row \cup {None}]
           /\ \A y \in Years : balance[y] # None => balance'[y] # None
           /\ request' \in [Requests -> {"none", "PENDING", "APPROVED", "REJECTED"}]
           /\ chain' \in [Requests -> {"none", "open", "APPROVED", "REJECTED"}]
           /\ ended' \in [Requests -> Nat]
           /\ UNCHANGED <<fixed, named, stranded>>
           /\ \E place \in LeaveStages : Goto(h, place)
<1> DEFINE r == call[h].request
           z == call[h].year
<1>1. r \in Requests /\ z \in Years /\ call[h].to \in {"APPROVED", "REJECTED"}
  BY DEF LeaveTypeOK
<1>2. ASSUME \/ balance' = balance
             \/ \E y \in Years, bal \in Row : Put(y, bal)
      PROVE  /\ balance' \in [Years -> Row \cup {None}]
             /\ \A y \in Years : balance[y] # None => balance'[y] # None
  <2>1. CASE balance' = balance
    BY <2>1 DEF LeaveTypeOK
  <2>2. ASSUME NEW y \in Years, NEW bal \in Row, Put(y, bal)
        PROVE  /\ balance' \in [Years -> Row \cup {None}]
               /\ \A x \in Years : balance[x] # None => balance'[x] # None
    <3>1. /\ balance' \in [Years -> Row \cup {None}] /\ balance'[y] # None
          /\ \A x \in Years \ {y} : balance'[x] = balance[x]
      BY <2>2, PutIs
    <3>2. QED
      BY <3>1
  <2>3. QED
    BY <1>2, <2>1, <2>2
<1>3. \/ balance' = balance
      \/ \E y \in Years, bal \in Row : Put(y, bal)
  <2>1. CASE SetBalance(h)
    BY <1>1, <2>1, SetDoes
  <2>2. CASE Ensure(h)
    BY <1>1, <2>2, EnsureDoes
  <2>3. CASE Reserve(h)
    BY <1>1, <2>3, ReserveDoes
  <2>4. CASE Charge(h)
    BY <2>4, ChargeDoes
  <2>5. QED
    BY <2>1, <2>2, <2>3, <2>4 DEF Step, CreateWithWorkflow, CreateApproved, EndChain, Load, Mark, rows
<1>4. /\ request' \in [Requests -> {"none", "PENDING", "APPROVED", "REJECTED"}]
      /\ chain' \in [Requests -> {"none", "open", "APPROVED", "REJECTED"}]
      /\ ended' \in [Requests -> Nat]
  BY <1>1 DEF LeaveTypeOK, Step, SetBalance, Ensure, Reserve, CreateWithWorkflow, CreateApproved,
              EndChain, Load, Charge, Mark, rows, flows
<1>5. UNCHANGED <<fixed, named, stranded>>
  BY DEF Step, SetBalance, Ensure, Reserve, CreateWithWorkflow, CreateApproved, EndChain, Load,
         Charge, Mark, rows, flows
<1>6. \E place \in LeaveStages : Goto(h, place)
  BY DEF Step, SetBalance, Ensure, Reserve, CreateWithWorkflow, CreateApproved, EndChain, Load,
         Charge, Mark, LeaveStages, AfterCheck
<1>7. QED
  BY <1>2, <1>3, <1>4, <1>5, <1>6

\* A call that ends in the middle: it dies, or its workflow is not started.
GivesUp(h) == NoWorkflow(h) \/ Die(h)

LEMMA LeaveTypesStep == LeaveTypeOK /\ RowsThere /\ [LeaveNext]_leaveVars => (LeaveTypeOK /\ RowsThere)'
<1>1. SUFFICES ASSUME LeaveTypeOK, RowsThere, [LeaveNext]_leaveVars
               PROVE  (LeaveTypeOK /\ RowsThere)'
  OBVIOUS
<1>2. ASSUME NEW h \in Handlers, Step(h)
      PROVE  (LeaveTypeOK /\ RowsThere)'
  <2>1. PICK place \in LeaveStages : Goto(h, place)
    BY <1>1, <1>2, RowsTyped
  <2>2. stage' \in [Handlers -> LeaveStages] /\ call' \in [Handlers -> LeaveCalls]
    BY <1>1, <2>1, GotoTyped
  <2>3. LeaveTypeOK'
    <3>1. LeaveTypeOK' <=>
             /\ mode' \in {"serial", "overlap"} /\ startYear' \in StartYears
             /\ balance' \in [Years -> Row \cup {None}]
             /\ request' \in [Requests -> {"none", "PENDING", "APPROVED", "REJECTED"}]
             /\ named' \in [Requests -> Years \cup {0}]
             /\ chain' \in [Requests -> {"none", "open", "APPROVED", "REJECTED"}]
             /\ ended' \in [Requests -> Nat] /\ stranded' \subseteq Requests
             /\ stage' \in [Handlers -> LeaveStages] /\ call' \in [Handlers -> LeaveCalls]
      BY DEF LeaveTypeOK, LeaveStages, LeaveCalls
    <3>2. UNCHANGED <<mode, startYear, named, stranded>>
      BY <1>1, <1>2, RowsTyped DEF fixed
    <3>3. QED
      BY <1>1, <1>2, <2>2, <3>1, <3>2, RowsTyped DEF LeaveTypeOK
  <2>4. \A g \in Handlers : stage[g] \in {"reserve", "create"} => balance'[call[g].year] # None
    BY <1>1, <1>2, RowsTyped DEF RowsThere, LeaveTypeOK
  <2>5. \A g \in Handlers \ {h} : stage'[g] = stage[g] /\ call'[g] = call[g]
    BY <1>1, <2>1 DEF Goto, LeaveTypeOK
  <2>6. stage'[h] \in {"reserve", "create"} => balance'[call'[h].year] # None
    <3>1. stage'[h] = place /\ (place # "idle" => call'[h] = call[h])
      BY <1>1, <2>1 DEF Goto, LeaveTypeOK
    <3>2. stage'[h] = "reserve" => Ensure(h)
      BY <1>1, <1>2 DEF Step, SetBalance, Reserve, CreateWithWorkflow, CreateApproved, EndChain, Load,
                        Charge, Mark, Goto, LeaveTypeOK
    <3>3. Ensure(h) => balance'[call[h].year] # None
      <4>1. call[h].year \in Years
        BY <1>1 DEF LeaveTypeOK
      <4>2. QED
        BY <1>1, <4>1, EnsureDoes, PutIs
    <3>4. stage'[h] = "create" => stage[h] = "reserve"
      BY <1>1, <1>2 DEF Step, SetBalance, Ensure, Reserve, CreateWithWorkflow, CreateApproved, EndChain,
                        Load, Charge, Mark, Goto, LeaveTypeOK, At, AfterCheck
    <3>5. QED
      BY <2>4, <3>1, <3>2, <3>3, <3>4
  <2>7. RowsThere'
    BY <2>4, <2>5, <2>6 DEF RowsThere
  <2>8. QED
    BY <2>3, <2>7
<1>3. ASSUME NEW h \in Handlers, GivesUp(h)
      PROVE  (LeaveTypeOK /\ RowsThere)'
  <2>1. /\ Goto(h, "idle") /\ UNCHANGED <<fixed, rows, named, chain, ended>>
        /\ stranded' \subseteq Requests
    BY <1>1, <1>3 DEF GivesUp, Die, NoWorkflow, flows, LeaveTypeOK
  <2>2. stage' \in [Handlers -> LeaveStages] /\ call' \in [Handlers -> LeaveCalls]
    BY <1>1, <2>1, GotoTyped DEF LeaveStages
  <2>3. LeaveTypeOK'
    BY <1>1, <2>1, <2>2 DEF LeaveTypeOK, LeaveStages, LeaveCalls, fixed, rows
  <2>4. RowsThere'
    BY <1>1, <2>1 DEF RowsThere, LeaveTypeOK, Goto, rows
  <2>5. QED
    BY <2>3, <2>4
<1>4. ASSUME NEW h \in Handlers,
             \/ \E y \in Years : Allocate(h, y)
             \/ \E from, to \in Years : from < to /\ CarryForward(h, from, to)
             \/ \E r \in Requests : Decide(h, r) \/ \E y \in Years : Ask(h, r, y)
      PROVE  (LeaveTypeOK /\ RowsThere)'
  <2>1. PICK place \in LeaveStages, what \in LeaveCalls :
               /\ Start(h, place, what)
               /\ \/ place \in {"set", "decided"} /\ named' = named
                  \/ /\ named' = [named EXCEPT ![what.request] = what.year]
                     /\ place = "ensure" \/ (place = "reserve" /\ balance[what.year] # None)
    BY <1>1, <1>4, Begun
  <2>2. stage' \in [Handlers -> LeaveStages] /\ call' \in [Handlers -> LeaveCalls]
    BY <1>1, <2>1, StartTyped
  <2>3. named' \in [Requests -> Years \cup {0}]
    BY <1>1, <2>1 DEF LeaveTypeOK, LeaveCalls
  <2>4. UNCHANGED <<fixed, rows, chain, ended, stranded>>
    BY <2>1 DEF Start
  <2>5. LeaveTypeOK'
    BY <1>1, <2>2, <2>3, <2>4 DEF LeaveTypeOK, LeaveStages, LeaveCalls, fixed, rows
  <2>6. RowsThere'
    BY <1>1, <2>1, <2>4 DEF RowsThere, LeaveTypeOK, Start, rows
  <2>7. QED
    BY <2>5, <2>6
<1>5. CASE UNCHANGED leaveVars
  BY <1>1, <1>5 DEF leaveVars, fixed, rows, flows, LeaveTypeOK, RowsThere
<1>6. QED
  BY <1>1, <1>2, <1>3, <1>4, <1>5 DEF LeaveNext, GivesUp

LEMMA LeaveTypesAlways == LeaveSpec => [](LeaveTypeOK /\ RowsThere)
BY LeaveTypesInit, LeaveTypesStep, PTL DEF LeaveSpec

\* However calls overlap and die, rows, requests and calls keep their types: a row is never
\* drawn on before it is there.
THEOREM LeaveTyped == LeaveSpec => []LeaveTypeOK
BY LeaveTypesAlways, PTL

-----------------------------------------------------------------------------
(* Leave is held: the days that are put aside for a request *)

\* A call that makes a request, or acts on its decision, knows what it works on.
Followed ==
    /\ \A h \in Handlers :
          /\ stage[h] \in {"ensure", "reserve", "create"} =>
                /\ named[call[h].request] = call[h].year
                /\ call[h].to = "APPROVED"
                /\ request[call[h].request] = "none"
                /\ call[h].request \notin stranded
          /\ stage[h] \in {"decided", "load", "charge", "mark"} => request[call[h].request] # "none"
    /\ \A g, h \in Handlers :
          /\ stage[g] \in {"ensure", "reserve", "create"} /\ stage[h] \in {"ensure", "reserve", "create"}
          /\ call[g].request = call[h].request
          => g = h
    /\ \A r \in Requests : /\ request[r] # "none" => named[r] # 0
                           /\ chain[r] # "none" => request[r] # "none"
                           /\ r \in stranded => request[r] = "none" /\ named[r] # 0

DecidedOnceEach == \A r \in Requests : ended[r] <= 1

\* Call h refuses r and has yet to give its days back.
Refusing(h, r) ==
    /\ call[h].request = r /\ call[h].to = "REJECTED"
    /\ stage[h] = "charge" \/ (stage[h] = "load" /\ request[r] = "PENDING")

\* With one decision a refusal is what the chain says, and one call acts on it.
RefusedOnce ==
    /\ \A h \in Handlers :
          stage[h] \in {"load", "charge", "mark"} /\ call[h].to = "REJECTED" =>
              chain[call[h].request] = "REJECTED"
    /\ \A r \in Requests : /\ chain[r] = "REJECTED" => ended[r] # 0
                           /\ request[r] = "REJECTED" => chain[r] = "REJECTED"
    /\ \A g, h \in Handlers :
          /\ stage[g] \in {"load", "charge"} /\ stage[h] \in {"load", "charge"}
          /\ call[g].to = "REJECTED" /\ call[h].to = "REJECTED"
          /\ call[g].request = call[h].request
          => g = h

\* The requests of year y whose days the balance has to hold.
Holding(r) ==
    \/ request[r] \in {"PENDING", "APPROVED"} /\ chain[r] # "REJECTED"
    \/ \E h \in Handlers : (stage[h] = "create" /\ call[h].request = r) \/ Refusing(h, r)

Held(y) == {r \in Requests : startYear[r] = y /\ Holding(r)}

Covers(y) ==
    IF balance[y] = None THEN Held(y) = {}
    ELSE Total(Held(y)) <= balance[y].used + balance[y].pending

LeaveHolds ==
    /\ Followed
    /\ DecidedOnceEach => RefusedOnce /\ \A y \in Years : NamedRightly(y) => Covers(y)

\* Where a statement leads, and what it does to requests and chains.
LEMMA StepDoes ==
    ASSUME LeaveTypeOK, RowsThere, NEW h \in Handlers, Step(h)
    PROVE  LET r == call[h].request IN
           /\ \A g \in Handlers \ {h} : stage'[g] = stage[g] /\ call'[g] = call[g]
           /\ stage'[h] # "idle" => call'[h] = call[h]
           /\ mode' = mode /\ startYear' = startYear /\ named' = named /\ stranded' = stranded
           /\ \/ /\ UNCHANGED <<request, chain, ended>>
                 /\ \/ stage[h] = "set" /\ stage'[h] = "idle"
                    \/ stage[h] = "ensure" /\ stage'[h] \in {"idle", "reserve"}
                    \/ stage[h] = "reserve" /\ stage'[h] = "create"
                    \/ stage[h] = "load" /\ stage'[h] = IF request[r] = "PENDING" THEN "charge" ELSE "idle"
                    \/ stage[h] = "charge" /\ stage'[h] = IF startYear[r] = 0 THEN "idle" ELSE "mark"
              \/ /\ stage[h] = "create" /\ stage'[h] = "idle"
                 /\ request' = [request EXCEPT ![r] = "PENDING"]
                 /\ chain' = [chain EXCEPT ![r] = "open"] /\ ended' = ended
              \/ /\ stage[h] = "create" /\ stage'[h] = "charge"
                 /\ request' = [request EXCEPT ![r] = "APPROVED"]
                 /\ UNCHANGED <<chain, ended>>
              \/ /\ stage[h] = "decided" /\ stage'[h] = "load"
                 /\ request' = request
                 /\ chain' = [chain EXCEPT ![r] = call[h].to] /\ ended' = [ended EXCEPT ![r] = @ + 1]
              \/ /\ stage[h] = "mark" /\ stage'[h] = "idle"
                 /\ request' = [request EXCEPT ![r] = call[h].to]
                 /\ UNCHANGED <<chain, ended>>
<1>1. \A place : Goto(h, place) =>
          /\ stage'[h] = place
          /\ \A g \in Handlers \ {h} : stage'[g] = stage[g] /\ call'[g] = call[g]
          /\ place # "idle" => call'[h] = call[h]
  BY DEF LeaveTypeOK, Goto
<1>2. \A g \in Handlers \ {h} : stage'[g] = stage[g] /\ call'[g] = call[g]
  BY <1>1, RowsTyped
<1>3. stage'[h] # "idle" => call'[h] = call[h]
  BY <1>1, RowsTyped
<1>4. mode' = mode /\ startYear' = startYear /\ named' = named /\ stranded' = stranded
  BY RowsTyped DEF fixed
<1>5. CASE SetBalance(h)
  BY <1>1, <1>2, <1>3, <1>4, <1>5 DEF SetBalance, At, flows
<1>6. CASE Ensure(h)
  BY <1>1, <1>2, <1>3, <1>4, <1>6 DEF Ensure, At, flows, AfterCheck
<1>7. CASE Reserve(h)
  BY <1>1, <1>2, <1>3, <1>4, <1>7 DEF Reserve, At, flows
<1>8. CASE CreateWithWorkflow(h)
  BY <1>1, <1>2, <1>3, <1>4, <1>8 DEF CreateWithWorkflow, At
<1>9. CASE CreateApproved(h)
  BY <1>1, <1>2, <1>3, <1>4, <1>9 DEF CreateApproved, At, flows
<1>10. CASE EndChain(h)
  BY <1>1, <1>2, <1>3, <1>4, <1>10 DEF EndChain, At, rows
<1>11. CASE Load(h)
  BY <1>1, <1>2, <1>3, <1>4, <1>11 DEF Load, At, rows, flows
<1>12. CASE Charge(h)
  BY <1>1, <1>2, <1>3, <1>4, <1>12 DEF Charge, At, flows
<1>13. CASE Mark(h)
  BY <1>1, <1>2, <1>3, <1>4, <1>13 DEF Mark, At, flows
<1>14. QED
  BY <1>5, <1>6, <1>7, <1>8, <1>9, <1>10, <1>11, <1>12, <1>13 DEF Step

LEMMA GivesUpDoes ==
    ASSUME LeaveTypeOK, NEW h \in Handlers, GivesUp(h)
    PROVE  /\ \A g \in Handlers \ {h} : stage'[g] = stage[g] /\ call'[g] = call[g]
           /\ stage'[h] = "idle"
           /\ UNCHANGED <<mode, startYear, balance, request, named, chain, ended>>
           /\ \/ mode = "overlap" /\ stranded' = stranded
              \/ stage[h] = "create" /\ stranded' = stranded \cup {call[h].request}
<1>1. Goto(h, "idle") => /\ \A g \in Handlers \ {h} : stage'[g] = stage[g] /\ call'[g] = call[g]
                         /\ stage'[h] = "idle"
  BY DEF Goto, LeaveTypeOK
<1>2. CASE Die(h)
  BY <1>1, <1>2 DEF Die, fixed, rows, flows
<1>3. CASE NoWorkflow(h)
  BY <1>1, <1>3 DEF NoWorkflow, At, fixed, rows
<1>4. QED
  BY <1>2, <1>3 DEF GivesUp

\* A call that begins.
LEMMA StartDoes ==
    ASSUME LeaveTypeOK, NEW h \in Handlers, NEW place, NEW what, Start(h, place, what)
    PROVE  /\ \A g \in Handlers \ {h} : stage'[g] = stage[g] /\ call'[g] = call[g]
           /\ stage[h] = "idle" /\ stage'[h] = place /\ call'[h] = what
           /\ UNCHANGED <<mode, startYear, balance, request, chain, ended, stranded>>
BY DEF Start, LeaveTypeOK, fixed, rows, At

LEMMA FollowedInit == LeaveInit => Followed
BY NoCallTyped DEF LeaveInit, Followed

LEMMA FollowedStep ==
    ASSUME LeaveTypeOK, RowsThere, Followed, [LeaveNext]_leaveVars
    PROVE  Followed'
<1>0. /\ call \in [Handlers -> LeaveCalls] /\ named \in [Requests -> Years \cup {0}]
      /\ 0 \notin Years
  BY DEF LeaveTypeOK, LeaveCalls, Years
<1>1. ASSUME NEW h \in Handlers, Step(h)
      PROVE  Followed'
  <2> DEFINE r == call[h].request
  <2>1. r \in Requests /\ call[h].to \in {"APPROVED", "REJECTED"}
    BY <1>0 DEF LeaveCalls
  <2>2. \A q \in Requests : /\ request[q] # "none" => request'[q] # "none"
                            /\ request'[q] # "none" => request[q] # "none" \/ (q = r /\ stage[h] = "create")
                            /\ chain'[q] # "none" => chain[q] # "none" \/ request'[q] # "none"
    BY <1>1, <2>1, StepDoes DEF LeaveTypeOK, Followed
  <2>3. \A g \in Handlers :
          /\ stage'[g] \in {"ensure", "reserve", "create"} =>
                 stage[g] \in {"ensure", "reserve", "create"} /\ call'[g] = call[g]
                 /\ request'[call[g].request] = request[call[g].request]
    <3>1. SUFFICES ASSUME NEW g \in Handlers, stage'[g] \in {"ensure", "reserve", "create"}
                   PROVE  /\ stage[g] \in {"ensure", "reserve", "create"} /\ call'[g] = call[g]
                          /\ request'[call[g].request] = request[call[g].request]
      OBVIOUS
    <3>2. stage[g] \in {"ensure", "reserve", "create"} /\ call'[g] = call[g]
      BY <1>1, <3>1, StepDoes
    <3>3. call[g].request \in Requests /\ request[call[g].request] = "none"
      BY <1>0, <3>2 DEF Followed, LeaveCalls
    <3>4. request'[call[g].request] # "none" => stage[h] = "create" /\ call[g].request = r
      BY <2>2, <3>3
    <3>5. stage[h] = "create" /\ call[g].request = r => g = h
      BY <3>2 DEF Followed
    <3>6. stage[h] = "create" => stage'[h] \notin {"ensure", "reserve", "create"}
      BY <1>1, StepDoes
    <3>7. QED
      BY <3>1, <3>2, <3>3, <3>4, <3>5, <3>6
  <2>4. \A g \in Handlers : stage'[g] \in {"decided", "load", "charge", "mark"} =>
                                call'[g] = call[g] /\ request'[call[g].request] # "none"
    <3>1. SUFFICES ASSUME NEW g \in Handlers, stage'[g] \in {"decided", "load", "charge", "mark"}
                   PROVE  call'[g] = call[g] /\ request'[call[g].request] # "none"
      OBVIOUS
    <3>2. call[g].request \in Requests
      BY <1>0 DEF LeaveCalls
    <3>3. CASE stage[g] \in {"decided", "load", "charge", "mark"}
      <4>1. call'[g] = call[g]
        BY <1>1, <3>1, StepDoes
      <4>2. request[call[g].request] # "none"
        BY <3>3 DEF Followed
      <4>3. QED
        BY <2>2, <3>2, <4>1, <4>2
    <3>4. CASE stage[g] \notin {"decided", "load", "charge", "mark"}
      <4>1. g = h /\ stage[h] = "create" /\ stage'[h] = "charge"
            /\ request' = [request EXCEPT ![r] = "APPROVED"] /\ call'[g] = call[g]
        BY <1>1, <3>1, <3>4, StepDoes
      <4>2. QED
        BY <2>1, <4>1 DEF LeaveTypeOK
    <3>5. QED
      BY <3>3, <3>4
  <2>5. named' = named /\ stranded' = stranded
    BY <1>1, StepDoes
  <2>6. \A q \in Requests : request'[q] # "none" => named[q] # 0
    <3>1. stage[h] = "create" => named[r] # 0
      BY <1>0 DEF Followed, LeaveCalls
    <3>2. QED
      BY <2>2, <3>1 DEF Followed
  <2>7. \A q \in Requests : chain'[q] # "none" => request'[q] # "none"
    BY <2>2 DEF Followed
  <2>8. \A q \in Requests : q \in stranded => request'[q] = "none" /\ named[q] # 0
    BY <2>2 DEF Followed
  <2>9. QED
    BY <2>3, <2>4, <2>5, <2>6, <2>7, <2>8 DEF Followed
<1>2. ASSUME NEW h \in Handlers, GivesUp(h)
      PROVE  Followed'
  <2>1. /\ \A g \in Handlers : stage'[g] # "idle" => g # h /\ stage'[g] = stage[g] /\ call'[g] = call[g]
        /\ UNCHANGED <<request, named, chain>>
    BY <1>2, GivesUpDoes
  <2>2. \/ stranded' = stranded
        \/ stage[h] = "create" /\ stranded' = stranded \cup {call[h].request}
    BY <1>2, GivesUpDoes
  <2>3. stage[h] = "create" => /\ named[call[h].request] # 0 /\ request[call[h].request] = "none"
    BY <1>0 DEF Followed, LeaveCalls
  <2>4. \A q \in Requests : q \in stranded' => request[q] = "none" /\ named[q] # 0
    BY <2>2, <2>3 DEF Followed
  <2>5. \A g \in Handlers : stage'[g] \in {"ensure", "reserve", "create"} => call[g].request \notin stranded'
    BY <2>1, <2>2 DEF Followed
  <2>6. QED
    BY <2>1, <2>4, <2>5 DEF Followed
<1>3. ASSUME NEW h \in Handlers,
             \/ \E y \in Years : Allocate(h, y)
             \/ \E from, to \in Years : from < to /\ CarryForward(h, from, to)
             \/ \E r \in Requests : Decide(h, r) \/ \E y \in Years : Ask(h, r, y)
      PROVE  Followed'
  <2>1. PICK place \in LeaveStages, what \in LeaveCalls :
               /\ Start(h, place, what)
               /\ \/ place = "set" /\ named' = named
                  \/ place = "decided" /\ chain[what.request] = "open" /\ named' = named
                  \/ /\ named[what.request] = 0
                     /\ named' = [named EXCEPT ![what.request] = what.year]
                     /\ what.to = "APPROVED"
                     /\ \/ place = "ensure"
                        \/ /\ place = "reserve" /\ balance[what.year] # None
                           /\ Days[what.request] <= Available(balance[what.year])
    BY <1>3, Begun
  <2>2. /\ \A g \in Handlers \ {h} : stage'[g] = stage[g] /\ call'[g] = call[g]
        /\ stage[h] = "idle" /\ stage'[h] = place /\ call'[h] = what
        /\ UNCHANGED <<request, chain, stranded>>
    BY <2>1, StartDoes
  <2>3. what.request \in Requests /\ what.year \in Years
    BY DEF LeaveCalls
  <2>4. CASE place = "set" /\ named' = named
    BY <2>2, <2>4 DEF Followed
  <2>5. CASE place = "decided" /\ chain[what.request] = "open" /\ named' = named
    BY <2>2, <2>3, <2>5 DEF Followed
  <2>6. CASE /\ named[what.request] = 0
             /\ named' = [named EXCEPT ![what.request] = what.year]
             /\ what.to = "APPROVED"
             /\ place \in {"ensure", "reserve"}
    <3>1. request[what.request] = "none"
      BY <2>3, <2>6 DEF Followed
    <3>2. \A g \in Handlers : stage[g] \in {"ensure", "reserve", "create"} =>
             /\ call[g].request # what.request
             /\ named'[call[g].request] = named[call[g].request]
      <4>1. SUFFICES ASSUME NEW g \in Handlers, stage[g] \in {"ensure", "reserve", "create"}
                     PROVE  /\ call[g].request # what.request
                            /\ named'[call[g].request] = named[call[g].request]
        OBVIOUS
      <4>2. call[g].request \in Requests /\ call[g].year \in Years
        BY <1>0 DEF LeaveCalls
      <4>3. named[call[g].request] # 0
        BY <1>0, <4>1, <4>2 DEF Followed
      <4>4. QED
        BY <1>0, <2>6, <4>2, <4>3
    <3>3. named'[what.request] = what.year /\ \A q \in Requests : named[q] # 0 => named'[q] # 0
      BY <1>0, <2>3, <2>6
    <3>4. QED
      BY <2>2, <2>3, <2>6, <3>1, <3>2, <3>3 DEF Followed
  <2>7. QED
    BY <2>1, <2>4, <2>5, <2>6
<1>4. CASE UNCHANGED leaveVars
  BY <1>4 DEF leaveVars, fixed, rows, flows, Followed
<1>5. QED
  BY <1>1, <1>2, <1>3, <1>4 DEF LeaveNext, GivesUp

\* How often a chain was ended never falls.
LEMMA EndedGrows ==
    ASSUME LeaveTypeOK, RowsThere, [LeaveNext]_leaveVars, DecidedOnceEach'
    PROVE  DecidedOnceEach
<1>1. \A r \in Requests : ended[r] \in Nat /\ ended[r] <= ended'[r]
  <2>1. ASSUME NEW h \in Handlers, Step(h)
        PROVE  \A r \in Requests : ended[r] \in Nat /\ ended[r] <= ended'[r]
    BY <2>1, StepDoes DEF LeaveTypeOK
  <2>2. ended' = ended => \A r \in Requests : ended[r] \in Nat /\ ended[r] <= ended'[r]
    BY DEF LeaveTypeOK
  <2>3. QED
    BY <2>1, <2>2, Begun, GivesUpDoes, StartDoes DEF LeaveNext, GivesUp, leaveVars, flows
<1>2. \A r \in Requests : ended'[r] \in Nat /\ ended'[r] <= 1
  BY LeaveTypesStep DEF DecidedOnceEach, LeaveTypeOK
<1>3. QED
  BY <1>1, <1>2 DEF DecidedOnceEach

\* A chain that ends now had not been ended.
LEMMA FirstEnd ==
    ASSUME LeaveTypeOK, RowsThere, Followed, RefusedOnce, NEW h \in Handlers, Step(h), DecidedOnceEach',
           stage[h] = "decided"
    PROVE  LET r == call[h].request IN
           /\ r \in Requests /\ ended'[r] # 0
           /\ chain[r] # "REJECTED" /\ request[r] # "REJECTED"
           /\ \A g \in Handlers : stage[g] \in {"load", "charge", "mark"} /\ call[g].request = r =>
                                      call[g].to = "APPROVED"
<1> DEFINE r == call[h].request
<1>1. r \in Requests /\ ended[r] \in Nat
  BY DEF LeaveTypeOK
<1>2. ended'[r] = ended[r] + 1
  BY <1>1, StepDoes DEF LeaveTypeOK
<1>3. ended[r] = 0
  BY <1>1, <1>2 DEF DecidedOnceEach
<1>4. chain[r] # "REJECTED" /\ request[r] # "REJECTED"
  BY <1>1, <1>3 DEF RefusedOnce
<1>5. \A g \in Handlers : call[g].to \in {"APPROVED", "REJECTED"}
  BY DEF LeaveTypeOK
<1>6. \A g \in Handlers : stage[g] \in {"load", "charge", "mark"} /\ call[g].request = r =>
                              call[g].to = "APPROVED"
  BY <1>4, <1>5 DEF RefusedOnce
<1>7. QED
  BY <1>1, <1>2, <1>3, <1>4, <1>6

LEMMA RefusedStep ==
    ASSUME LeaveTypeOK, RowsThere, Followed, RefusedOnce, NEW h \in Handlers, Step(h), DecidedOnceEach'
    PROVE  RefusedOnce'
<1> DEFINE r == call[h].request
<1>1. /\ r \in Requests /\ \A g \in Handlers : call[g].request \in Requests
      /\ \A g \in Handlers : call[g].to \in {"APPROVED", "REJECTED"}
      /\ request \in [Requests -> {"none", "PENDING", "APPROVED", "REJECTED"}]
      /\ chain \in [Requests -> {"none", "open", "APPROVED", "REJECTED"}]
      /\ ended \in [Requests -> Nat]
  BY DEF LeaveTypeOK
<1>2. \A g \in Handlers : stage[g] \in {"load", "charge", "mark"} => request[call[g].request] # "none"
  BY DEF Followed
<1>3. stage[h] = "create" => request[r] = "none" /\ call[h].to = "APPROVED" /\ chain[r] = "none"
  BY <1>1 DEF Followed
<1>4. stage[h] = "decided" =>
           /\ ended'[r] # 0 /\ chain[r] # "REJECTED" /\ request[r] # "REJECTED"
           /\ \A g \in Handlers : stage[g] \in {"load", "charge", "mark"} /\ call[g].request = r =>
                                      call[g].to = "APPROVED"
  BY FirstEnd
<1>5. \A g \in Handlers : stage'[g] \in {"load", "charge", "mark"} /\ call'[g].to = "REJECTED" =>
           /\ call'[g] = call[g]
           /\ \/ stage[g] \in {"load", "charge", "mark"}
              \/ g = h /\ stage[h] = "decided"
           /\ chain'[call[g].request] = "REJECTED"
  <2>1. SUFFICES ASSUME NEW g \in Handlers, stage'[g] \in {"load", "charge", "mark"}, call'[g].to = "REJECTED"
                 PROVE  /\ call'[g] = call[g]
                        /\ \/ stage[g] \in {"load", "charge", "mark"}
                           \/ g = h /\ stage[h] = "decided"
                        /\ chain'[call[g].request] = "REJECTED"
    OBVIOUS
  <2>2. call'[g] = call[g]
    BY <2>1, StepDoes
  <2>3. \/ stage[g] \in {"load", "charge", "mark"}
        \/ g = h /\ stage[h] = "decided"
    BY <1>3, <2>1, <2>2, StepDoes
  <2>4. CASE stage[g] \in {"load", "charge", "mark"}
    <3>1. chain[call[g].request] = "REJECTED" /\ request[call[g].request] # "none"
      BY <1>2, <2>1, <2>2, <2>4 DEF RefusedOnce
    <3>2. stage[h] \in {"create", "decided"} => call[g].request # r
      BY <1>3, <1>4, <3>1
    <3>3. QED
      BY <1>1, <2>2, <2>4, <3>1, <3>2, StepDoes
  <2>5. CASE g = h /\ stage[h] = "decided"
    BY <1>1, <2>1, <2>2, <2>5, StepDoes
  <2>6. QED
    BY <2>2, <2>3, <2>4, <2>5
<1>6. \A q \in Requests : chain'[q] = "REJECTED" => ended'[q] # 0
  BY <1>1, <1>4, StepDoes DEF RefusedOnce
<1>7. \A q \in Requests : request'[q] = "REJECTED" => chain'[q] = "REJECTED"
  <2>1. stage[h] = "mark" /\ call[h].to = "REJECTED" => chain[r] = "REJECTED"
    BY DEF RefusedOnce
  <2>2. QED
    BY <1>1, <1>3, <1>4, <2>1, StepDoes DEF RefusedOnce
<1>8. ASSUME NEW f \in Handlers, NEW g \in Handlers,
             stage'[f] \in {"load", "charge"}, stage'[g] \in {"load", "charge"},
             call'[f].to = "REJECTED", call'[g].to = "REJECTED", call'[f].request = call'[g].request
      PROVE  f = g
  <2>1. \A e \in Handlers : stage'[e] \in {"load", "charge"} /\ call'[e].to = "REJECTED" =>
            stage[e] \in {"load", "charge"} \/ (e = h /\ stage[h] = "decided")
    <3>1. stage[h] = "mark" => stage'[h] = "idle"
      BY StepDoes
    <3>2. \A e \in Handlers : stage'[e] \in {"load", "charge"} => stage[e] # "mark"
      BY <3>1, StepDoes
    <3>3. QED
      BY <1>5, <3>2
  <2>2. call'[f] = call[f] /\ call'[g] = call[g]
    BY <1>5, <1>8
  <2>3. CASE stage[f] \in {"load", "charge"} /\ stage[g] \in {"load", "charge"}
    BY <1>8, <2>2, <2>3 DEF RefusedOnce
  <2>4. CASE f = h /\ stage[h] = "decided"
    BY <1>4, <1>8, <2>1, <2>2, <2>4
  <2>5. CASE g = h /\ stage[h] = "decided"
    BY <1>4, <1>8, <2>1, <2>2, <2>5
  <2>6. QED
    BY <1>8, <2>1, <2>3, <2>4, <2>5
<1>9. QED
  BY <1>5, <1>6, <1>7, <1>8 DEF RefusedOnce

\* Requests only come to be held where days are put aside.
LEMMA HoldingStep ==
    ASSUME LeaveTypeOK, RowsThere, Followed, RefusedOnce, NEW h \in Handlers, Step(h), DecidedOnceEach',
           NEW q \in Requests, Holding(q)'
    PROVE  Holding(q) \/ (stage[h] = "reserve" /\ q = call[h].request)
<1> DEFINE r == call[h].request
<1>1. /\ r \in Requests /\ call[h].to \in {"APPROVED", "REJECTED"}
      /\ request \in [Requests -> {"none", "PENDING", "APPROVED", "REJECTED"}]
      /\ chain \in [Requests -> {"none", "open", "APPROVED", "REJECTED"}]
  BY DEF LeaveTypeOK
<1>2. SUFFICES ASSUME ~(stage[h] = "reserve" /\ q = r) PROVE Holding(q)
  OBVIOUS
<1>3. CASE stage[h] = "create" /\ q = r
  BY <1>3 DEF Holding
<1>4. CASE stage[h] = "decided" /\ q = r
  <2>1. chain[r] # "REJECTED" /\ request[r] \notin {"REJECTED", "none"}
    BY FirstEnd, <1>4 DEF Followed
  <2>2. QED
    BY <1>1, <1>4, <2>1 DEF Holding
<1>5. CASE stage[h] = "mark" /\ q = r
  <2>1. request'[q] = call[h].to /\ chain' = chain
    BY <1>1, <1>5, StepDoes
  <2>2. CASE request'[q] \in {"PENDING", "APPROVED"} /\ chain'[q] # "REJECTED"
    <3>1. request[r] \notin {"REJECTED", "none"}
      BY <1>1, <1>5, <2>1, <2>2 DEF Followed, RefusedOnce
    <3>2. QED
      BY <1>1, <1>5, <2>1, <2>2, <3>1 DEF Holding
  <2>3. ASSUME NEW g \in Handlers, (stage'[g] = "create" /\ call'[g].request = q) \/ Refusing(g, q)'
        PROVE  Holding(q)
    <3>1. g # h
      BY <1>5, <2>3, StepDoes DEF Refusing
    <3>2. stage'[g] = stage[g] /\ call'[g] = call[g]
      BY <3>1, StepDoes
    <3>3. request'[q] # "PENDING"
      BY <1>1, <2>1
    <3>4. QED
      BY <2>3, <3>2, <3>3 DEF Holding, Refusing
  <2>4. QED
    BY <2>2, <2>3 DEF Holding
<1>6. CASE ~(stage[h] \in {"create", "decided", "mark"} /\ q = r)
  <2>1. request'[q] = request[q] /\ chain'[q] = chain[q]
    BY <1>1, <1>6, StepDoes
  <2>2. ASSUME NEW g \in Handlers, (stage'[g] = "create" /\ call'[g].request = q) \/ Refusing(g, q)'
        PROVE  Holding(q)
    <3>1. CASE g # h
      <4>1. stage'[g] = stage[g] /\ call'[g] = call[g]
        BY <3>1, StepDoes
      <4>2. QED
        BY <2>1, <2>2, <4>1 DEF Holding, Refusing
    <3>2. CASE g = h
      <4>1. call'[h] = call[h]
        BY <2>2, <3>2, StepDoes DEF Refusing
      <4>2. q = r
        BY <2>2, <3>2, <4>1 DEF Refusing
      <4>3. stage[h] = "load" /\ stage'[h] = "charge" /\ request[q] = "PENDING" /\ call[h].to = "REJECTED"
        BY <1>2, <1>6, <2>2, <3>2, <4>1, <4>2, StepDoes DEF Refusing
      <4>4. Refusing(h, q)
        BY <4>2, <4>3 DEF Refusing
      <4>5. QED
        BY <4>4 DEF Holding
    <3>3. QED
      BY <3>1, <3>2
  <2>3. QED
    BY <2>1, <2>2 DEF Holding
<1>7. QED
  BY <1>3, <1>4, <1>5, <1>6

\* A refusal that is charged ends the hold.
LEMMA GivenBack ==
    ASSUME LeaveTypeOK, RowsThere, Followed, RefusedOnce, NEW h \in Handlers, Step(h), stage[h] = "charge",
           call[h].to = "REJECTED", NEW r \in Requests, r = call[h].request
    PROVE  Holding(r) /\ ~Holding(r)'
<1>1. request[r] # "none" /\ chain[r] = "REJECTED"
  BY DEF LeaveTypeOK, Followed, RefusedOnce
<1>2. Holding(r)
  BY DEF Holding, Refusing
<1>3. UNCHANGED <<request, chain>> /\ stage'[h] \in {"idle", "mark"}
      /\ \A g \in Handlers \ {h} : stage'[g] = stage[g] /\ call'[g] = call[g]
  BY StepDoes
<1>4. \A g \in Handlers : ~(stage'[g] = "create" /\ call'[g].request = r)
  BY <1>1, <1>3 DEF Followed
<1>5. ASSUME NEW g \in Handlers, Refusing(g, r)' PROVE FALSE
  <2>1. g # h
    BY <1>3, <1>5 DEF Refusing
  <2>2. stage[g] \in {"load", "charge"} /\ call[g].to = "REJECTED" /\ call[g].request = r
    BY <1>3, <1>5, <2>1 DEF Refusing
  <2>3. QED
    BY <2>1, <2>2 DEF RefusedOnce
<1>6. ~Holding(r)'
  BY <1>1, <1>3, <1>4, <1>5 DEF Holding
<1>7. QED
  BY <1>2, <1>6

\* The days of a set of requests.
LEMMA Totals ==
    ASSUME NEW S \in SUBSET Requests
    PROVE  /\ Total(S) \in Nat
           /\ \A T \in SUBSET S : Total(T) <= Total(S)
           /\ \A r \in Requests : Total(S \cup {r}) <= Total(S) + Days[r]
           /\ \A r \in Requests \ S : Total(S \cup {r}) = Total(S) + Days[r]
           /\ \A r \in S : Total(S \ {r}) = Total(S) - Days[r]
<1>1. IsFiniteSet(S) /\ \A r \in Requests : Days[r] \in Nat /\ Days[r] \in Int
  BY LeaveAssumption, DaysNat, FS_Subset
<1>2. Total(S) \in Nat
  BY <1>1, SumNat DEF Total
<1>3. \A T \in SUBSET S : Total(T) <= Total(S)
  BY <1>1, SumSubset DEF Total
<1>4. ASSUME NEW r \in Requests, r \notin S PROVE Total(S \cup {r}) = Total(S) + Days[r]
  <2>1. Total(S \cup {r}) = Days[r] + Total(S)
    BY <1>1, <1>4, SumAdd DEF Total
  <2>2. QED
    BY <1>1, <1>2, <2>1
<1>5. ASSUME NEW r \in Requests PROVE Total(S \cup {r}) <= Total(S) + Days[r]
  <2>1. CASE r \in S
    <3>1. S \cup {r} = S
      BY <2>1
    <3>2. Total(S \cup {r}) = Total(S)
      BY <3>1
    <3>3. Days[r] \in Nat
      BY <1>1
    <3>4. QED
      BY <1>2, <3>2, <3>3
  <2>2. CASE r \notin S
    <3>1. Total(S \cup {r}) = Total(S) + Days[r]
      BY <1>4, <2>2
    <3>2. QED
      BY <1>1, <1>2, <3>1
  <2>3. QED
    BY <2>1, <2>2
<1>6. ASSUME NEW r \in S PROVE Total(S \ {r}) = Total(S) - Days[r]
  <2>1. Total(S) = Days[r] + Total(S \ {r})
    BY <1>1, SumSplit DEF Total
  <2>2. Total(S \ {r}) \in Nat
    <3>1. IsFiniteSet(S \ {r}) /\ \A q \in S \ {r} : Days[q] \in Nat
      BY <1>1, FS_Subset
    <3>2. QED
      BY <3>1, SumNat DEF Total
  <2>3. QED
    BY <1>1, <2>1, <2>2
<1>7. QED
  BY <1>2, <1>3, <1>4, <1>5, <1>6

\* What a balance still has to cover does not grow, and neither does it hold less.
LEMMA CoversKept ==
    ASSUME LeaveTypeOK, LeaveTypeOK', NEW y \in Years, Covers(y), Held(y)' \subseteq Held(y),
           \/ balance'[y] = balance[y]
           \/ \E bal \in Row : balance'[y] = bal /\ Same(balance[y], bal)
           \/ /\ balance[y] \in Row /\ balance'[y] \in Row
              /\ balance[y].used + balance[y].pending <= balance'[y].used + balance'[y].pending
    PROVE  Covers(y)'
<1>1. Held(y) \in SUBSET Requests /\ Held(y)' \in SUBSET Requests
  BY DEF Held
<1>2. Total(Held(y)') <= Total(Held(y)) /\ Total(Held(y)) \in Nat /\ Total(Held(y)') \in Nat
  BY <1>1, Totals
<1>3. Total({}) = 0
  BY SumEmpty DEF Total
<1>4. \A bal \in Row : bal # None /\ bal.used \in Nat /\ bal.pending \in Int
  BY LeaveAssumption DEF Row
<1>5. balance[y] \in Row \cup {None}
  BY DEF LeaveTypeOK
<1>6. CASE balance'[y] = balance[y]
  <2>1. CASE balance[y] = None
    BY <1>6, <2>1 DEF Covers
  <2>2. CASE balance[y] # None
    BY <1>2, <1>4, <1>5, <1>6, <2>2 DEF Covers
  <2>3. QED
    BY <2>1, <2>2
<1>7. ASSUME NEW bal \in Row, balance'[y] = bal, Same(balance[y], bal)
      PROVE  Covers(y)'
  <2>1. CASE balance[y] = None
    <3>1. Held(y)' = {}
      BY <2>1 DEF Covers
    <3>2. Total(Held(y)') = 0 /\ bal.used = 0 /\ bal.pending = 0
      BY <1>3, <1>7, <2>1, <3>1 DEF Same
    <3>3. QED
      BY <1>4, <1>7, <3>2 DEF Covers
  <2>2. CASE balance[y] # None
    BY <1>2, <1>4, <1>5, <1>7, <2>2 DEF Covers, Same
  <2>3. QED
    BY <2>1, <2>2
<1>8. CASE /\ balance[y] \in Row /\ balance'[y] \in Row
           /\ balance[y].used + balance[y].pending <= balance'[y].used + balance'[y].pending
  BY <1>2, <1>4, <1>8 DEF Covers
<1>9. QED
  BY <1>6, <1>7, <1>8

\* A request is named for a year once.
LEMMA NamedBefore ==
    ASSUME LeaveTypeOK, [LeaveNext]_leaveVars, NEW y \in Years, NamedRightly(y)'
    PROVE  NamedRightly(y)
<1>1. startYear' = startYear /\ \A r \in Requests : named[r] # 0 => named'[r] = named[r]
  <2>1. ASSUME NEW h \in Handlers, Step(h) \/ GivesUp(h)
        PROVE  startYear' = startYear /\ named' = named
    BY <2>1 DEF GivesUp, NoWorkflow, Step, SetBalance, Ensure, Reserve, CreateWithWorkflow, CreateApproved, EndChain, Load,
                Charge, Mark, Die, fixed, rows, flows
  <2>2. ASSUME NEW h \in Handlers,
             \/ \E z \in Years : Allocate(h, z)
             \/ \E from, to \in Years : from < to /\ CarryForward(h, from, to)
             \/ \E r \in Requests : Decide(h, r) \/ \E z \in Years : Ask(h, r, z)
        PROVE startYear' = startYear /\ \A r \in Requests : named[r] # 0 => named'[r] = named[r]
    <3>1. PICK place \in LeaveStages, what \in LeaveCalls :
               /\ Start(h, place, what)
               /\ \/ named' = named
                  \/ /\ named[what.request] = 0
                     /\ named' = [named EXCEPT ![what.request] = what.year]
      BY <2>2, Begun
    <3>2. startYear' = startYear
      BY <3>1 DEF Start, fixed
    <3>3. QED
      BY <3>1, <3>2 DEF LeaveTypeOK
  <2>3. QED
    BY <2>1, <2>2 DEF LeaveNext, GivesUp, leaveVars, fixed, flows
<1>2. QED
  BY <1>1 DEF NamedRightly

LEMMA CoversStep ==
    ASSUME LeaveTypeOK, LeaveTypeOK', RowsThere, Followed, RefusedOnce, NEW h \in Handlers, Step(h),
           DecidedOnceEach', NEW y \in Years, NamedRightly(y), Covers(y)
    PROVE  Covers(y)'
<1> DEFINE z == call[h].year
<1>1. PICK r \in Requests : r = call[h].request
  BY DEF LeaveTypeOK
<1>2. z \in Years /\ call[h].to \in {"APPROVED", "REJECTED"} /\ startYear' = startYear /\ Days[r] \in Nat
  BY DaysNat, StepDoes DEF LeaveTypeOK
<1>3. \A q \in Held(y)' : q \in Held(y) \/ (stage[h] = "reserve" /\ q = r /\ startYear[r] = y)
  BY <1>1, <1>2, HoldingStep DEF Held
<1>4. CASE Reserve(h)
  <2>1. PICK bal \in Row : /\ Put(z, bal) /\ balance[z] \in Row
                           /\ bal.used = balance[z].used /\ bal.pending = balance[z].pending + Days[r]
    BY <1>1, <1>4, ReserveDoes
  <2>2. balance'[z] = bal /\ \A x \in Years \ {z} : balance'[x] = balance[x]
    BY <1>2, <2>1, PutIs
  <2>3. CASE y = z
    <3>1. Held(y) \in SUBSET Requests /\ Held(y)' \in SUBSET (Held(y) \cup {r})
      BY <1>3 DEF Held
    <3>2. Held(y) \cup {r} \in SUBSET Requests
      BY <3>1
    <3>3. Total(Held(y)') <= Total(Held(y) \cup {r}) /\ Total(Held(y) \cup {r}) <= Total(Held(y)) + Days[r]
      BY <3>1, <3>2, Totals
    <3>4. Total(Held(y)') \in Nat /\ Total(Held(y) \cup {r}) \in Nat /\ Total(Held(y)) \in Nat
      <4>1. Held(y)' \in SUBSET Requests
        BY <3>1, <3>2
      <4>2. QED
        BY <3>1, <3>2, <4>1, Totals
    <3>5. balance[y] # None /\ bal # None /\ balance[y].used \in Nat /\ balance[y].pending \in Int
      BY <2>1, <2>3, LeaveAssumption DEF Row
    <3>6. Total(Held(y)) <= balance[y].used + balance[y].pending
      BY <3>5 DEF Covers
    <3>7. Total(Held(y)') <= bal.used + bal.pending
      BY <1>2, <2>1, <2>3, <3>3, <3>4, <3>5, <3>6
    <3>8. QED
      BY <2>2, <2>3, <3>5, <3>7 DEF Covers
  <2>4. CASE y # z
    <3>1. named[r] = z
      BY <1>1, <1>4 DEF Followed, Reserve, At
    <3>2. z # 0
      BY <1>2 DEF Years
    <3>3. startYear[r] # y
      BY <2>4, <3>1, <3>2 DEF NamedRightly
    <3>4. Held(y)' \subseteq Held(y)
      BY <1>3, <3>3
    <3>5. balance'[y] = balance[y]
      BY <2>2, <2>4
    <3>6. QED
      BY <3>4, <3>5, CoversKept
  <2>5. QED
    BY <2>3, <2>4
<1>5. CASE Charge(h)
  <2>1. stage[h] = "charge"
    BY <1>5 DEF Charge, At
  <2>2. Held(y)' \subseteq Held(y)
    BY <1>3, <2>1
  <2>3. CASE balance'[y] = balance[y]
    BY <2>2, <2>3, CoversKept
  <2>4. CASE balance'[y] # balance[y]
    <3>1. startYear[r] = y /\ balance[y] \in Row /\
             \E bal \in Row : /\ Put(y, bal)
                              /\ bal.pending = balance[y].pending - Days[r]
                              /\ call[h].to = "APPROVED" => bal.used = balance[y].used + Days[r]
                              /\ call[h].to = "REJECTED" => bal.used = balance[y].used
      <4>1. \A x \in Years, bal \in Row : Put(x, bal) /\ x # y => balance'[y] = balance[y]
        BY PutIs
      <4>2. QED
        BY <1>1, <1>5, <2>4, <4>1, ChargeDoes
    <3>2. PICK bal \in Row : /\ Put(y, bal)
                             /\ bal.pending = balance[y].pending - Days[r]
                             /\ call[h].to = "APPROVED" => bal.used = balance[y].used + Days[r]
                             /\ call[h].to = "REJECTED" => bal.used = balance[y].used
      BY <3>1
    <3>3. balance'[y] = bal
      BY <3>2, PutIs
    <3>4. /\ balance[y] # None /\ bal # None
          /\ balance[y].used \in Nat /\ balance[y].pending \in Int /\ bal.used \in Nat /\ bal.pending \in Int
      BY <3>1, LeaveAssumption DEF Row
    <3>5. CASE call[h].to = "APPROVED"
      <4>1. balance[y].used + balance[y].pending <= bal.used + bal.pending
        BY <1>2, <3>2, <3>4, <3>5
      <4>2. QED
        BY <2>2, <3>1, <3>3, <4>1, CoversKept
    <3>6. CASE call[h].to = "REJECTED"
      <4>1. Holding(r) /\ ~Holding(r)'
        BY <1>1, <2>1, <3>6, GivenBack
      <4>2. r \in Held(y) /\ Held(y)' \in SUBSET (Held(y) \ {r}) /\ Held(y) \in SUBSET Requests
        BY <2>2, <3>1, <4>1 DEF Held
      <4>3. Total(Held(y) \ {r}) = Total(Held(y)) - Days[r] /\ Total(Held(y)) \in Nat
        BY <4>2, Totals
      <4>4. Total(Held(y)') <= Total(Held(y) \ {r}) /\ Total(Held(y)') \in Nat
        <5>1. Held(y) \ {r} \in SUBSET Requests /\ Held(y)' \in SUBSET Requests
          BY <4>2
        <5>2. QED
          BY <4>2, <5>1, Totals
      <4>5. Total(Held(y)) <= balance[y].used + balance[y].pending
        BY <3>4 DEF Covers
      <4>6. Total(Held(y)') <= bal.used + bal.pending
        BY <1>2, <3>2, <3>4, <3>6, <4>3, <4>4, <4>5
      <4>7. QED
        BY <3>3, <3>4, <4>6 DEF Covers
    <3>7. QED
      BY <1>2, <3>5, <3>6
  <2>5. QED
    BY <2>3, <2>4
<1>6. CASE SetBalance(h) \/ Ensure(h)
  <2>1. stage[h] # "reserve"
    BY <1>6 DEF SetBalance, Ensure, At
  <2>2. PICK bal \in Row : Put(z, bal) /\ Same(balance[z], bal)
    BY <1>6, SetDoes, EnsureDoes
  <2>3. balance'[z] = bal /\ \A x \in Years \ {z} : balance'[x] = balance[x]
    BY <1>2, <2>2, PutIs
  <2>4. Held(y)' \subseteq Held(y)
    BY <1>3, <2>1
  <2>5. CASE y = z
    BY <2>2, <2>3, <2>4, <2>5, CoversKept
  <2>6. CASE y # z
    BY <2>3, <2>4, <2>6, CoversKept
  <2>7. QED
    BY <2>5, <2>6
<1>7. CASE balance' = balance /\ ~Reserve(h)
  <2>1. stage[h] # "reserve"
    BY <1>7 DEF Step, SetBalance, Ensure, Reserve, CreateWithWorkflow, CreateApproved, EndChain, Load, Charge, Mark, At
  <2>2. QED
    BY <1>3, <1>7, <2>1, CoversKept
<1>8. QED
  BY <1>4, <1>5, <1>6, <1>7 DEF Step, CreateWithWorkflow, CreateApproved, EndChain, Load, Mark, rows

LEMMA LeaveHoldsInit == LeaveInit => LeaveHolds
<1>1. SUFFICES ASSUME LeaveInit PROVE LeaveHolds
  OBVIOUS
<1>2. RefusedOnce
  BY <1>1 DEF LeaveInit, RefusedOnce
<1>3. \A y \in Years : Covers(y)
  BY <1>1 DEF LeaveInit, Covers, Held, Holding, Refusing
<1>4. QED
  BY <1>1, <1>2, <1>3, FollowedInit DEF LeaveHolds

\* A call that begins, or ends in the middle, acts on no decision.
LEMMA EdgeStep ==
    ASSUME LeaveTypeOK, LeaveTypeOK', RowsThere, Followed, RefusedOnce,
           UNCHANGED <<startYear, balance, request, chain, ended>>,
           \A g \in Handlers : stage'[g] \in {"create", "load", "charge", "mark"} =>
                                   stage'[g] = stage[g] /\ call'[g] = call[g]
    PROVE  RefusedOnce' /\ \A y \in Years : Covers(y) => Covers(y)'
<1>1. RefusedOnce'
  <2>1. \A g \in Handlers :
          stage'[g] \in {"load", "charge", "mark"} /\ call'[g].to = "REJECTED" =>
              chain'[call'[g].request] = "REJECTED"
    BY DEF RefusedOnce
  <2>2. \A r \in Requests : /\ chain'[r] = "REJECTED" => ended'[r] # 0
                            /\ request'[r] = "REJECTED" => chain'[r] = "REJECTED"
    BY DEF RefusedOnce
  <2>3. \A f, g \in Handlers :
          /\ stage'[f] \in {"load", "charge"} /\ stage'[g] \in {"load", "charge"}
          /\ call'[f].to = "REJECTED" /\ call'[g].to = "REJECTED"
          /\ call'[f].request = call'[g].request
          => f = g
    BY DEF RefusedOnce
  <2>4. QED
    BY <2>1, <2>2, <2>3 DEF RefusedOnce
<1>2. ASSUME NEW r \in Requests, Holding(r)' PROVE Holding(r)
  BY <1>2 DEF Holding, Refusing
<1>3. ASSUME NEW y \in Years, Covers(y) PROVE Covers(y)'
  <2>1. Held(y)' \subseteq Held(y)
    BY <1>2 DEF Held
  <2>2. QED
    BY <1>3, <2>1, CoversKept
<1>4. QED
  BY <1>1, <1>3

LEMMA LeaveHoldsStep == LeaveTypeOK /\ RowsThere /\ LeaveHolds /\ [LeaveNext]_leaveVars => LeaveHolds'
<1>1. SUFFICES ASSUME LeaveTypeOK, RowsThere, LeaveHolds, [LeaveNext]_leaveVars, DecidedOnceEach'
               PROVE  RefusedOnce' /\ \A y \in Years : NamedRightly(y)' => Covers(y)'
  BY FollowedStep DEF LeaveHolds
<1>2. LeaveTypeOK' /\ Followed
  BY <1>1, LeaveTypesStep DEF LeaveHolds
<1>3. RefusedOnce /\ \A y \in Years : NamedRightly(y)' => NamedRightly(y) /\ Covers(y)
  BY <1>1, EndedGrows, NamedBefore DEF LeaveHolds
<1>4. ASSUME NEW h \in Handlers, Step(h)
      PROVE  RefusedOnce' /\ \A y \in Years : NamedRightly(y)' => Covers(y)'
  BY <1>1, <1>2, <1>3, <1>4, RefusedStep, CoversStep
<1>5. ASSUME NEW h \in Handlers, ~Step(h),
             \/ GivesUp(h)
             \/ \E y \in Years : Allocate(h, y)
             \/ \E from, to \in Years : from < to /\ CarryForward(h, from, to)
             \/ \E r \in Requests : Decide(h, r) \/ \E y \in Years : Ask(h, r, y)
      PROVE  RefusedOnce' /\ \A y \in Years : NamedRightly(y)' => Covers(y)'
  <2>1. CASE GivesUp(h)
    BY <1>1, <1>2, <1>3, <2>1, GivesUpDoes, EdgeStep
  <2>2. CASE ~GivesUp(h)
    <3>1. PICK place \in LeaveStages, what \in LeaveCalls :
                 Start(h, place, what) /\ place \in {"set", "decided", "ensure", "reserve"}
      BY <1>1, <1>5, <2>2, Begun
    <3>2. QED
      BY <1>1, <1>2, <1>3, <3>1, StartDoes, EdgeStep
  <2>3. QED
    BY <2>1, <2>2
<1>6. CASE UNCHANGED leaveVars
  BY <1>1, <1>2, <1>3, <1>6, EdgeStep DEF leaveVars, fixed, rows, flows
<1>7. QED
  BY <1>1, <1>4, <1>5, <1>6 DEF LeaveNext, GivesUp

LEMMA LeaveHoldsAlways == LeaveSpec => []LeaveHolds
BY LeaveTypesAlways, LeaveHoldsInit, LeaveHoldsStep, PTL DEF LeaveSpec

(* However calls overlap and die, leave that is granted or waits for its     *)
(* decision has its days held in the balance of its year, as long as it was  *)
(* made for that year and no request was decided twice.                      *)
THEOREM DaysHeld == LeaveSpec => []LeaveIsHeld
<1>1. ASSUME LeaveTypeOK, LeaveHolds PROVE LeaveIsHeld
  <2>1. SUFFICES ASSUME DecidedOnceEach, NEW y \in Years, NamedRightly(y),
                        NEW live, live = {r \in Of(y, {"PENDING", "APPROVED"}) : chain[r] # "REJECTED"},
                        live # {}
                 PROVE  balance[y] # None /\ Total(live) <= balance[y].used + balance[y].pending
    BY DEF LeaveIsHeld, DecidedOnceEach
  <2>2. Covers(y)
    BY <1>1, <2>1 DEF LeaveHolds
  <2>3. Held(y) \in SUBSET Requests /\ live \in SUBSET Held(y)
    BY <2>1 DEF Held, Holding, Of
  <2>4. balance[y] # None /\ Total(Held(y)) <= balance[y].used + balance[y].pending
    BY <2>1, <2>2, <2>3 DEF Covers
  <2>5. Total(live) <= Total(Held(y)) /\ Total(Held(y)) \in Nat /\ Total(live) \in Nat
    <3>1. live \in SUBSET Requests
      BY <2>3
    <3>2. QED
      BY <2>3, <3>1, Totals
  <2>6. balance[y].used \in Nat /\ balance[y].pending \in Int
    BY <1>1, <2>4 DEF LeaveTypeOK, Row
  <2>7. QED
    BY <2>4, <2>5, <2>6
<1>2. QED
  BY <1>1, LeaveTypesAlways, LeaveHoldsAlways, PTL

-----------------------------------------------------------------------------
(* One call at a time: what pending and used days stand for *)

\* The requests of year y whose days are pending, and those whose days are used.
Reserved(y) ==
    {r \in Requests : startYear[r] = y /\
        \/ r \in stranded
        \/ request[r] = "PENDING" /\ \A h \in Handlers : ~(stage[h] = "mark" /\ call[h].request = r)
        \/ \E h \in Handlers : stage[h] \in {"create", "charge"} /\ call[h].request = r}

Granted(y) ==
    {r \in Requests : startYear[r] = y /\
        \/ request[r] = "APPROVED" /\ \A h \in Handlers : ~(stage[h] = "charge" /\ call[h].request = r)
        \/ \E h \in Handlers : stage[h] = "mark" /\ call[h].request = r /\ call[h].to = "APPROVED"}

Tells(y) ==
    IF balance[y] = None THEN Reserved(y) = {} /\ Granted(y) = {}
    ELSE balance[y].pending = Total(Reserved(y)) /\ balance[y].used = Total(Granted(y))

\* What the call under way has found is so.
Sure(h) ==
    LET r == call[h].request
        bal == balance[call[h].year] IN
    /\ stage[h] \in {"charge", "mark"} =>
          request[r] = "PENDING" \/ (request[r] = "APPROVED" /\ call[h].to = "APPROVED")
    /\ stage[h] = "reserve" => Days[r] <= Available(bal)
    /\ stage[h] = "create" => 0 <= Available(bal)

LeaveInTurn ==
    /\ \A g, h \in Handlers : stage[g] # "idle" /\ stage[h] # "idle" => g = h
    /\ \A h \in Handlers : Sure(h)
    /\ \A y \in Years : NamedRightly(y) => Tells(y)

LeaveInTurnIfSerial == mode = "serial" => LeaveInTurn

\* A call begins when none is under way.
LEMMA NoneUnderWay ==
    ASSUME mode = "serial", NEW h \in Handlers, NEW place, NEW what, Start(h, place, what)
    PROVE  \A g \in Handlers : stage[g] = "idle"
<1>1. Working \in SUBSET Handlers /\ IsFiniteSet(Working)
  BY LeaveAssumption, FS_Subset DEF Working
<1>2. Cardinality(Working) < 1 /\ Cardinality(Working) \in Nat
  BY <1>1, FS_CardinalityType DEF Start
<1>3. Working = {}
  BY <1>1, <1>2, FS_EmptySet
<1>4. QED
  BY <1>3 DEF Working, At

\* With no other call under way, what is pending and used is plain.
LEMMA ReservedAlone ==
    ASSUME NEW h \in Handlers, \A g \in Handlers \ {h} : stage[g] = "idle", NEW y, NEW r \in Requests
    PROVE  /\ r \in Reserved(y) <=> startYear[r] = y /\
                 \/ r \in stranded
                 \/ request[r] = "PENDING" /\ ~(stage[h] = "mark" /\ call[h].request = r)
                 \/ stage[h] \in {"create", "charge"} /\ call[h].request = r
           /\ r \in Granted(y) <=> startYear[r] = y /\
                 \/ request[r] = "APPROVED" /\ ~(stage[h] = "charge" /\ call[h].request = r)
                 \/ stage[h] = "mark" /\ call[h].request = r /\ call[h].to = "APPROVED"
BY DEF Reserved, Granted

LEMMA ReservedAloneNext ==
    ASSUME NEW h \in Handlers, \A g \in Handlers \ {h} : stage'[g] = "idle", NEW y, NEW r \in Requests
    PROVE  /\ r \in Reserved(y)' <=> startYear'[r] = y /\
                 \/ r \in stranded'
                 \/ request'[r] = "PENDING" /\ ~(stage'[h] = "mark" /\ call'[h].request = r)
                 \/ stage'[h] \in {"create", "charge"} /\ call'[h].request = r
           /\ r \in Granted(y)' <=> startYear'[r] = y /\
                 \/ request'[r] = "APPROVED" /\ ~(stage'[h] = "charge" /\ call'[h].request = r)
                 \/ stage'[h] = "mark" /\ call'[h].request = r /\ call'[h].to = "APPROVED"
BY DEF Reserved, Granted

\* What a statement does to the days that are pending and used.
LEMMA ReservedStep ==
    ASSUME LeaveTypeOK, RowsThere, Followed, LeaveInTurn, NEW h \in Handlers, Step(h), NEW y \in Years,
           NEW r \in Requests, r = call[h].request
    PROVE  /\ stage[h] = "reserve" /\ startYear[r] = y =>
                 r \notin Reserved(y) /\ Reserved(y)' = Reserved(y) \cup {r} /\ Granted(y)' = Granted(y)
           /\ stage[h] = "charge" /\ startYear[r] = y =>
                 /\ r \in Reserved(y) /\ r \notin Granted(y)
                 /\ Reserved(y)' = Reserved(y) \ {r}
                 /\ Granted(y)' = IF call[h].to = "APPROVED" THEN Granted(y) \cup {r} ELSE Granted(y)
           /\ ~(stage[h] \in {"reserve", "charge"} /\ startYear[r] = y) =>
                 Reserved(y)' = Reserved(y) /\ Granted(y)' = Granted(y)
<1>1. stage[h] # "idle" /\ \A g \in Handlers \ {h} : stage[g] = "idle" /\ stage'[g] = "idle"
  <2>1. stage[h] # "idle"
    BY StepDoes
  <2>2. QED
    BY <2>1, StepDoes DEF LeaveInTurn
<1>2. /\ request \in [Requests -> {"none", "PENDING", "APPROVED", "REJECTED"}]
      /\ call[h].to \in {"APPROVED", "REJECTED"}
      /\ startYear' = startYear /\ stranded' = stranded
      /\ startYear[r] = y => startYear[r] # 0
  BY StepDoes DEF LeaveTypeOK, Years
<1>3. /\ stage[h] \in {"reserve", "create"} =>
            request[r] = "none" /\ call[h].to = "APPROVED" /\ r \notin stranded
      /\ stage[h] \in {"charge", "mark"} =>
            /\ request[r] = "PENDING" \/ (request[r] = "APPROVED" /\ call[h].to = "APPROVED")
            /\ r \notin stranded
  BY DEF Followed, LeaveInTurn, Sure
<1>4. \A q \in Requests :
         /\ q \in Reserved(y) <=> startYear[q] = y /\
                 \/ q \in stranded
                 \/ request[q] = "PENDING" /\ ~(stage[h] = "mark" /\ r = q)
                 \/ stage[h] \in {"create", "charge"} /\ r = q
         /\ q \in Granted(y) <=> startYear[q] = y /\
                 \/ request[q] = "APPROVED" /\ ~(stage[h] = "charge" /\ r = q)
                 \/ stage[h] = "mark" /\ r = q /\ call[h].to = "APPROVED"
  BY <1>1, ReservedAlone
<1>5. \A q \in Requests :
         /\ q \in Reserved(y)' <=> startYear[q] = y /\
                 \/ q \in stranded
                 \/ request'[q] = "PENDING" /\ ~(stage'[h] = "mark" /\ r = q)
                 \/ stage'[h] \in {"create", "charge"} /\ r = q
         /\ q \in Granted(y)' <=> startYear[q] = y /\
                 \/ request'[q] = "APPROVED" /\ ~(stage'[h] = "charge" /\ r = q)
                 \/ stage'[h] = "mark" /\ r = q /\ call[h].to = "APPROVED"
  <2>1. stage'[h] # "idle" => call'[h] = call[h]
    BY StepDoes
  <2>2. SUFFICES ASSUME NEW q \in Requests
                 PROVE  /\ q \in Reserved(y)' <=> startYear[q] = y /\
                              \/ q \in stranded
                              \/ request'[q] = "PENDING" /\ ~(stage'[h] = "mark" /\ r = q)
                              \/ stage'[h] \in {"create", "charge"} /\ r = q
                        /\ q \in Granted(y)' <=> startYear[q] = y /\
                              \/ request'[q] = "APPROVED" /\ ~(stage'[h] = "charge" /\ r = q)
                              \/ stage'[h] = "mark" /\ r = q /\ call[h].to = "APPROVED"
    OBVIOUS
  <2>3. /\ q \in Reserved(y)' <=> startYear[q] = y /\
               \/ q \in stranded
               \/ request'[q] = "PENDING" /\ ~(stage'[h] = "mark" /\ call'[h].request = q)
               \/ stage'[h] \in {"create", "charge"} /\ call'[h].request = q
        /\ q \in Granted(y)' <=> startYear[q] = y /\
               \/ request'[q] = "APPROVED" /\ ~(stage'[h] = "charge" /\ call'[h].request = q)
               \/ stage'[h] = "mark" /\ call'[h].request = q /\ call'[h].to = "APPROVED"
    BY <1>1, <1>2, ReservedAloneNext
  <2>4. CASE stage'[h] = "idle"
    BY <2>3, <2>4
  <2>5. CASE stage'[h] # "idle"
    BY <2>1, <2>3, <2>5
  <2>6. QED
    BY <2>4, <2>5
<1>6. Reserved(y) \subseteq Requests /\ Granted(y) \subseteq Requests
      /\ Reserved(y)' \subseteq Requests /\ Granted(y)' \subseteq Requests
  BY DEF Reserved, Granted
<1>7. CASE stage[h] = "reserve" /\ startYear[r] = y
  <2>1. request' = request /\ stage'[h] = "create"
    BY <1>7, StepDoes
  <2>2. \A q \in Requests : /\ q \in Reserved(y)' <=> q \in Reserved(y) \/ q = r
                            /\ q \in Granted(y)' <=> q \in Granted(y)
    BY <1>3, <1>4, <1>5, <1>7, <2>1
  <2>3. r \notin Reserved(y)
    BY <1>3, <1>4, <1>7
  <2>4. QED
    BY <1>6, <1>7, <2>2, <2>3
<1>8. CASE stage[h] = "charge" /\ startYear[r] = y
  <2>1. request' = request /\ stage'[h] = "mark"
    BY <1>2, <1>8, StepDoes
  <2>2. \A q \in Requests :
           /\ q \in Reserved(y)' <=> q \in Reserved(y) /\ q # r
           /\ q \in Granted(y)' <=> q \in Granted(y) \/ (q = r /\ call[h].to = "APPROVED")
    BY <1>3, <1>4, <1>5, <1>8, <2>1
  <2>3. r \in Reserved(y) /\ r \notin Granted(y)
    BY <1>3, <1>4, <1>8
  <2>4. QED
    BY <1>6, <1>8, <2>2, <2>3
<1>9. CASE ~(stage[h] \in {"reserve", "charge"} /\ startYear[r] = y)
  <2>1. \A q \in Requests : /\ q \in Reserved(y)' <=> q \in Reserved(y)
                            /\ q \in Granted(y)' <=> q \in Granted(y)
    <3>1. CASE stage[h] \in {"reserve", "charge"}
      <4>1. request' = request /\ startYear[r] # y
        BY <1>9, <3>1, StepDoes
      <4>2. QED
        BY <1>4, <1>5, <4>1
    <3>2. CASE stage[h] \in {"set", "ensure", "decided", "load"}
      <4>1. request' = request /\ stage'[h] \in {"idle", "reserve", "load", "charge"}
            /\ (stage'[h] = "charge" => request[r] = "PENDING")
        BY <3>2, StepDoes
      <4>2. QED
        BY <1>4, <1>5, <3>2, <4>1
    <3>3. CASE stage[h] = "create"
      <4>1. \/ stage'[h] = "idle" /\ request' = [request EXCEPT ![r] = "PENDING"]
            \/ stage'[h] = "charge" /\ request' = [request EXCEPT ![r] = "APPROVED"]
        BY <3>3, StepDoes
      <4>2. QED
        BY <1>2, <1>3, <1>4, <1>5, <3>3, <4>1
    <3>4. CASE stage[h] = "mark"
      <4>1. stage'[h] = "idle" /\ request' = [request EXCEPT ![r] = call[h].to]
        BY <3>4, StepDoes
      <4>2. QED
        BY <1>2, <1>3, <1>4, <1>5, <3>4, <4>1
    <3>5. QED
      BY <3>1, <3>2, <3>3, <3>4, StepDoes
  <2>2. QED
    BY <1>6, <1>9, <2>1
<1>10. QED
  BY <1>7, <1>8, <1>9

\* The balance of a year goes on telling its requests when both keep what they have.
LEMMA TellsKept ==
    ASSUME LeaveTypeOK, NEW y \in Years, Tells(y), Reserved(y)' = Reserved(y), Granted(y)' = Granted(y),
           \/ balance'[y] = balance[y]
           \/ \E bal \in Row : balance'[y] = bal /\ Same(balance[y], bal)
    PROVE  Tells(y)'
<1>1. \A bal \in Row : bal # None
  BY LeaveAssumption
<1>2. CASE balance'[y] = balance[y]
  BY <1>2 DEF Tells
<1>3. ASSUME NEW bal \in Row, balance'[y] = bal, Same(balance[y], bal)
      PROVE  Tells(y)'
  <2>1. CASE balance[y] = None
    <3>1. Reserved(y)' = {} /\ Granted(y)' = {} /\ bal.used = 0 /\ bal.pending = 0
      BY <1>3, <2>1 DEF Tells, Same
    <3>2. Total({}) = 0
      BY SumEmpty DEF Total
    <3>3. Total(Reserved(y)') = 0 /\ Total(Granted(y)') = 0
      BY <3>1, <3>2
    <3>4. QED
      BY <1>1, <1>3, <3>1, <3>3 DEF Tells
  <2>2. CASE balance[y] # None
    BY <1>1, <1>3, <2>2 DEF Tells, Same
  <2>3. QED
    BY <2>1, <2>2
<1>4. QED
  BY <1>2, <1>3

LEMMA TellsStep ==
    ASSUME LeaveTypeOK, LeaveTypeOK', RowsThere, Followed, LeaveInTurn, NEW h \in Handlers, Step(h),
           NEW y \in Years, NamedRightly(y), Tells(y)
    PROVE  Tells(y)'
<1> DEFINE z == call[h].year
<1>1. PICK r \in Requests : r = call[h].request
  BY DEF LeaveTypeOK
<1>2. z \in Years /\ z # 0 /\ call[h].to \in {"APPROVED", "REJECTED"} /\ Days[r] \in Nat
  BY DaysNat DEF LeaveTypeOK, Years
<1>3. /\ stage[h] = "reserve" /\ startYear[r] = y =>
            r \notin Reserved(y) /\ Reserved(y)' = Reserved(y) \cup {r} /\ Granted(y)' = Granted(y)
      /\ stage[h] = "charge" /\ startYear[r] = y =>
            /\ r \in Reserved(y) /\ r \notin Granted(y)
            /\ Reserved(y)' = Reserved(y) \ {r}
            /\ Granted(y)' = IF call[h].to = "APPROVED" THEN Granted(y) \cup {r} ELSE Granted(y)
      /\ ~(stage[h] \in {"reserve", "charge"} /\ startYear[r] = y) =>
            Reserved(y)' = Reserved(y) /\ Granted(y)' = Granted(y)
  BY <1>1, ReservedStep
<1>4. Reserved(y) \in SUBSET Requests /\ Granted(y) \in SUBSET Requests
  BY DEF Reserved, Granted
<1>5. \A bal \in Row : bal # None /\ bal.used \in Nat /\ bal.pending \in Int
  BY LeaveAssumption DEF Row
<1>6. CASE Reserve(h)
  <2>1. stage[h] = "reserve" /\ named[r] = z
    BY <1>1, <1>6 DEF Reserve, At, Followed
  <2>2. startYear[r] = y <=> z = y
    BY <1>2, <2>1 DEF NamedRightly
  <2>3. PICK bal \in Row : /\ Put(z, bal) /\ balance[z] \in Row
                           /\ bal.used = balance[z].used /\ bal.pending = balance[z].pending + Days[r]
    BY <1>1, <1>6, ReserveDoes
  <2>4. balance'[z] = bal /\ \A x \in Years \ {z} : balance'[x] = balance[x]
    BY <1>2, <2>3, PutIs
  <2>5. CASE z = y
    <3>1. Total(Reserved(y)') = Total(Reserved(y)) + Days[r] /\ Granted(y)' = Granted(y)
      BY <1>3, <1>4, <2>1, <2>2, <2>5, Totals
    <3>2. balance[y].pending = Total(Reserved(y)) /\ balance[y].used = Total(Granted(y))
      BY <1>5, <2>3, <2>5 DEF Tells
    <3>3. bal.pending = Total(Reserved(y)') /\ bal.used = Total(Granted(y)') /\ bal # None
      BY <1>5, <2>3, <2>5, <3>1, <3>2
    <3>4. QED
      BY <2>4, <2>5, <3>3 DEF Tells
  <2>6. CASE z # y
    BY <1>3, <2>2, <2>4, <2>6, TellsKept
  <2>7. QED
    BY <2>5, <2>6
<1>7. CASE Charge(h)
  <2>1. stage[h] = "charge"
    BY <1>7 DEF Charge, At
  <2>2. CASE startYear[r] = y
    <3>1. r \in Reserved(y) /\ r \in Requests \ Granted(y)
      BY <1>3, <2>1, <2>2
    <3>2. balance[y] # None
      BY <3>1 DEF Tells
    <3>3. y # 0
      BY DEF Years
    <3>4. PICK bal \in Row : /\ Put(y, bal)
                             /\ bal.pending = balance[y].pending - Days[r]
                             /\ call[h].to = "APPROVED" => bal.used = balance[y].used + Days[r]
                             /\ call[h].to = "REJECTED" => bal.used = balance[y].used
      BY <1>1, <1>7, <2>2, <3>2, <3>3, ChargeDoes
    <3>5. balance'[y] = bal /\ bal # None
      BY <1>5, <3>4, PutIs
    <3>6. balance[y].pending = Total(Reserved(y)) /\ balance[y].used = Total(Granted(y))
      BY <3>2 DEF Tells
    <3>7. Total(Reserved(y)') = Total(Reserved(y)) - Days[r]
      BY <1>3, <1>4, <2>1, <2>2, <3>1, Totals
    <3>8. bal.used = Total(Granted(y)')
      <4>1. CASE call[h].to = "APPROVED"
        <5>1. Granted(y)' = Granted(y) \cup {r}
          BY <1>3, <2>1, <2>2, <4>1
        <5>2. Total(Granted(y) \cup {r}) = Total(Granted(y)) + Days[r]
          BY <1>4, <3>1, Totals
        <5>3. QED
          BY <3>4, <3>6, <4>1, <5>1, <5>2
      <4>2. CASE call[h].to = "REJECTED"
        <5>1. Granted(y)' = Granted(y)
          BY <1>3, <2>1, <2>2, <4>2
        <5>2. QED
          BY <3>4, <3>6, <4>2, <5>1
      <4>3. QED
        BY <1>2, <4>1, <4>2
    <3>9. bal.pending = Total(Reserved(y)')
      BY <3>4, <3>6, <3>7
    <3>10. QED
      BY <3>5, <3>8, <3>9 DEF Tells
  <2>3. CASE startYear[r] # y
    <3>1. balance'[y] = balance[y]
      <4>1. \A x \in Years, bal \in Row : Put(x, bal) /\ x # y => balance'[y] = balance[y]
        BY PutIs
      <4>2. QED
        BY <1>1, <1>7, <2>3, <4>1, ChargeDoes
    <3>2. QED
      BY <1>3, <2>3, <3>1, TellsKept
  <2>4. QED
    BY <2>2, <2>3
<1>8. CASE SetBalance(h) \/ Ensure(h)
  <2>1. stage[h] \notin {"reserve", "charge"}
    BY <1>8 DEF SetBalance, Ensure, At
  <2>2. PICK bal \in Row : Put(z, bal) /\ Same(balance[z], bal)
    BY <1>8, SetDoes, EnsureDoes
  <2>3. balance'[z] = bal /\ \A x \in Years \ {z} : balance'[x] = balance[x]
    BY <1>2, <2>2, PutIs
  <2>4. CASE y = z
    BY <1>3, <2>1, <2>2, <2>3, <2>4, TellsKept
  <2>5. CASE y # z
    BY <1>3, <2>1, <2>3, <2>5, TellsKept
  <2>6. QED
    BY <2>4, <2>5
<1>9. CASE balance' = balance /\ ~Reserve(h) /\ ~Charge(h)
  <2>1. stage[h] \notin {"reserve", "charge"}
    BY <1>9 DEF Step, SetBalance, Ensure, Reserve, CreateWithWorkflow, CreateApproved, EndChain, Load, Charge, Mark, At
  <2>2. QED
    BY <1>3, <1>9, <2>1, TellsKept
<1>10. QED
  BY <1>6, <1>7, <1>8, <1>9 DEF Step, CreateWithWorkflow, CreateApproved, EndChain, Load, Mark, rows

\* The next statement of the call under way finds what the last one found.
LEMMA SureStep ==
    ASSUME LeaveTypeOK, RowsThere, Followed, LeaveInTurn, NEW h \in Handlers, Step(h)
    PROVE  Sure(h)'
<1> DEFINE y == call[h].year
           r == call[h].request
<1>1. /\ y \in Years /\ r \in Requests /\ Days[r] \in Nat
      /\ request \in [Requests -> {"none", "PENDING", "APPROVED", "REJECTED"}]
  BY DaysNat DEF LeaveTypeOK
<1>2. stage'[h] # "idle" => call'[h] = call[h]
  BY StepDoes
<1>3. CASE stage'[h] = "reserve"
  <2>1. Ensure(h)
    BY <1>3, StepDoes DEF Step, SetBalance, Ensure, Reserve, CreateWithWorkflow, CreateApproved, EndChain,
                          Load, Charge, Mark, At
  <2>2. stage[h] = "ensure" /\ \A place : Goto(h, place) => stage'[h] = place
    BY <2>1 DEF Ensure, At, Goto, LeaveTypeOK
  <2>3. PICK bal \in Row : Put(y, bal) /\ Days[r] <= Available(bal)
    BY <1>3, <2>1, <2>2, EnsureDoes
  <2>4. balance'[y] = bal
    BY <1>1, <2>3, PutIs
  <2>5. QED
    BY <1>2, <1>3, <2>3, <2>4 DEF Sure
<1>4. CASE stage'[h] = "create"
  <2>1. Reserve(h) /\ stage[h] = "reserve"
    BY <1>4, StepDoes DEF Step, SetBalance, Ensure, Reserve, CreateWithWorkflow, CreateApproved, EndChain,
                          Load, Charge, Mark, At
  <2>2. PICK bal \in Row : /\ Put(y, bal) /\ balance[y] \in Row
                           /\ bal.used = balance[y].used /\ bal.pending = balance[y].pending + Days[r]
                           /\ bal.allocated = balance[y].allocated /\ bal.carried = balance[y].carried
    BY <2>1, ReserveDoes
  <2>3. balance'[y] = bal
    BY <1>1, <2>2, PutIs
  <2>4. Days[r] <= Available(balance[y])
    BY <2>1 DEF LeaveInTurn, Sure
  <2>5. 0 <= Available(bal)
    <3>1. \A x \in Row : x.used \in Nat /\ x.pending \in Int /\ x.allocated \in Nat /\ x.carried \in Nat
      BY DEF Row
    <3>2. QED
      BY <1>1, <2>2, <2>4, <3>1 DEF Available
  <2>6. QED
    BY <1>2, <1>4, <2>3, <2>5 DEF Sure
<1>5. CASE stage'[h] \in {"charge", "mark"}
  <2>1. request'[r] = "PENDING" \/ (request'[r] = "APPROVED" /\ call[h].to = "APPROVED")
    <3>1. stage[h] = "create" => call[h].to = "APPROVED"
      BY DEF Followed
    <3>2. stage[h] = "charge" => request[r] = "PENDING" \/ (request[r] = "APPROVED" /\ call[h].to = "APPROVED")
      BY DEF LeaveInTurn, Sure
    <3>3. QED
      BY <1>1, <1>5, <3>1, <3>2, StepDoes
  <2>2. QED
    BY <1>2, <1>5, <2>1 DEF Sure
<1>6. CASE stage'[h] \notin {"reserve", "create", "charge", "mark"}
  BY <1>6 DEF Sure
<1>7. QED
  BY <1>3, <1>4, <1>5, <1>6

LEMMA LeaveInTurnInit == LeaveInit => LeaveInTurnIfSerial
<1>1. SUFFICES ASSUME LeaveInit PROVE LeaveInTurn
  BY DEF LeaveInTurnIfSerial
<1>2. \A h \in Handlers : Sure(h)
  BY <1>1 DEF LeaveInit, Sure
<1>3. \A y \in Years : Tells(y)
  BY <1>1 DEF LeaveInit, Tells, Reserved, Granted
<1>4. QED
  BY <1>1, <1>2, <1>3 DEF LeaveInit, LeaveInTurn

LEMMA LeaveInTurnStep ==
    LeaveTypeOK /\ RowsThere /\ Followed /\ LeaveInTurnIfSerial /\ [LeaveNext]_leaveVars => LeaveInTurnIfSerial'
<1>1. SUFFICES ASSUME LeaveTypeOK, RowsThere, Followed, LeaveInTurnIfSerial, [LeaveNext]_leaveVars,
                      mode' = "serial"
               PROVE  LeaveInTurn'
  BY DEF LeaveInTurnIfSerial
<1>2. mode = "serial" /\ LeaveInTurn /\ LeaveTypeOK'
  <2>1. mode' = mode
    BY <1>1, Begun, StepDoes, GivesUpDoes, StartDoes DEF LeaveNext, GivesUp, leaveVars, fixed
  <2>2. QED
    BY <1>1, <2>1, LeaveTypesStep DEF LeaveInTurnIfSerial
<1>3. \A y \in Years : NamedRightly(y)' => NamedRightly(y) /\ Tells(y)
  BY <1>1, <1>2, NamedBefore DEF LeaveInTurn
<1>4. ASSUME NEW h \in Handlers, Step(h)
      PROVE  LeaveInTurn'
  <2>1. stage[h] # "idle" /\ \A g \in Handlers \ {h} : stage'[g] = stage[g]
    BY <1>1, <1>4, StepDoes
  <2>2. \A g \in Handlers \ {h} : stage'[g] = "idle"
    BY <1>2, <2>1 DEF LeaveInTurn
  <2>3. \A g \in Handlers : Sure(g)'
    <3>1. Sure(h)'
      BY <1>1, <1>2, <1>4, SureStep
    <3>2. \A g \in Handlers \ {h} : Sure(g)'
      BY <2>2 DEF Sure
    <3>3. QED
      BY <3>1, <3>2
  <2>4. \A y \in Years : NamedRightly(y)' => Tells(y)'
    BY <1>1, <1>2, <1>3, <1>4, TellsStep
  <2>5. QED
    BY <2>2, <2>3, <2>4 DEF LeaveInTurn
<1>5. ASSUME NEW h \in Handlers,
             \/ \E y \in Years : Allocate(h, y)
             \/ \E from, to \in Years : from < to /\ CarryForward(h, from, to)
             \/ \E r \in Requests : Decide(h, r) \/ \E y \in Years : Ask(h, r, y)
      PROVE  LeaveInTurn'
  <2>1. PICK place \in LeaveStages, what \in LeaveCalls :
               /\ Start(h, place, what)
               /\ \/ place \in {"set", "decided", "ensure"}
                  \/ /\ place = "reserve" /\ Days[what.request] <= Available(balance[what.year])
    BY <1>1, <1>5, Begun
  <2>2. \A g \in Handlers : stage[g] = "idle"
    BY <1>2, <2>1, NoneUnderWay
  <2>3. /\ \A g \in Handlers \ {h} : stage'[g] = "idle"
        /\ stage'[h] = place /\ call'[h] = what
        /\ UNCHANGED <<startYear, balance, request, stranded>>
    BY <1>1, <2>1, <2>2, StartDoes
  <2>4. \A g \in Handlers : Sure(g)'
    BY <2>1, <2>3 DEF Sure
  <2>5. \A y \in Years : Reserved(y)' = Reserved(y) /\ Granted(y)' = Granted(y)
    <3>1. place \notin {"create", "charge", "mark"}
      BY <2>1
    <3>2. QED
      BY <2>2, <2>3, <3>1 DEF Reserved, Granted
  <2>6. \A y \in Years : NamedRightly(y)' => Tells(y)'
    BY <1>2, <1>3, <2>3, <2>5, TellsKept, <1>1
  <2>7. QED
    BY <2>3, <2>4, <2>6 DEF LeaveInTurn
<1>6. ASSUME NEW h \in Handlers, GivesUp(h)
      PROVE  LeaveInTurn'
  <2>1. PICK r \in Requests : r = call[h].request
    BY <1>1 DEF LeaveTypeOK
  <2>2. stage[h] = "create" /\ stranded' = stranded \cup {r}
    BY <1>1, <1>2, <1>6, <2>1, GivesUpDoes
  <2>3. \A g \in Handlers \ {h} : stage[g] = "idle"
    BY <1>2, <2>2 DEF LeaveInTurn
  <2>4. /\ \A g \in Handlers : stage'[g] = "idle"
        /\ UNCHANGED <<startYear, balance, request>>
    BY <1>1, <1>6, <2>3, GivesUpDoes
  <2>5. \A y \in Years : Reserved(y)' = Reserved(y) /\ Granted(y)' = Granted(y)
    <3>1. SUFFICES ASSUME NEW y \in Years, NEW q \in Requests
                   PROVE  (q \in Reserved(y)' <=> q \in Reserved(y)) /\ (q \in Granted(y)' <=> q \in Granted(y))
      BY DEF Reserved, Granted
    <3>2. QED
      BY <2>1, <2>2, <2>3, <2>4 DEF Reserved, Granted
  <2>6. \A y \in Years : NamedRightly(y)' => Tells(y)'
    BY <1>1, <1>3, <2>4, <2>5, TellsKept
  <2>7. QED
    BY <2>4, <2>6 DEF LeaveInTurn, Sure
<1>7. CASE UNCHANGED leaveVars
  <2>1. UNCHANGED <<startYear, balance, request, named, stranded, stage, call>>
    BY <1>7 DEF leaveVars, fixed, rows, flows
  <2>2. \A h \in Handlers : Sure(h)'
    BY <1>2, <2>1 DEF LeaveInTurn, Sure
  <2>3. \A y \in Years : Tells(y) => Tells(y)'
    BY <2>1 DEF Tells, Reserved, Granted
  <2>4. QED
    BY <1>2, <1>3, <2>1, <2>2, <2>3 DEF LeaveInTurn
<1>8. QED
  BY <1>1, <1>4, <1>5, <1>6, <1>7 DEF LeaveNext, GivesUp

LEMMA LeaveInTurnAlways == LeaveSpec => []LeaveInTurnIfSerial
<1>1. LeaveHolds => Followed
  BY DEF LeaveHolds
<1>2. QED
  BY <1>1, LeaveTypesAlways, LeaveHoldsAlways, LeaveInTurnInit, LeaveInTurnStep, PTL DEF LeaveSpec

(* When calls do not overlap and requests name the year they begin in, a     *)
(* balance tells what its requests say: used are the days that were approved, *)
(* pending those that wait and those of requests without a workflow.         *)
THEOREM BalancesTell == LeaveSpec => []BalancesTellRequests
<1>1. ASSUME LeaveTypeOK, LeaveInTurnIfSerial PROVE BalancesTellRequests
  <2>1. SUFFICES ASSUME mode = "serial", Working = {}, NEW y \in Years, NamedRightly(y)
                 PROVE  IF balance[y] = None THEN Of(y, {"PENDING", "APPROVED"}) = {}
                        ELSE /\ balance[y].pending = Total(Of(y, {"PENDING"}) \cup LeftBehind(y))
                             /\ balance[y].used = Total(Of(y, {"APPROVED"}))
    BY DEF BalancesTellRequests
  <2>2. \A h \in Handlers : stage[h] = "idle"
    BY <2>1 DEF Working, At
  <2>3. Reserved(y) = Of(y, {"PENDING"}) \cup LeftBehind(y) /\ Granted(y) = Of(y, {"APPROVED"})
    BY <1>1, <2>2 DEF Reserved, Granted, Of, LeftBehind, LeaveTypeOK
  <2>4. Of(y, {"PENDING", "APPROVED"}) \subseteq Reserved(y) \cup Granted(y)
    BY <2>3 DEF Of
  <2>5. Tells(y)
    BY <1>1, <2>1 DEF LeaveInTurnIfSerial, LeaveInTurn
  <2>6. QED
    BY <2>3, <2>4, <2>5 DEF Tells
<1>2. QED
  BY <1>1, LeaveTypesAlways, LeaveInTurnAlways, PTL

\* A request that is made while its year covers it stays within the allowance.
LEMMA MadeWithin ==
    ASSUME LeaveTypeOK, RowsThere, Followed, LeaveInTurn, NEW h \in Handlers, Step(h),
           NEW r \in Requests, request[r] = "none", request'[r] # "none",
           NEW y \in Years, y = startYear[r], NamedRightly(y)
    PROVE  Total(Of(y, {"PENDING", "APPROVED"})') <= balance'[y].allocated + balance'[y].carried
<1>1. stage[h] = "create" /\ call[h].request = r /\ call[h].year \in Years
  <2>1. stage[h] = "mark" => request[call[h].request] # "none"
    BY DEF Followed
  <2>2. QED
    BY <2>1, StepDoes DEF LeaveTypeOK
<1>2. call[h].year = y
  <2>1. named[r] = call[h].year
    BY <1>1 DEF Followed
  <2>2. call[h].year # 0
    BY <1>1 DEF Years
  <2>3. QED
    BY <2>1, <2>2 DEF NamedRightly
<1>3. balance[y] \in Row /\ balance' = balance
  <2>1. balance[y] # None
    BY <1>1, <1>2 DEF RowsThere
  <2>2. balance' = balance
    BY <1>1 DEF Step, SetBalance, Ensure, Reserve, CreateWithWorkflow, CreateApproved, EndChain, Load,
                Charge, Mark, At, rows
  <2>3. QED
    BY <2>1, <2>2 DEF LeaveTypeOK
<1>4. balance[y].pending = Total(Reserved(y)) /\ balance[y].used = Total(Granted(y))
  BY <1>3, LeaveAssumption DEF LeaveInTurn, Tells
<1>5. 0 <= Available(balance[y])
  BY <1>1, <1>2 DEF LeaveInTurn, Sure
<1>6. \A g \in Handlers \ {h} : stage[g] = "idle"
  BY <1>1 DEF LeaveInTurn
<1>7. Reserved(y) \in SUBSET Requests /\ Granted(y) \in SUBSET Requests /\ Reserved(y) \cap Granted(y) = {}
  <2>1. \A q \in Requests : ~(q \in Reserved(y) /\ q \in Granted(y))
    BY <1>1, <1>6, ReservedAlone DEF Followed
  <2>2. QED
    BY <2>1 DEF Reserved, Granted
<1>8. Of(y, {"PENDING", "APPROVED"})' \subseteq Reserved(y) \cup Granted(y)
  <2>1. SUFFICES ASSUME NEW q \in Requests, startYear[q] = y, request'[q] \in {"PENDING", "APPROVED"}
                 PROVE  q \in Reserved(y) \cup Granted(y)
    BY StepDoes DEF Of
  <2>2. q # r => request'[q] = request[q]
    BY <1>1, StepDoes DEF LeaveTypeOK
  <2>3. QED
    BY <1>1, <1>6, <2>1, <2>2, ReservedAlone
<1>9. Total(Reserved(y) \cup Granted(y)) = Total(Reserved(y)) + Total(Granted(y))
  <2>1. IsFiniteSet(Reserved(y)) /\ IsFiniteSet(Granted(y))
    BY <1>7, LeaveAssumption, FS_Subset
  <2>2. \A q \in Reserved(y) \cup Granted(y) : Days[q] \in Int
    BY <1>7, DaysNat
  <2>3. QED
    BY <1>7, <2>1, <2>2, SumUnion DEF Total
<1>10. Total(Of(y, {"PENDING", "APPROVED"})') <= Total(Reserved(y) \cup Granted(y))
       /\ Total(Of(y, {"PENDING", "APPROVED"})') \in Nat
  <2>1. Reserved(y) \cup Granted(y) \in SUBSET Requests /\ Of(y, {"PENDING", "APPROVED"})' \in SUBSET Requests
    BY <1>7, <1>8
  <2>2. QED
    BY <1>8, <2>1, Totals
<1>11. /\ balance[y].used \in Nat /\ balance[y].pending \in Int
       /\ balance[y].allocated \in Nat /\ balance[y].carried \in Nat
  BY <1>3 DEF Row
<1>12. balance[y].used + balance[y].pending <= balance[y].allocated + balance[y].carried
  BY <1>5, <1>11 DEF Available
<1>13. QED
  BY <1>3, <1>4, <1>9, <1>10, <1>11, <1>12

(* When calls do not overlap, a request that is made leaves the days of all  *)
(* leave granted or waiting in its year within what was allocated and        *)
(* carried over.                                                             *)
THEOREM LeaveWithinAllowance == LeaveSpec => WithinAllowance
<1> DEFINE Within(r) ==
        LET y == startYear[r] IN
        mode = "serial" /\ request[r] = "none" /\ request'[r] # "none" /\ y # 0 /\ NamedRightly(y) =>
            Total(Of(y, {"PENDING", "APPROVED"})') <= balance'[y].allocated + balance'[y].carried
<1>1. ASSUME LeaveTypeOK, RowsThere, LeaveHolds, LeaveInTurnIfSerial, [LeaveNext]_leaveVars, NEW r \in Requests
      PROVE  Within(r)
  <2>1. SUFFICES ASSUME mode = "serial", request[r] = "none", request'[r] # "none",
                        startYear[r] # 0, NamedRightly(startYear[r])
                 PROVE  Within(r)
    OBVIOUS
  <2>2. PICK y \in Years : y = startYear[r]
    BY <1>1, <2>1, LeaveAssumption DEF LeaveTypeOK
  <2>3. PICK h \in Handlers : Step(h)
    <3>1. request' # request
      BY <2>1
    <3>2. QED
      BY <1>1, <3>1, Begun, GivesUpDoes, StartDoes DEF LeaveNext, GivesUp, leaveVars, rows
  <2>4. Total(Of(y, {"PENDING", "APPROVED"})') <= balance'[y].allocated + balance'[y].carried
    BY <1>1, <2>1, <2>2, <2>3, MadeWithin DEF LeaveInTurnIfSerial, LeaveHolds
  <2>5. startYear'[r] = y
    BY <1>1, <2>2, <2>3, StepDoes
  <2>6. Of(startYear[r], {"PENDING", "APPROVED"})' = Of(y, {"PENDING", "APPROVED"})'
    BY <2>5 DEF Of
  <2>7. QED
    BY <2>2, <2>4, <2>6
<1>2. LeaveTypeOK /\ RowsThere /\ LeaveHolds /\ LeaveInTurnIfSerial /\ [LeaveNext]_leaveVars =>
        [\A r \in Requests :
          LET y == startYear[r] IN
          mode = "serial" /\ request[r] = "none" /\ request'[r] # "none"
              /\ y # 0 /\ NamedRightly(y) =>
              Total(Of(y, {"PENDING", "APPROVED"})') <=
                  balance'[y].allocated + balance'[y].carried]_leaveVars
  BY <1>1
<1>3. QED
  BY <1>2, LeaveTypesAlways, LeaveHoldsAlways, LeaveInTurnAlways, PTL DEF LeaveSpec, WithinAllowance

-----------------------------------------------------------------------------
(* Notices: types *)

Delivery == {"check", "quiet", "digest", "hand", "sent", "failed"}
Flush == {"mail", "text", "drop"}
Off == {"idle", "channel"} \cup Flush
NoticePlaces == Off \cup Delivery \cup {"timer", "remove", "cancel"}

Timers == [state : {"none", "delayed", "active", "done"}, run : Nat, stalled : BOOLEAN]
NoticeErrands == [notice : Notices, left : SUBSET Channels, channel : Channels, batch : SUBSET DigestEntries]
ChannelJobs == Notices \X Runs \X Channels

NoticeColumns ==
    /\ overlap \in BOOLEAN /\ failures \in Nat
    /\ at \in [Workers -> NoticePlaces]
    /\ errand \in [Workers -> NoticeErrands]
    /\ notice \in [Notices -> {"none", "PENDING", "SENT", "FAILED", "CANCELLED"}]
    /\ timer \in [Notices -> Timers]
    /\ dispatches \in SUBSET ChannelJobs
    /\ lost \in SUBSET ChannelJobs
    /\ got \in SUBSET ChannelJobs
    /\ buffer \in SUBSET DigestEntries
    /\ told \in [DigestEntries -> [Reading -> 0..MaxTold]]
    /\ muted \in SUBSET (Notices \X Channels)
    /\ handed \in [Notices -> [Channels -> Nat]]

\* A worker with a channel job has one.
Packed == \A w \in Workers : at[w] = "channel" => \E x \in DigestEntries : errand[w].batch = {x}

\* Workers that are not there do nothing.
OneAtWork == ~overlap => \A w \in Workers : at[w] # "idle" => w = OneWorker

\* A step of worker w in Notices.
NoticeTurn(w) ==
    /\ recipient' = recipient
    /\ \/ SetTimer(w) \/ RemoveTimer(w) \/ WriteCancelled(w)
       \/ Check(w) \/ Defer(w) \/ WriteSent(w) \/ WriteFailed(w)
       \/ \E quiet \in BOOLEAN : AskQuiet(w, quiet)
       \/ \E ch \in Channels : Hand(w, ch)
       \/ \E d \in dispatches : Pick(w, d)
       \/ \E n \in Notices : Fire(w, n)
       \/ SendOut(w)
       \/ Scan(w) \/ Mail(w) \/ Text(w) \/ Drop(w)
       \/ EngineThrows(w) \/ DeliverThrows(w) \/ ErrandFails(w)
       \/ \E n \in Notices : Schedule(w, n) \/ Cancel(w, n)

-----------------------------------------------------------------------------
(* What a notice's job has done, is doing and may do *)

Stalls(n) == IF timer[n].stalled THEN 1 ELSE 0

\* Worker w is about n.
On(w, n) == at[w] \notin Off /\ errand[w].notice = n

OnJob(w, n) == On(w, n) /\ at[w] \in Delivery

\* A delayed job has an attempt left, and only a death gives it one more.
Clocked(n) ==
    /\ timer[n].run <= Tries + Stalls(n)
    /\ timer[n].state = "delayed" => timer[n].run < Tries + Stalls(n)
    /\ timer[n].state = "active" => timer[n].run > 0
    /\ timer[n].stalled => failures > 0

\* An active job is with one worker; a notice is scheduled once, and until its job is set it
\* has none.
Manned(n) ==
    /\ timer[n].state = "active" <=> \E w \in Workers : OnJob(w, n)
    /\ \A v, w \in Workers : OnJob(v, n) /\ OnJob(w, n) => v = w
    /\ \A w \in Workers : On(w, n) /\ at[w] = "timer" => timer[n] = NoTimer /\ notice[n] # "none"
    /\ \A v, w \in Workers : On(v, n) /\ at[v] = "timer" /\ On(w, n) /\ at[w] = "timer" => v = w
    /\ notice[n] = "none" => timer[n] = NoTimer

\* Channel ch is still to be handed n in this run, or n may be delivered again.
Open(n, ch) ==
    \/ notice[n] = "none"
    \/ notice[n] = "PENDING" /\ timer[n].state = "delayed"
    \/ \E w \in Workers :
          /\ On(w, n)
          /\ \/ at[w] \in {"timer", "quiet"}
             \/ at[w] = "check" /\ notice[n] = "PENDING"
             \/ at[w] \in {"digest", "hand"} /\ ch \in errand[w].left

Failing(n) == \E w \in Workers : On(w, n) /\ at[w] = "failed"

\* Each time n is handed to ch again costs a death of its worker or two failures.
Spent(n, ch) ==
    2 * handed[n][ch] <= Stalls(n) + failures +
        (IF Open(n, ch) THEN 0 ELSE IF Failing(n) THEN 1 ELSE 2)

Given(n, ch) == handed[n][ch] > 0 \/ <<n, ch>> \in muted

\* What a delivery has no longer to hand was handed or kept back.
Reaching(n) ==
    /\ notice[n] = "SENT" => \A ch \in ChannelsOf[n] : Given(n, ch)
    /\ \A w \in Workers : On(w, n) =>
          /\ at[w] \in {"digest", "hand", "sent"} =>
                \A ch \in ChannelsOf[n] : ch \in errand[w].left \/ Given(n, ch)
          /\ at[w] = "sent" => errand[w].left = {}

Unhanded(n) == \A ch \in Channels : handed[n][ch] = 0

\* Until something fails a notice that waits was handed to none, and its job is not over.
Unfailed(n) ==
    notice[n] \in {"none", "PENDING"} =>
        timer[n].state # "done" /\ (timer[n].state # "active" => Unhanded(n))

\* And one call at a time, one is cancelled only before that.
Uncancelled(n) ==
    /\ notice[n] = "CANCELLED" => Unhanded(n)
    /\ \A w \in Workers : On(w, n) =>
          /\ at[w] \in {"remove", "cancel"} => Unhanded(n)
          /\ at[w] \in {"quiet", "digest", "hand", "sent"} => notice[n] = "PENDING"

JobOf(n) ==
    /\ Clocked(n) /\ Manned(n) /\ Reaching(n)
    /\ \A ch \in Channels : Spent(n, ch)
    /\ failures = 0 => Unfailed(n) /\ (~overlap => Uncancelled(n))

NoticesHold == NoticeColumns /\ Packed /\ OneAtWork /\ \A n \in Notices : JobOf(n)

-----------------------------------------------------------------------------
(* Types are kept *)

LEMMA NoErrandTyped == NoErrand \in NoticeErrands /\ NoTimer \in Timers
<1>1. (CHOOSE n \in Notices : TRUE) \in Notices
  BY NoticesAssumption
<1>2. "inApp" \in Channels
  BY DEF Channels
<1>3. QED
  BY <1>1, <1>2 DEF NoErrand, NoticeErrands, NoTimer, Timers

\* Where w goes, the others stay.
LEMMA MoveIs ==
    ASSUME NoticeColumns, NEW w \in Workers, NEW place, Move(w, place)
    PROVE  /\ at'[w] = place /\ \A v \in Workers \ {w} : at'[v] = at[v]
           /\ place \in NoticePlaces => at' \in [Workers -> NoticePlaces]
BY DEF NoticeColumns, Move

LEMMA BackIs ==
    ASSUME NoticeColumns, NEW w \in Workers, Back(w)
    PROVE  /\ at'[w] = "idle" /\ \A v \in Workers \ {w} : at'[v] = at[v] /\ errand'[v] = errand[v]
           /\ at' \in [Workers -> NoticePlaces] /\ errand' \in [Workers -> NoticeErrands]
           /\ overlap' = overlap /\ failures' = failures
BY MoveIs, NoErrandTyped DEF Back, Arrive, NoticeColumns, NoticePlaces, Off

LEMMA GoOnIs ==
    ASSUME NoticeColumns, NEW w \in Workers, NEW place \in NoticePlaces, GoOn(w, place)
    PROVE  /\ at'[w] = place /\ \A v \in Workers \ {w} : at'[v] = at[v]
           /\ errand' = errand
           /\ at' \in [Workers -> NoticePlaces]
           /\ overlap' = overlap /\ failures' = failures
BY MoveIs DEF GoOn, Arrive

LEMMA ArriveIs ==
    ASSUME NoticeColumns, NEW w \in Workers, NEW place \in NoticePlaces, Arrive(w, place)
    PROVE  /\ at'[w] = place /\ \A v \in Workers \ {w} : at'[v] = at[v]
           /\ at' \in [Workers -> NoticePlaces]
           /\ overlap' = overlap /\ failures' = failures
BY MoveIs DEF Arrive

LEMMA FailsIs ==
    ASSUME NoticeColumns, NEW w \in Workers, NEW place \in NoticePlaces, Fails(w, place)
    PROVE  /\ at'[w] = place /\ \A v \in Workers \ {w} : at'[v] = at[v]
           /\ at' \in [Workers -> NoticePlaces] /\ at[w] # "idle"
           /\ overlap' = overlap /\ ~overlap /\ failures' = failures + 1 /\ failures' \in Nat
<1>1. failures \in Nat
  BY DEF NoticeColumns
<1>2. QED
  BY <1>1, MoveIs DEF Fails

\* An errand that was replaced.
LEMMA ErrandIs ==
    ASSUME NoticeColumns, NEW w \in Workers, NEW e \in NoticeErrands, errand' = [errand EXCEPT ![w] = e]
    PROVE  /\ errand'[w] = e /\ \A v \in Workers \ {w} : errand'[v] = errand[v]
           /\ errand' \in [Workers -> NoticeErrands]
BY DEF NoticeColumns

LEMMA SetOutIs ==
    ASSUME NoticeColumns, NEW w \in Workers, NEW place \in NoticePlaces, NEW n \in Notices,
           SetOut(w, place, n)
    PROVE  /\ at[w] = "idle" /\ at'[w] = place /\ errand'[w].notice = n
           /\ overlap \/ w = OneWorker
           /\ \A v \in Workers \ {w} : at'[v] = at[v] /\ errand'[v] = errand[v]
           /\ at' \in [Workers -> NoticePlaces] /\ errand' \in [Workers -> NoticeErrands]
           /\ overlap' = overlap /\ failures' = failures
<1> DEFINE e == [NoErrand EXCEPT !.notice = n]
<1>1. e \in NoticeErrands /\ e.notice = n
  BY NoErrandTyped DEF NoticeErrands
<1>2. errand' = [errand EXCEPT ![w] = e] /\ Arrive(w, place) /\ Idle(w)
  BY DEF SetOut
<1> HIDE DEF e
<1>3. errand'[w] = e /\ (\A v \in Workers \ {w} : errand'[v] = errand[v]) /\ errand' \in [Workers -> NoticeErrands]
  BY <1>1, <1>2, ErrandIs
<1>4. QED
  BY <1>1, <1>2, <1>3, ArriveIs DEF Idle

\* The rest of a job's errand.
LEMMA LeftIs ==
    ASSUME NoticeColumns, NEW w \in Workers, NEW S \in SUBSET Channels,
           errand' = [errand EXCEPT ![w].left = S]
    PROVE  /\ errand'[w].left = S /\ errand'[w].notice = errand[w].notice
           /\ errand'[w].batch = errand[w].batch
           /\ \A v \in Workers \ {w} : errand'[v] = errand[v]
           /\ errand' \in [Workers -> NoticeErrands]
<1> DEFINE e == [errand[w] EXCEPT !.left = S]
<1>1. e \in NoticeErrands /\ e.left = S /\ e.notice = errand[w].notice /\ e.batch = errand[w].batch
  BY DEF NoticeColumns, NoticeErrands
<1>2. errand' = [errand EXCEPT ![w] = e]
  OBVIOUS
<1> HIDE DEF e
<1>3. QED
  BY <1>1, <1>2, ErrandIs

\* A timer that was set.
LEMMA TimerIs ==
    ASSUME NoticeColumns, NEW n \in Notices, NEW t \in Timers, timer' = [timer EXCEPT ![n] = t]
    PROVE  timer'[n] = t /\ timer' \in [Notices -> Timers] /\ \A m \in Notices \ {n} : timer'[m] = timer[m]
BY DEF NoticeColumns

\* A job that is handed out, and one that a death gives back.
LEMMA TimerFields ==
    ASSUME NEW t \in Timers
    PROVE  /\ [t EXCEPT !.state = "active", !.run = t.run + 1]
                = [state |-> "active", run |-> t.run + 1, stalled |-> t.stalled]
           /\ \A s : [t EXCEPT !.state = s, !.stalled = TRUE]
                      = [state |-> s, run |-> t.run, stalled |-> TRUE]
<1>1. PICK s0 \in {"none", "delayed", "active", "done"}, r0 \in Nat, b0 \in BOOLEAN :
          t = [state |-> s0, run |-> r0, stalled |-> b0]
  BY DEF Timers
<1>2. [t EXCEPT !.state = "active", !.run = t.run + 1]
        = [state |-> "active", run |-> t.run + 1, stalled |-> t.stalled]
  <2> DEFINE u == [t EXCEPT !.state = "active"]
  <2>1. u = [state |-> "active", run |-> t.run, stalled |-> t.stalled]
    BY <1>1
  <2>2. [t EXCEPT !.state = "active", !.run = t.run + 1] = [u EXCEPT !.run = t.run + 1]
    OBVIOUS
  <2> HIDE DEF u
  <2>3. QED
    BY <2>1, <2>2
<1>3. ASSUME NEW s
      PROVE  [t EXCEPT !.state = s, !.stalled = TRUE] = [state |-> s, run |-> t.run, stalled |-> TRUE]
  <2> DEFINE u == [t EXCEPT !.state = s]
             yes == TRUE
  <2>1. u = [state |-> s, run |-> t.run, stalled |-> t.stalled]
    BY <1>1
  <2> HIDE DEF u, yes
  <2>2. [u EXCEPT !.stalled = yes] = [state |-> s, run |-> t.run, stalled |-> yes]
    BY <2>1
  <2>3. QED
    BY <2>2 DEF u, yes
<1>4. QED
  BY <1>2, <1>3

LEMMA StateIs ==
    ASSUME NoticeColumns, NEW n \in Notices, NEW s \in {"none", "delayed", "active", "done"},
           timer' = [timer EXCEPT ![n].state = s]
    PROVE  /\ timer'[n] = [state |-> s, run |-> timer[n].run, stalled |-> timer[n].stalled]
           /\ timer' \in [Notices -> Timers] /\ \A m \in Notices \ {n} : timer'[m] = timer[m]
<1> DEFINE t == [timer[n] EXCEPT !.state = s]
<1>1. t \in Timers /\ t = [state |-> s, run |-> timer[n].run, stalled |-> timer[n].stalled]
  BY DEF NoticeColumns, Timers
<1>2. timer' = [timer EXCEPT ![n] = t]
  OBVIOUS
<1> HIDE DEF t
<1>3. QED
  BY <1>1, <1>2, TimerIs

\* The job that a worker with a channel holds.
LEMMA PickedTyped ==
    ASSUME NoticeColumns, Packed, NEW w \in Workers, at[w] = "channel"
    PROVE  PickedJob(w) \in ChannelJobs
<1>1. PICK x \in DigestEntries : errand[w].batch = {x}
  BY DEF Packed
<1>2. (CHOOSE y \in errand[w].batch : TRUE) = x
  BY <1>1
<1>3. errand[w].channel \in Channels
  BY DEF NoticeColumns, NoticeErrands
<1>4. x[1] \in Notices /\ x[2] \in Runs
  BY DEF DigestEntries
<1>5. QED
  BY <1>2, <1>3, <1>4 DEF PickedJob, ChannelJobs

-----------------------------------------------------------------------------
(* What the steps do: to the notice they are about, and to no other *)

\* A step of w that is about n, or about none.
About(w, n) ==
    /\ \A v \in Workers \ {w} : at'[v] = at[v] /\ errand'[v] = errand[v]
    /\ at[w] \in Off \/ errand[w].notice = n
    /\ at'[w] \in Off \/ errand'[w].notice = n
    /\ \A m \in Notices \ {n} : notice'[m] = notice[m] /\ timer'[m] = timer[m] /\ handed'[m] = handed[m]
    /\ muted \subseteq muted'
    /\ overlap' = overlap /\ failures' \in Nat /\ failures <= failures'

\* The row of n stays as it is, and what was handed.
RowStays == UNCHANGED <<notice, tally>>

JobStays == RowStays /\ UNCHANGED timer

\* The job of n changes its state only.
JobTurns(n, s) ==
    timer'[n] = [state |-> s, run |-> timer[n].run, stalled |-> timer[n].stalled]

LEMMA ScheduleDoes ==
    ASSUME NoticeColumns, NEW w \in Workers, NEW n \in Notices, Schedule(w, n)
    PROVE  /\ NoticeColumns' /\ About(w, n) /\ failures' = failures
           /\ at[w] = "idle" /\ (overlap \/ w = OneWorker)
           /\ at'[w] = "timer" /\ errand'[w].notice = n
           /\ notice[n] = "none" /\ notice'[n] = "PENDING"
           /\ UNCHANGED <<timer, tally>>
<1>1. SetOut(w, "timer", n) /\ notice' = [notice EXCEPT ![n] = "PENDING"] /\ notice[n] = "none"
      /\ UNCHANGED <<timer, channelJobs, digests, tally>>
  BY DEF Schedule
<1>2. "timer" \in NoticePlaces
  BY DEF NoticePlaces
<1>3. /\ at[w] = "idle" /\ at'[w] = "timer" /\ errand'[w].notice = n /\ (overlap \/ w = OneWorker)
      /\ \A v \in Workers \ {w} : at'[v] = at[v] /\ errand'[v] = errand[v]
      /\ at' \in [Workers -> NoticePlaces] /\ errand' \in [Workers -> NoticeErrands]
      /\ overlap' = overlap /\ failures' = failures
  BY <1>1, <1>2, SetOutIs
<1>4. QED
  BY <1>1, <1>3 DEF NoticeColumns, About, Off, channelJobs, digests, tally

LEMMA SetTimerDoes ==
    ASSUME NoticeColumns, NEW w \in Workers, NEW n \in Notices, n = errand[w].notice, SetTimer(w)
    PROVE  /\ NoticeColumns' /\ About(w, n) /\ failures' = failures
           /\ at[w] = "timer" /\ at'[w] = "idle"
           /\ RowStays /\ JobTurns(n, "delayed")
<1>1. at[w] = "timer" /\ Back(w) /\ UNCHANGED <<notice, channelJobs, digests, tally>>
      /\ timer' = [timer EXCEPT ![n].state = "delayed"]
  BY DEF SetTimer
<1>2. /\ JobTurns(n, "delayed") /\ timer' \in [Notices -> Timers]
      /\ \A m \in Notices \ {n} : timer'[m] = timer[m]
  BY <1>1, StateIs DEF JobTurns
<1>3. QED
  BY <1>1, <1>2, BackIs DEF NoticeColumns, About, Off, channelJobs, digests, tally, RowStays

LEMMA CancelDoes ==
    ASSUME NoticeColumns, NEW w \in Workers, NEW n \in Notices, Cancel(w, n)
    PROVE  /\ NoticeColumns' /\ About(w, n) /\ failures' = failures
           /\ at[w] = "idle" /\ (overlap \/ w = OneWorker)
           /\ at'[w] = "remove" /\ errand'[w].notice = n
           /\ notice[n] = "PENDING" /\ JobStays
<1>1. SetOut(w, "remove", n) /\ notice[n] = "PENDING" /\ UNCHANGED <<notice, timer, channelJobs, digests, tally>>
  BY DEF Cancel, Cancellable
<1>2. "remove" \in NoticePlaces
  BY DEF NoticePlaces
<1>3. /\ at[w] = "idle" /\ at'[w] = "remove" /\ errand'[w].notice = n /\ (overlap \/ w = OneWorker)
      /\ \A v \in Workers \ {w} : at'[v] = at[v] /\ errand'[v] = errand[v]
      /\ at' \in [Workers -> NoticePlaces] /\ errand' \in [Workers -> NoticeErrands]
      /\ overlap' = overlap /\ failures' = failures
  BY <1>1, <1>2, SetOutIs
<1>4. QED
  BY <1>1, <1>3 DEF NoticeColumns, About, Off, channelJobs, digests, tally, JobStays, RowStays

LEMMA RemoveTimerDoes ==
    ASSUME NoticeColumns, NEW w \in Workers, NEW n \in Notices, n = errand[w].notice, RemoveTimer(w)
    PROVE  /\ NoticeColumns' /\ About(w, n) /\ failures' = failures
           /\ at[w] = "remove" /\ RowStays
           /\ \/ at'[w] = "idle" /\ timer' = timer
              \/ /\ timer[n].state # "active" /\ JobTurns(n, "none")
                 /\ at'[w] = "cancel" /\ errand' = errand
<1>1. at[w] = "remove" /\ UNCHANGED <<notice, channelJobs, digests, tally>>
  BY DEF RemoveTimer
<1>2. CASE timer[n].state = "active"
  <2>1. Back(w) /\ UNCHANGED timer
    BY <1>2 DEF RemoveTimer
  <2>2. QED
    BY <1>1, <2>1, BackIs DEF NoticeColumns, About, Off, channelJobs, digests, tally, RowStays
<1>3. CASE timer[n].state # "active"
  <2>1. GoOn(w, "cancel") /\ timer' = [timer EXCEPT ![n].state = "none"] /\ "cancel" \in NoticePlaces
    BY <1>3 DEF RemoveTimer, NoticePlaces
  <2>2. /\ JobTurns(n, "none") /\ timer' \in [Notices -> Timers]
        /\ \A m \in Notices \ {n} : timer'[m] = timer[m]
    BY <2>1, StateIs DEF JobTurns
  <2>3. QED
    BY <1>1, <1>3, <2>1, <2>2, GoOnIs DEF NoticeColumns, About, Off, channelJobs, digests, tally, RowStays
<1>4. QED
  BY <1>2, <1>3

LEMMA WriteCancelledDoes ==
    ASSUME NoticeColumns, NEW w \in Workers, NEW n \in Notices, n = errand[w].notice, WriteCancelled(w)
    PROVE  /\ NoticeColumns' /\ About(w, n) /\ failures' = failures
           /\ at[w] = "cancel" /\ at'[w] = "idle"
           /\ notice'[n] = "CANCELLED" /\ UNCHANGED <<timer, tally>>
<1>1. at[w] = "cancel" /\ Back(w) /\ notice' = [notice EXCEPT ![n] = "CANCELLED"]
      /\ UNCHANGED <<timer, channelJobs, digests, tally>>
  BY DEF WriteCancelled
<1>2. QED
  BY <1>1, BackIs DEF NoticeColumns, About, Off, channelJobs, digests, tally

LEMMA FireDoes ==
    ASSUME NoticeColumns, NEW w \in Workers, NEW n \in Notices, Fire(w, n)
    PROVE  /\ NoticeColumns' /\ About(w, n) /\ failures' = failures
           /\ at[w] = "idle" /\ (overlap \/ w = OneWorker)
           /\ at'[w] = "check" /\ errand'[w].notice = n
           /\ timer[n].state = "delayed"
           /\ timer'[n] = [state |-> "active", run |-> timer[n].run + 1, stalled |-> timer[n].stalled]
           /\ RowStays
<1> DEFINE t == [timer[n] EXCEPT !.state = "active", !.run = timer[n].run + 1]
<1>1. SetOut(w, "check", n) /\ timer[n].state = "delayed" /\ UNCHANGED <<notice, channelJobs, digests, tally>>
      /\ timer' = [timer EXCEPT ![n].state = "active", ![n].run = @ + 1]
  BY DEF Fire
<1>2. "check" \in NoticePlaces
  BY DEF NoticePlaces, Delivery
<1>3. /\ at[w] = "idle" /\ at'[w] = "check" /\ errand'[w].notice = n /\ (overlap \/ w = OneWorker)
      /\ \A v \in Workers \ {w} : at'[v] = at[v] /\ errand'[v] = errand[v]
      /\ at' \in [Workers -> NoticePlaces] /\ errand' \in [Workers -> NoticeErrands]
      /\ overlap' = overlap /\ failures' = failures
  BY <1>1, <1>2, SetOutIs
<1>4. timer[n] \in Timers /\ timer \in [Notices -> Timers]
  BY DEF NoticeColumns
<1>5. t \in Timers /\ t = [state |-> "active", run |-> timer[n].run + 1, stalled |-> timer[n].stalled]
  <2>1. t = [state |-> "active", run |-> timer[n].run + 1, stalled |-> timer[n].stalled]
    BY <1>4, TimerFields
  <2>2. timer[n].run + 1 \in Nat /\ timer[n].stalled \in BOOLEAN
    BY <1>4 DEF Timers
  <2>3. QED
    BY <2>1, <2>2 DEF Timers
<1>6. timer' = [timer EXCEPT ![n] = t]
  BY <1>1, <1>4 DEF Timers
<1> HIDE DEF t
<1>7. timer'[n] = t /\ timer' \in [Notices -> Timers] /\ \A m \in Notices \ {n} : timer'[m] = timer[m]
  BY <1>5, <1>6, TimerIs
<1>8. QED
  BY <1>1, <1>3, <1>5, <1>7 DEF NoticeColumns, About, Off, channelJobs, digests, tally, RowStays

LEMMA CheckDoes ==
    ASSUME NoticeColumns, NEW w \in Workers, NEW n \in Notices, n = errand[w].notice, Check(w)
    PROVE  /\ NoticeColumns' /\ About(w, n) /\ failures' = failures
           /\ at[w] = "check" /\ RowStays
           /\ \/ notice[n] = "PENDING" /\ at'[w] = "quiet" /\ errand' = errand /\ timer' = timer
              \/ notice[n] # "PENDING" /\ at'[w] = "idle" /\ JobTurns(n, "done")
<1>1. at[w] = "check" /\ UNCHANGED <<notice, channelJobs, digests, tally>>
  BY DEF Check
<1>2. CASE notice[n] = "PENDING"
  <2>1. GoOn(w, "quiet") /\ UNCHANGED timer /\ "quiet" \in NoticePlaces
    BY <1>2 DEF Check, Due, NoticePlaces, Delivery
  <2>2. QED
    BY <1>1, <1>2, <2>1, GoOnIs DEF NoticeColumns, About, Off, channelJobs, digests, tally, RowStays
<1>3. CASE notice[n] # "PENDING"
  <2>1. Back(w) /\ timer' = [timer EXCEPT ![n].state = "done"]
    BY <1>3 DEF Check, Due, Over
  <2>2. /\ JobTurns(n, "done") /\ timer' \in [Notices -> Timers]
        /\ \A m \in Notices \ {n} : timer'[m] = timer[m]
    BY <2>1, StateIs DEF JobTurns
  <2>3. QED
    BY <1>1, <1>3, <2>1, <2>2, BackIs DEF NoticeColumns, About, Off, channelJobs, digests, tally, RowStays
<1>4. QED
  BY <1>2, <1>3

LEMMA AskQuietDoes ==
    ASSUME NoticeColumns, NEW w \in Workers, NEW n \in Notices, n = errand[w].notice,
           NEW quiet \in BOOLEAN, AskQuiet(w, quiet)
    PROVE  /\ NoticeColumns' /\ About(w, n) /\ failures' = failures
           /\ at[w] = "quiet" /\ errand'[w].notice = n
           /\ at'[w] \in {"digest", "sent"} /\ (at'[w] = "sent" => errand'[w].left = {})
           /\ \A ch \in ChannelsOf[n] : ch \in errand'[w].left \/ <<n, ch>> \in muted'
           /\ UNCHANGED <<notice, timer, handed>>
<1> DEFINE chs == ChannelsOf[n]
           left == IF quiet THEN chs \cap {"inApp"} ELSE chs
           place == IF left = {} THEN "sent" ELSE "digest"
<1>1. /\ at[w] = "quiet" /\ Arrive(w, place) /\ errand' = [errand EXCEPT ![w].left = left]
      /\ muted' = muted \cup {<<n, ch>> : ch \in chs \ left}
      /\ UNCHANGED <<notice, timer, channelJobs, digests, handed>>
  BY DEF AskQuiet
<1>2. chs \in SUBSET Channels /\ left \in SUBSET Channels /\ place \in NoticePlaces
  BY NoticesAssumption DEF NoticePlaces, Delivery
<1>3. place \in {"digest", "sent"} /\ (place = "sent" => left = {})
  OBVIOUS
<1>4. muted' \in SUBSET (Notices \X Channels) /\ muted \subseteq muted'
  BY <1>1, <1>2 DEF NoticeColumns
<1>5. \A ch \in chs : ch \in left \/ <<n, ch>> \in muted'
  BY <1>1
<1> HIDE DEF left, place
<1>6. /\ at'[w] = place /\ \A v \in Workers \ {w} : at'[v] = at[v]
      /\ at' \in [Workers -> NoticePlaces] /\ overlap' = overlap /\ failures' = failures
  BY <1>1, <1>2, ArriveIs
<1>7. /\ errand'[w].left = left /\ errand'[w].notice = n
      /\ \A v \in Workers \ {w} : errand'[v] = errand[v]
      /\ errand' \in [Workers -> NoticeErrands]
  BY <1>1, <1>2, LeftIs
<1>8. NoticeColumns'
  BY <1>1, <1>4, <1>6, <1>7 DEF NoticeColumns, channelJobs, digests
<1>9. About(w, n)
  BY <1>1, <1>4, <1>6, <1>7 DEF About, NoticeColumns
<1>10. QED
  BY <1>1, <1>3, <1>5, <1>6, <1>7, <1>8, <1>9

\* What a run's entry and its jobs are typed by.
LEMMA RunTyped ==
    ASSUME NoticeColumns, NEW n \in Notices, Clocked(n), Manned(n), NEW w \in Workers, OnJob(w, n)
    PROVE  timer[n].state = "active" /\ timer[n].run \in Runs
<1>1. timer[n].state = "active" /\ timer[n] \in Timers /\ Tries \in Nat
  BY NoticesAssumption DEF Manned, NoticeColumns
<1>2. timer[n].run \in Nat /\ timer[n].run > 0 /\ timer[n].run <= Tries + Stalls(n) /\ Stalls(n) \in 0..1
  BY <1>1 DEF Clocked, Timers, Stalls
<1>3. QED
  BY <1>1, <1>2 DEF Runs

LEMMA DeferDoes ==
    ASSUME NoticeColumns, NEW w \in Workers, NEW n \in Notices, n = errand[w].notice,
           Clocked(n), Manned(n), Defer(w)
    PROVE  /\ NoticeColumns' /\ About(w, n) /\ failures' = failures
           /\ at[w] = "digest" /\ errand'[w].notice = n
           /\ at'[w] \in {"hand", "sent"} /\ (at'[w] = "sent" => errand'[w].left = {})
           /\ errand'[w].left \subseteq errand[w].left
           /\ \A ch \in Channels :
                 \/ handed'[n][ch] = handed[n][ch] /\ (ch \in errand'[w].left <=> ch \in errand[w].left)
                 \/ /\ handed'[n][ch] = handed[n][ch] + 1
                    /\ ch \in errand[w].left /\ ch \notin errand'[w].left
           /\ UNCHANGED <<notice, timer, muted>>
           /\ buffer' \in {buffer, buffer \cup {<<n, timer[n].run>>}}
<1> DEFINE D == Deferred(w)
           L == errand[w].left \ D
           place == IF errand[w].left \subseteq D THEN "sent" ELSE "hand"
           more == [ch \in Channels |-> handed[n][ch] + (IF ch \in D THEN 1 ELSE 0)]
<1>1. /\ at[w] = "digest" /\ Arrive(w, place) /\ errand' = [errand EXCEPT ![w].left = L]
      /\ UNCHANGED <<notice, timer, channelJobs, told, muted>>
      /\ IF D = {} THEN buffer' = buffer /\ handed' = handed
         ELSE /\ buffer' = buffer \cup {<<n, timer[n].run>>}
              /\ handed' = [handed EXCEPT ![n] = more]
  BY DEF Defer, tally, NoticeColumns
<1>2. errand[w].left \in SUBSET Channels /\ D \in SUBSET errand[w].left /\ L \in SUBSET Channels
  BY DEF NoticeColumns, NoticeErrands, Deferred
<1>3. place \in NoticePlaces /\ place \in {"hand", "sent"} /\ (place = "sent" => L = {})
  BY DEF NoticePlaces, Delivery
<1>4. timer[n].run \in Runs
  <2>1. OnJob(w, n)
    BY <1>1 DEF OnJob, On, Off, Delivery, Flush
  <2>2. QED
    BY <2>1, RunTyped
<1>5. handed[n] \in [Channels -> Nat]
  BY DEF NoticeColumns
<1>6. more \in [Channels -> Nat]
  BY <1>5
<1>7. buffer' \in SUBSET DigestEntries
  BY <1>1, <1>4 DEF NoticeColumns, DigestEntries
<1>8. handed' \in [Notices -> [Channels -> Nat]] /\ \A m \in Notices \ {n} : handed'[m] = handed[m]
  BY <1>1, <1>6 DEF NoticeColumns
<1>9. ASSUME NEW ch \in Channels
      PROVE  \/ handed'[n][ch] = handed[n][ch] /\ (ch \in L <=> ch \in errand[w].left)
             \/ handed'[n][ch] = handed[n][ch] + 1 /\ ch \in errand[w].left /\ ch \notin L
  <2>1. handed[n][ch] \in Nat
    BY <1>5
  <2>2. CASE D = {}
    BY <1>1, <2>2
  <2>3. CASE D # {}
    <3>1. handed'[n] = more
      BY <1>1, <1>6, <2>3 DEF NoticeColumns
    <3>2. QED
      BY <1>2, <2>1, <3>1
  <2>4. QED
    BY <2>2, <2>3
<1> HIDE DEF D, L, place, more
<1>10. /\ at'[w] = place /\ \A v \in Workers \ {w} : at'[v] = at[v]
       /\ at' \in [Workers -> NoticePlaces] /\ overlap' = overlap /\ failures' = failures
  BY <1>1, <1>3, ArriveIs
<1>11. /\ errand'[w].left = L /\ errand'[w].notice = n
       /\ \A v \in Workers \ {w} : errand'[v] = errand[v]
       /\ errand' \in [Workers -> NoticeErrands]
  BY <1>1, <1>2, LeftIs
<1>12. NoticeColumns'
  BY <1>1, <1>7, <1>8, <1>10, <1>11 DEF NoticeColumns, channelJobs
<1>13. About(w, n)
  BY <1>1, <1>8, <1>10, <1>11 DEF About, NoticeColumns
<1>14. errand'[w].left \subseteq errand[w].left
  BY <1>11 DEF L
<1>15. QED
  BY <1>1, <1>3, <1>9, <1>10, <1>11, <1>12, <1>13, <1>14

LEMMA HandDoes ==
    ASSUME NoticeColumns, NEW w \in Workers, NEW n \in Notices, n = errand[w].notice,
           Clocked(n), Manned(n), NEW c \in Channels, Hand(w, c)
    PROVE  /\ NoticeColumns' /\ About(w, n) /\ failures' = failures
           /\ at[w] = "hand" /\ errand'[w].notice = n
           /\ at'[w] \in {"hand", "sent"} /\ (at'[w] = "sent" => errand'[w].left = {})
           /\ errand'[w].left \subseteq errand[w].left
           /\ \A ch \in Channels :
                 \/ handed'[n][ch] = handed[n][ch] /\ (ch \in errand'[w].left <=> ch \in errand[w].left)
                 \/ /\ handed'[n][ch] = handed[n][ch] + 1
                    /\ ch \in errand[w].left /\ ch \notin errand'[w].left
           /\ UNCHANGED <<notice, timer, muted>>
           /\ buffer' = buffer
<1> DEFINE L == errand[w].left \ {c}
           place == IF errand[w].left = {c} THEN "sent" ELSE "hand"
           more == [handed[n] EXCEPT ![c] = handed[n][c] + 1]
<1>1. /\ at[w] = "hand" /\ c \in errand[w].left /\ Arrive(w, place)
      /\ errand' = [errand EXCEPT ![w].left = L]
      /\ dispatches' = dispatches \cup {<<n, timer[n].run, c>>}
      /\ UNCHANGED <<notice, timer, lost, got, digests, muted>>
      /\ handed' = [handed EXCEPT ![n] = more]
  BY DEF Hand, NoticeColumns
<1>2. errand[w].left \in SUBSET Channels /\ L \in SUBSET Channels
  BY DEF NoticeColumns, NoticeErrands
<1>3. place \in NoticePlaces /\ place \in {"hand", "sent"} /\ (place = "sent" => L = {})
  BY DEF NoticePlaces, Delivery
<1>4. timer[n].run \in Runs
  <2>1. OnJob(w, n)
    BY <1>1 DEF OnJob, On, Off, Delivery, Flush
  <2>2. QED
    BY <2>1, RunTyped
<1>5. handed[n] \in [Channels -> Nat] /\ more \in [Channels -> Nat]
  BY DEF NoticeColumns
<1>6. dispatches' \in SUBSET ChannelJobs
  BY <1>1, <1>4 DEF NoticeColumns, ChannelJobs
<1>7. /\ handed' \in [Notices -> [Channels -> Nat]] /\ handed'[n] = more
      /\ \A m \in Notices \ {n} : handed'[m] = handed[m]
  BY <1>1, <1>5 DEF NoticeColumns
<1>8. ASSUME NEW ch \in Channels
      PROVE  \/ handed'[n][ch] = handed[n][ch] /\ (ch \in L <=> ch \in errand[w].left)
             \/ handed'[n][ch] = handed[n][ch] + 1 /\ ch \in errand[w].left /\ ch \notin L
  BY <1>1, <1>5, <1>7
<1> HIDE DEF L, place, more
<1>9. /\ at'[w] = place /\ \A v \in Workers \ {w} : at'[v] = at[v]
      /\ at' \in [Workers -> NoticePlaces] /\ overlap' = overlap /\ failures' = failures
  BY <1>1, <1>3, ArriveIs
<1>10. /\ errand'[w].left = L /\ errand'[w].notice = n
       /\ \A v \in Workers \ {w} : errand'[v] = errand[v]
       /\ errand' \in [Workers -> NoticeErrands]
  BY <1>1, <1>2, LeftIs
<1>11. NoticeColumns'
  BY <1>1, <1>6, <1>7, <1>9, <1>10 DEF NoticeColumns, digests
<1>12. About(w, n)
  BY <1>1, <1>7, <1>9, <1>10 DEF About, NoticeColumns
<1>13. errand'[w].left \subseteq errand[w].left
  BY <1>10 DEF L
<1>14. QED
  BY <1>1, <1>3, <1>8, <1>9, <1>10, <1>11, <1>12, <1>13 DEF digests

LEMMA WriteSentDoes ==
    ASSUME NoticeColumns, NEW w \in Workers, NEW n \in Notices, n = errand[w].notice, WriteSent(w)
    PROVE  /\ NoticeColumns' /\ About(w, n) /\ failures' = failures
           /\ at[w] = "sent" /\ at'[w] = "idle"
           /\ notice'[n] = "SENT" /\ JobTurns(n, "done") /\ UNCHANGED tally
<1>1. at[w] = "sent" /\ Back(w) /\ UNCHANGED <<channelJobs, digests, tally>>
      /\ notice' = [notice EXCEPT ![n] = "SENT"] /\ timer' = [timer EXCEPT ![n].state = "done"]
  BY DEF WriteSent, Over
<1>2. /\ JobTurns(n, "done") /\ timer' \in [Notices -> Timers]
      /\ \A m \in Notices \ {n} : timer'[m] = timer[m]
  BY <1>1, StateIs DEF JobTurns
<1>3. QED
  BY <1>1, <1>2, BackIs DEF NoticeColumns, About, Off, channelJobs, digests, tally

LEMMA EngineThrowsDoes ==
    ASSUME NoticeColumns, NEW w \in Workers, NEW n \in Notices, n = errand[w].notice, EngineThrows(w)
    PROVE  /\ NoticeColumns' /\ About(w, n) /\ failures' = failures + 1
           /\ at[w] \in {"quiet", "digest", "hand", "sent"} /\ at'[w] = "failed" /\ errand' = errand
           /\ JobStays
<1>1. /\ at[w] \in {"quiet", "digest", "hand", "sent"} /\ Fails(w, "failed")
      /\ UNCHANGED <<errand, notice, timer, channelJobs, digests, tally>>
  BY DEF EngineThrows
<1>2. "failed" \in NoticePlaces
  BY DEF NoticePlaces, Delivery
<1>3. /\ at'[w] = "failed" /\ \A v \in Workers \ {w} : at'[v] = at[v]
      /\ at' \in [Workers -> NoticePlaces]
      /\ overlap' = overlap /\ failures' = failures + 1 /\ failures' \in Nat
  BY <1>1, <1>2, FailsIs
<1>4. QED
  BY <1>1, <1>3 DEF NoticeColumns, About, Off, channelJobs, digests, tally, JobStays, RowStays

\* What becomes of a job whose attempt failed.
AttemptLeft(n) == timer[n].run - Stalls(n) < Tries

LEMMA TryAgainIs ==
    ASSUME NoticeColumns, NEW n \in Notices, TryAgain(n)
    PROVE  /\ JobTurns(n, IF AttemptLeft(n) THEN "delayed" ELSE "done")
           /\ timer' \in [Notices -> Timers] /\ \A m \in Notices \ {n} : timer'[m] = timer[m]
<1> DEFINE s == IF AttemptLeft(n) THEN "delayed" ELSE "done"
<1>1. timer' = [timer EXCEPT ![n].state = s] /\ s \in {"none", "delayed", "active", "done"}
  BY DEF TryAgain, Attempts, AttemptLeft, Stalls
<1> HIDE DEF s
<1>2. JobTurns(n, s) /\ timer' \in [Notices -> Timers] /\ \A m \in Notices \ {n} : timer'[m] = timer[m]
  BY <1>1, StateIs DEF JobTurns
<1>3. QED
  BY <1>2 DEF s

LEMMA WriteFailedDoes ==
    ASSUME NoticeColumns, NEW w \in Workers, NEW n \in Notices, n = errand[w].notice, WriteFailed(w)
    PROVE  /\ NoticeColumns' /\ About(w, n) /\ failures' = failures
           /\ at[w] = "failed" /\ at'[w] = "idle"
           /\ notice'[n] = "FAILED" /\ UNCHANGED tally
           /\ JobTurns(n, IF AttemptLeft(n) THEN "delayed" ELSE "done")
<1>1. at[w] = "failed" /\ Back(w) /\ UNCHANGED <<channelJobs, digests, tally>>
      /\ notice' = [notice EXCEPT ![n] = "FAILED"] /\ TryAgain(n)
  BY DEF WriteFailed, AfterFailure
<1>2. /\ JobTurns(n, IF AttemptLeft(n) THEN "delayed" ELSE "done")
      /\ timer' \in [Notices -> Timers] /\ \A m \in Notices \ {n} : timer'[m] = timer[m]
  BY <1>1, TryAgainIs
<1>3. NoticeColumns'
  BY <1>1, <1>2, BackIs DEF NoticeColumns, channelJobs, digests, tally
<1>4. About(w, n)
  BY <1>1, <1>2, BackIs DEF NoticeColumns, About, Off, tally
<1>5. at'[w] = "idle" /\ failures' = failures /\ notice'[n] = "FAILED"
  BY <1>1, BackIs DEF NoticeColumns
<1>6. QED
  BY <1>1, <1>2, <1>3, <1>4, <1>5

LEMMA DeliverThrowsDoes ==
    ASSUME NoticeColumns, NEW w \in Workers, NEW n \in Notices, n = errand[w].notice, DeliverThrows(w)
    PROVE  /\ NoticeColumns' /\ About(w, n) /\ failures' = failures + 1
           /\ at[w] \in {"check", "failed"} /\ at'[w] = "idle"
           /\ RowStays /\ JobTurns(n, IF AttemptLeft(n) THEN "delayed" ELSE "done")
<1>1. /\ at[w] \in {"check", "failed"} /\ Fails(w, "idle") /\ TryAgain(n)
      /\ errand' = [errand EXCEPT ![w] = NoErrand]
      /\ UNCHANGED <<notice, channelJobs, digests, tally>>
  BY DEF DeliverThrows
<1>2. "idle" \in NoticePlaces
  BY DEF NoticePlaces, Off
<1>3. /\ at'[w] = "idle" /\ \A v \in Workers \ {w} : at'[v] = at[v]
      /\ at' \in [Workers -> NoticePlaces]
      /\ overlap' = overlap /\ failures' = failures + 1 /\ failures' \in Nat
  BY <1>1, <1>2, FailsIs
<1>4. (\A v \in Workers \ {w} : errand'[v] = errand[v]) /\ errand' \in [Workers -> NoticeErrands]
  BY <1>1, NoErrandTyped, ErrandIs
<1>5. /\ JobTurns(n, IF AttemptLeft(n) THEN "delayed" ELSE "done")
      /\ timer' \in [Notices -> Timers] /\ \A m \in Notices \ {n} : timer'[m] = timer[m]
  BY <1>1, TryAgainIs
<1>6. NoticeColumns'
  BY <1>1, <1>3, <1>4, <1>5 DEF NoticeColumns, channelJobs, digests, tally
<1>7. About(w, n)
  BY <1>1, <1>3, <1>4, <1>5 DEF About, Off, NoticeColumns, tally
<1>8. QED
  BY <1>1, <1>3, <1>5, <1>6, <1>7 DEF RowStays

LEMMA ErrandFailsDoes ==
    ASSUME NoticeColumns, Packed, NEW w \in Workers, NEW n \in Notices, n = errand[w].notice,
           ErrandFails(w)
    PROVE  /\ NoticeColumns' /\ About(w, n) /\ failures' = failures + 1
           /\ at[w] # "idle" /\ at'[w] = "idle"
           /\ RowStays /\ UNCHANGED digests
           /\ at[w] \notin Delivery => timer' = timer
           /\ at[w] \in Delivery =>
                 timer'[n] = [state |-> IF timer[n].stalled THEN "done" ELSE "delayed",
                              run |-> timer[n].run, stalled |-> TRUE]
<1> DEFINE s == IF timer[n].stalled THEN "done" ELSE "delayed"
           t == [timer[n] EXCEPT !.state = s, !.stalled = TRUE]
<1>1. /\ Fails(w, "idle")
      /\ timer' = IF at[w] \in Delivery
                  THEN [timer EXCEPT ![n].state = s, ![n].stalled = TRUE] ELSE timer
      /\ errand' = [errand EXCEPT ![w] = NoErrand]
      /\ UNCHANGED <<notice, got, digests, tally>>
  BY DEF ErrandFails, Delivery
<1>2. dispatches' \in SUBSET ChannelJobs /\ lost' \in SUBSET ChannelJobs
  <2>1. CASE at[w] = "channel" /\ PickedJob(w) \notin lost
    <3>1. dispatches' = dispatches \cup {PickedJob(w)} /\ lost' = lost \cup {PickedJob(w)}
      BY <2>1 DEF ErrandFails
    <3>2. PickedJob(w) \in ChannelJobs
      BY <2>1, PickedTyped
    <3>3. QED
      BY <3>1, <3>2 DEF NoticeColumns
  <2>2. CASE ~(at[w] = "channel" /\ PickedJob(w) \notin lost)
    <3>1. UNCHANGED <<dispatches, lost>>
      BY <2>2 DEF ErrandFails
    <3>2. QED
      BY <3>1 DEF NoticeColumns
  <2>3. QED
    BY <2>1, <2>2
<1>3. "idle" \in NoticePlaces
  BY DEF NoticePlaces, Off
<1>4. /\ at'[w] = "idle" /\ \A v \in Workers \ {w} : at'[v] = at[v]
      /\ at' \in [Workers -> NoticePlaces] /\ at[w] # "idle"
      /\ overlap' = overlap /\ failures' = failures + 1 /\ failures' \in Nat
  BY <1>1, <1>3, FailsIs
<1>5. (\A v \in Workers \ {w} : errand'[v] = errand[v]) /\ errand' \in [Workers -> NoticeErrands]
  BY <1>1, NoErrandTyped, ErrandIs
<1>6. /\ timer' \in [Notices -> Timers] /\ \A m \in Notices \ {n} : timer'[m] = timer[m]
      /\ at[w] \in Delivery => timer'[n] = [state |-> s, run |-> timer[n].run, stalled |-> TRUE]
  <2>1. CASE at[w] \in Delivery
    <3>1. timer[n] \in Timers
      BY DEF NoticeColumns
    <3>2. t = [state |-> s, run |-> timer[n].run, stalled |-> TRUE]
      BY <3>1, TimerFields
    <3>3. t \in Timers
      BY <3>1, <3>2 DEF Timers
    <3>4. timer' = [timer EXCEPT ![n] = t]
      BY <1>1, <2>1
    <3> HIDE DEF t, s
    <3>5. QED
      BY <3>2, <3>3, <3>4, TimerIs
  <2>2. CASE at[w] \notin Delivery
    BY <1>1, <2>2 DEF NoticeColumns
  <2>3. QED
    BY <2>1, <2>2
<1> HIDE DEF t, s
<1>7. NoticeColumns'
  BY <1>1, <1>2, <1>4, <1>5, <1>6 DEF NoticeColumns, digests, tally
<1>8. About(w, n)
  BY <1>1, <1>4, <1>5, <1>6 DEF About, Off, NoticeColumns, tally
<1>9. at[w] \notin Delivery => timer' = timer
  BY <1>1
<1>10. QED
  <2>1. at[w] \in Delivery =>
            timer'[n] = [state |-> IF timer[n].stalled THEN "done" ELSE "delayed",
                         run |-> timer[n].run, stalled |-> TRUE]
    BY <1>6 DEF s
  <2>2. QED
    BY <1>1, <1>4, <1>7, <1>8, <1>9, <2>1 DEF RowStays

\* A message that a page was part of counts for each of its entries.
LEMMA TellIs ==
    ASSUME NoticeColumns, NEW w \in Workers, NEW c \in Reading, Tell(w, c)
    PROVE  /\ told' \in [DigestEntries -> [Reading -> 0..MaxTold]]
           /\ \A x \in DigestEntries : \A ch \in Reading :
                 told'[x][ch] = IF x \in Page(w) /\ ch = c /\ told[x][ch] < MaxTold
                                THEN told[x][ch] + 1 ELSE told[x][ch]
<1> DEFINE more(x) == IF x \in Page(w) /\ told[x][c] < MaxTold
                      THEN [told[x] EXCEPT ![c] = @ + 1] ELSE told[x]
<1>1. told' = [x \in DigestEntries |-> more(x)]
  BY DEF Tell
<1>2. ASSUME NEW x \in DigestEntries
      PROVE  /\ more(x) \in [Reading -> 0..MaxTold]
             /\ \A ch \in Reading :
                   more(x)[ch] = IF x \in Page(w) /\ ch = c /\ told[x][ch] < MaxTold
                                 THEN told[x][ch] + 1 ELSE told[x][ch]
  <2>1. told[x] \in [Reading -> 0..MaxTold]
    BY DEF NoticeColumns
  <2>2. QED
    BY <2>1 DEF MaxTold
<1> HIDE DEF more
<1>3. QED
  BY <1>1, <1>2

\* The steps that leave all jobs alone.
LEMMA PickDoes ==
    ASSUME NoticeColumns, NEW w \in Workers, NEW d \in dispatches, Pick(w, d)
    PROVE  /\ NoticeColumns' /\ failures' = failures /\ overlap' = overlap
           /\ at[w] = "idle" /\ (overlap \/ w = OneWorker) /\ at'[w] = "channel"
           /\ \A v \in Workers \ {w} : at'[v] = at[v] /\ errand'[v] = errand[v]
           /\ \E x \in DigestEntries : errand'[w].batch = {x}
           /\ JobStays /\ UNCHANGED digests
<1> DEFINE x == <<d[1], d[2]>>
           e == [NoErrand EXCEPT !.notice = d[1], !.channel = d[3], !.batch = {x}]
<1>1. /\ Idle(w) /\ Arrive(w, "channel") /\ errand' = [errand EXCEPT ![w] = e]
      /\ dispatches' = dispatches \ {d} /\ UNCHANGED <<notice, timer, lost, got, digests, tally>>
  BY DEF Pick
<1>2. d[1] \in Notices /\ d[2] \in Runs /\ d[3] \in Channels
  BY DEF NoticeColumns, ChannelJobs
<1>3. x \in DigestEntries
  BY <1>2 DEF DigestEntries
<1> HIDE DEF x
<1>4. NoErrand \in NoticeErrands /\ {x} \in SUBSET DigestEntries
  BY <1>3, NoErrandTyped
<1>5. e \in NoticeErrands /\ e.batch = {x}
  BY <1>2, <1>4 DEF NoticeErrands
<1> HIDE DEF e
<1>6. errand'[w] = e /\ (\A v \in Workers \ {w} : errand'[v] = errand[v]) /\ errand' \in [Workers -> NoticeErrands]
  BY <1>1, <1>5, ErrandIs
<1>7. "channel" \in NoticePlaces
  BY DEF NoticePlaces, Off
<1>8. /\ at'[w] = "channel" /\ \A v \in Workers \ {w} : at'[v] = at[v]
      /\ at' \in [Workers -> NoticePlaces] /\ overlap' = overlap /\ failures' = failures
  BY <1>1, <1>7, ArriveIs
<1>9. dispatches' \in SUBSET ChannelJobs
  BY <1>1 DEF NoticeColumns
<1>10. NoticeColumns'
  BY <1>1, <1>6, <1>8, <1>9 DEF NoticeColumns, digests, tally
<1>11. \E y \in DigestEntries : errand'[w].batch = {y}
  BY <1>3, <1>5, <1>6
<1>12. QED
  BY <1>1, <1>6, <1>8, <1>10, <1>11 DEF Idle, JobStays, RowStays

LEMMA SendOutDoes ==
    ASSUME NoticeColumns, Packed, NEW w \in Workers, SendOut(w)
    PROVE  /\ NoticeColumns' /\ failures' = failures /\ overlap' = overlap
           /\ at[w] = "channel" /\ at'[w] = "idle"
           /\ \A v \in Workers \ {w} : at'[v] = at[v] /\ errand'[v] = errand[v]
           /\ JobStays /\ UNCHANGED digests
<1>1. /\ at[w] = "channel" /\ got' = got \cup {PickedJob(w)} /\ Back(w)
      /\ UNCHANGED <<notice, timer, dispatches, lost, digests, tally>>
  BY DEF SendOut
<1>2. got' \in SUBSET ChannelJobs
  BY <1>1, PickedTyped DEF NoticeColumns
<1>3. QED
  BY <1>1, <1>2, BackIs DEF NoticeColumns, digests, tally, JobStays, RowStays

LEMMA ScanDoes ==
    ASSUME NoticeColumns, NEW w \in Workers, Scan(w)
    PROVE  /\ NoticeColumns' /\ failures' = failures /\ overlap' = overlap
           /\ at[w] = "idle" /\ (overlap \/ w = OneWorker) /\ at'[w] = "mail"
           /\ \A v \in Workers \ {w} : at'[v] = at[v] /\ errand'[v] = errand[v]
           /\ errand'[w].batch = buffer
           /\ JobStays /\ UNCHANGED digests
<1> DEFINE e == [NoErrand EXCEPT !.batch = buffer]
<1>1. /\ Idle(w) /\ Arrive(w, "mail") /\ errand' = [errand EXCEPT ![w] = e]
      /\ UNCHANGED <<notice, timer, channelJobs, digests, tally>>
  BY DEF Scan
<1>2. e \in NoticeErrands /\ e.batch = buffer
  <2>1. NoErrand \in NoticeErrands /\ buffer \in SUBSET DigestEntries
    BY NoErrandTyped DEF NoticeColumns
  <2>2. QED
    BY <2>1 DEF NoticeErrands
<1> HIDE DEF e
<1>3. errand'[w] = e /\ (\A v \in Workers \ {w} : errand'[v] = errand[v]) /\ errand' \in [Workers -> NoticeErrands]
  BY <1>1, <1>2, ErrandIs
<1>4. "mail" \in NoticePlaces
  BY DEF NoticePlaces, Off, Flush
<1>5. /\ at'[w] = "mail" /\ \A v \in Workers \ {w} : at'[v] = at[v]
      /\ at' \in [Workers -> NoticePlaces] /\ overlap' = overlap /\ failures' = failures
  BY <1>1, <1>4, ArriveIs
<1>6. NoticeColumns'
  BY <1>1, <1>3, <1>5 DEF NoticeColumns, channelJobs, digests, tally
<1>7. QED
  BY <1>1, <1>2, <1>3, <1>5, <1>6 DEF Idle, JobStays, RowStays

\* A flush goes from channel to channel and from page to page.
TellsPage(w, c) ==
    \A x \in DigestEntries : \A ch \in Reading :
        told'[x][ch] = IF x \in Page(w) /\ ch = c /\ told[x][ch] < MaxTold
                       THEN told[x][ch] + 1 ELSE told[x][ch]

LEMMA MailDoes ==
    ASSUME NoticeColumns, NEW w \in Workers, Mail(w)
    PROVE  /\ NoticeColumns' /\ failures' = failures /\ overlap' = overlap
           /\ at[w] = "mail" /\ at'[w] = "text" /\ errand' = errand
           /\ \A v \in Workers \ {w} : at'[v] = at[v]
           /\ JobStays /\ buffer' = buffer
           /\ (Wanted(w, "email") /\ TellsPage(w, "email")) \/ (~Wanted(w, "email") /\ told' = told)
<1>1. /\ at[w] = "mail" /\ GoOn(w, "text") /\ UNCHANGED <<notice, timer, channelJobs, buffer, tally>>
      /\ IF Wanted(w, "email") THEN Tell(w, "email") ELSE told' = told
  BY DEF Mail
<1>2. "text" \in NoticePlaces /\ "email" \in Reading
  BY DEF NoticePlaces, Off, Flush, Reading
<1>3. /\ told' \in [DigestEntries -> [Reading -> 0..MaxTold]]
      /\ (Wanted(w, "email") /\ TellsPage(w, "email")) \/ (~Wanted(w, "email") /\ told' = told)
  <2>1. CASE Wanted(w, "email")
    BY <1>1, <1>2, <2>1, TellIs DEF TellsPage
  <2>2. CASE ~Wanted(w, "email")
    BY <1>1, <2>2 DEF NoticeColumns
  <2>3. QED
    BY <2>1, <2>2
<1>4. /\ at'[w] = "text" /\ errand' = errand /\ \A v \in Workers \ {w} : at'[v] = at[v]
      /\ at' \in [Workers -> NoticePlaces] /\ overlap' = overlap /\ failures' = failures
  BY <1>1, <1>2, GoOnIs
<1>5. NoticeColumns'
  BY <1>1, <1>3, <1>4 DEF NoticeColumns, channelJobs, tally
<1>6. QED
  BY <1>1, <1>3, <1>4, <1>5 DEF JobStays, RowStays

LEMMA TextDoes ==
    ASSUME NoticeColumns, NEW w \in Workers, Text(w)
    PROVE  /\ NoticeColumns' /\ failures' = failures /\ overlap' = overlap
           /\ at[w] = "text" /\ at'[w] = "drop" /\ errand' = errand
           /\ \A v \in Workers \ {w} : at'[v] = at[v]
           /\ JobStays /\ buffer' = buffer
           /\ (Wanted(w, "sms") /\ TellsPage(w, "sms")) \/ (~Wanted(w, "sms") /\ told' = told)
<1>1. /\ at[w] = "text" /\ GoOn(w, "drop") /\ UNCHANGED <<notice, timer, channelJobs, buffer, tally>>
      /\ IF Wanted(w, "sms") THEN Tell(w, "sms") ELSE told' = told
  BY DEF Text
<1>2. "drop" \in NoticePlaces /\ "sms" \in Reading
  BY DEF NoticePlaces, Off, Flush, Reading
<1>3. /\ told' \in [DigestEntries -> [Reading -> 0..MaxTold]]
      /\ (Wanted(w, "sms") /\ TellsPage(w, "sms")) \/ (~Wanted(w, "sms") /\ told' = told)
  <2>1. CASE Wanted(w, "sms")
    BY <1>1, <1>2, <2>1, TellIs DEF TellsPage
  <2>2. CASE ~Wanted(w, "sms")
    BY <1>1, <2>2 DEF NoticeColumns
  <2>3. QED
    BY <2>1, <2>2
<1>4. /\ at'[w] = "drop" /\ errand' = errand /\ \A v \in Workers \ {w} : at'[v] = at[v]
      /\ at' \in [Workers -> NoticePlaces] /\ overlap' = overlap /\ failures' = failures
  BY <1>1, <1>2, GoOnIs
<1>5. NoticeColumns'
  BY <1>1, <1>3, <1>4 DEF NoticeColumns, channelJobs, tally
<1>6. QED
  BY <1>1, <1>3, <1>4, <1>5 DEF JobStays, RowStays

LEMMA DropDoes ==
    ASSUME NoticeColumns, NEW w \in Workers, Drop(w)
    PROVE  /\ NoticeColumns' /\ failures' = failures /\ overlap' = overlap
           /\ at[w] = "drop"
           /\ at'[w] = "idle" \/ (at'[w] = "mail" /\ errand'[w].batch = errand[w].batch \ Page(w))
           /\ \A v \in Workers \ {w} : at'[v] = at[v] /\ errand'[v] = errand[v]
           /\ JobStays /\ buffer' = buffer \ Page(w) /\ told' = told
<1>1. /\ at[w] = "drop" /\ buffer' = buffer \ Page(w)
      /\ UNCHANGED <<notice, timer, channelJobs, told, tally>>
  BY DEF Drop, Dropped
<1>2. buffer' \in SUBSET DigestEntries
  BY <1>1 DEF NoticeColumns
<1>3. CASE errand[w].batch = Page(w)
  <2>1. Back(w)
    BY <1>3 DEF Drop
  <2>2. QED
    BY <1>1, <1>2, <2>1, BackIs DEF NoticeColumns, channelJobs, tally, JobStays, RowStays
<1>4. CASE errand[w].batch # Page(w)
  <2> DEFINE e == [errand[w] EXCEPT !.batch = errand[w].batch \ Page(w)]
  <2>1. Arrive(w, "mail") /\ errand' = [errand EXCEPT ![w] = e]
    BY <1>4 DEF Drop
  <2>2. e \in NoticeErrands /\ e.batch = errand[w].batch \ Page(w)
    BY DEF NoticeColumns, NoticeErrands
  <2> HIDE DEF e
  <2>3. errand'[w] = e /\ (\A v \in Workers \ {w} : errand'[v] = errand[v]) /\ errand' \in [Workers -> NoticeErrands]
    BY <2>1, <2>2, ErrandIs
  <2>4. "mail" \in NoticePlaces
    BY DEF NoticePlaces, Off, Flush
  <2>5. /\ at'[w] = "mail" /\ \A v \in Workers \ {w} : at'[v] = at[v]
        /\ at' \in [Workers -> NoticePlaces] /\ overlap' = overlap /\ failures' = failures
    BY <2>1, <2>4, ArriveIs
  <2>6. NoticeColumns'
    BY <1>1, <1>2, <2>3, <2>5 DEF NoticeColumns, channelJobs, tally
  <2>7. QED
    BY <1>1, <2>2, <2>3, <2>5, <2>6 DEF JobStays, RowStays
<1>5. QED
  BY <1>3, <1>4

-----------------------------------------------------------------------------
(* Jobs are kept: by the steps about other notices, and by each step about this one *)

\* A step of w that has nothing to do with m.
Untouched(w, m) ==
    /\ \A v \in Workers \ {w} : at'[v] = at[v] /\ errand'[v] = errand[v]
    /\ ~On(w, m) /\ ~On(w, m)'
    /\ notice'[m] = notice[m] /\ timer'[m] = timer[m] /\ handed'[m] = handed[m]
    /\ muted \subseteq muted'
    /\ overlap' = overlap /\ failures' \in Nat /\ failures <= failures'

LEMMA JobUntouched ==
    ASSUME NoticeColumns, NEW w \in Workers, NEW m \in Notices, Untouched(w, m), JobOf(m)
    PROVE  JobOf(m)'
<1>1. ASSUME NEW v \in Workers
      PROVE  /\ On(v, m)' <=> On(v, m)
             /\ On(v, m) => at'[v] = at[v] /\ errand'[v] = errand[v]
  BY DEF Untouched, On
<1>2. \A v \in Workers : OnJob(v, m)' <=> OnJob(v, m)
  BY <1>1 DEF OnJob
<1>3. notice'[m] = notice[m] /\ timer'[m] = timer[m] /\ handed'[m] = handed[m]
  BY DEF Untouched
<1>4. failures \in Nat /\ failures' \in Nat /\ failures <= failures' /\ overlap' = overlap
  BY DEF Untouched, NoticeColumns
<1>5. Stalls(m)' = Stalls(m) /\ Stalls(m) \in Nat
  BY <1>3 DEF Stalls
<1>6. Clocked(m)'
  BY <1>3, <1>4, <1>5 DEF JobOf, Clocked
<1>7. Manned(m)'
  BY <1>1, <1>2, <1>3 DEF JobOf, Manned
<1>8. Reaching(m)'
  <2>1. \A ch \in Channels : Given(m, ch) => Given(m, ch)'
    BY <1>3 DEF Untouched, Given
  <2>2. ChannelsOf[m] \in SUBSET Channels
    BY NoticesAssumption
  <2>3. QED
    BY <1>1, <1>3, <2>1, <2>2 DEF JobOf, Reaching
<1>9. ASSUME NEW ch \in Channels PROVE Spent(m, ch)'
  <2>1. Open(m, ch)' <=> Open(m, ch)
    BY <1>1, <1>3 DEF Open
  <2>2. Failing(m)' <=> Failing(m)
    BY <1>1 DEF Failing
  <2>3. Spent(m, ch) /\ handed[m][ch] \in Nat /\ handed'[m][ch] = handed[m][ch]
    BY <1>3 DEF JobOf, NoticeColumns
  <2>4. QED
    BY <1>4, <1>5, <2>1, <2>2, <2>3 DEF Spent
<1>10. failures' = 0 => Unfailed(m)' /\ (~overlap' => Uncancelled(m)')
  <2>1. SUFFICES ASSUME failures' = 0 PROVE Unfailed(m)' /\ (~overlap' => Uncancelled(m)')
    OBVIOUS
  <2>2. Unfailed(m) /\ (~overlap => Uncancelled(m))
    BY <1>4, <2>1 DEF JobOf
  <2>3. Unhanded(m)' <=> Unhanded(m)
    BY <1>3 DEF Unhanded
  <2>4. Unfailed(m)'
    BY <1>3, <2>2, <2>3 DEF Unfailed
  <2>5. ~overlap' => Uncancelled(m)'
    BY <1>1, <1>3, <1>4, <2>2, <2>3 DEF Uncancelled
  <2>6. QED
    BY <2>4, <2>5
<1>11. QED
  BY <1>6, <1>7, <1>8, <1>9, <1>10 DEF JobOf

\* The others stay where they are.
LEMMA OthersStay ==
    ASSUME NEW w \in Workers, NEW n \in Notices, About(w, n)
    PROVE  \A v \in Workers \ {w} :
              /\ at'[v] = at[v] /\ errand'[v] = errand[v]
              /\ On(v, n)' <=> On(v, n)
              /\ OnJob(v, n)' <=> OnJob(v, n)
BY DEF About, On, OnJob

LEMMA JobScheduled ==
    ASSUME NoticeColumns, NEW w \in Workers, NEW n \in Notices, JobOf(n), Schedule(w, n)
    PROVE  JobOf(n)'
<1>1. /\ NoticeColumns' /\ About(w, n) /\ failures' = failures
      /\ at[w] = "idle" /\ at'[w] = "timer" /\ errand'[w].notice = n
      /\ notice[n] = "none" /\ notice'[n] = "PENDING"
      /\ UNCHANGED <<timer, muted, handed>> /\ overlap' = overlap
  BY ScheduleDoes DEF tally, About
<1>2. \A v \in Workers \ {w} :
              /\ at'[v] = at[v] /\ errand'[v] = errand[v]
              /\ On(v, n)' <=> On(v, n)
              /\ OnJob(v, n)' <=> OnJob(v, n)
  BY <1>1, OthersStay
<1>3. ~On(w, n) /\ On(w, n)' /\ ~OnJob(w, n) /\ ~OnJob(w, n)'
  BY <1>1 DEF On, OnJob, Off, Delivery, Flush
<1>4. timer[n] = NoTimer /\ NoTimer.state = "none"
  BY <1>1 DEF JobOf, Manned, NoTimer
<1>5. Clocked(n)'
  BY <1>1 DEF JobOf, Clocked, Stalls
<1>6. \A v \in Workers : ~(On(v, n) /\ at[v] = "timer")
  BY <1>1 DEF JobOf, Manned
<1>7. Manned(n)'
  BY <1>1, <1>2, <1>3, <1>4, <1>6 DEF JobOf, Manned
<1>8. Reaching(n)'
  BY <1>1, <1>2, <1>3 DEF JobOf, Reaching, Given
<1>9. ASSUME NEW ch \in Channels PROVE Spent(n, ch)'
  <2>1. Open(n, ch)
    BY <1>1 DEF Open
  <2>2. Stalls(n)' = Stalls(n) /\ Stalls(n) \in Nat /\ failures \in Nat /\ handed[n][ch] \in Nat
    BY <1>1 DEF Stalls, NoticeColumns
  <2>3. QED
    BY <1>1, <2>1, <2>2 DEF JobOf, Spent
<1>10. failures' = 0 => Unfailed(n)' /\ (~overlap' => Uncancelled(n)')
  <2>1. SUFFICES ASSUME failures' = 0 PROVE Unfailed(n)' /\ (~overlap' => Uncancelled(n)')
    OBVIOUS
  <2>2. Unhanded(n)
    BY <1>1, <1>4, <2>1 DEF JobOf, Unfailed
  <2>3. Unhanded(n)'
    BY <1>1, <2>2 DEF Unhanded
  <2>4. Unfailed(n)'
    BY <1>1, <1>4, <2>3 DEF Unfailed
  <2>5. \A v \in Workers : ~OnJob(v, n)
    BY <1>4 DEF JobOf, Manned
  <2>6. Uncancelled(n)'
    BY <1>1, <1>2, <2>3, <2>5 DEF Uncancelled, OnJob, Delivery
  <2>7. QED
    BY <2>4, <2>6
<1>11. QED
  BY <1>5, <1>7, <1>8, <1>9, <1>10 DEF JobOf

LEMMA JobTimed ==
    ASSUME NoticeColumns, NEW w \in Workers, NEW n \in Notices, n = errand[w].notice, JobOf(n), SetTimer(w)
    PROVE  JobOf(n)'
<1>1. /\ NoticeColumns' /\ About(w, n) /\ failures' = failures
      /\ at[w] = "timer" /\ at'[w] = "idle"
      /\ notice' = notice /\ muted' = muted /\ handed' = handed /\ overlap' = overlap
      /\ JobTurns(n, "delayed")
  BY SetTimerDoes DEF tally, About, RowStays
<1>2. \A v \in Workers \ {w} :
              /\ at'[v] = at[v] /\ errand'[v] = errand[v]
              /\ On(v, n)' <=> On(v, n)
              /\ OnJob(v, n)' <=> OnJob(v, n)
  BY <1>1, OthersStay
<1>3. On(w, n) /\ ~On(w, n)' /\ ~OnJob(w, n) /\ ~OnJob(w, n)'
  BY <1>1 DEF On, OnJob, Off, Delivery, Flush
<1>4. timer[n] = NoTimer /\ notice[n] # "none" /\ \A v \in Workers \ {w} : ~(On(v, n) /\ at[v] = "timer")
  BY <1>1, <1>3 DEF JobOf, Manned
<1>5. timer'[n] = [state |-> "delayed", run |-> 0, stalled |-> FALSE] /\ Stalls(n) = 0 /\ Stalls(n)' = 0
  BY <1>1, <1>4 DEF JobTurns, NoTimer, Stalls
<1>6. Clocked(n)'
  BY <1>5, NoticesAssumption DEF Clocked
<1>7. \A v \in Workers : ~OnJob(v, n) /\ ~OnJob(v, n)'
  <2>1. timer[n].state # "active"
    BY <1>4 DEF NoTimer
  <2>2. QED
    BY <1>2, <1>3, <2>1 DEF JobOf, Manned
<1>8. Manned(n)'
  BY <1>1, <1>2, <1>3, <1>4, <1>5, <1>7 DEF Manned
<1>9. Reaching(n)'
  BY <1>1, <1>2, <1>3 DEF JobOf, Reaching, Given
<1>10. ASSUME NEW ch \in Channels PROVE Spent(n, ch)'
  <2>1. Open(n, ch)
    BY <1>1, <1>3 DEF Open
  <2>2. failures \in Nat /\ handed[n][ch] \in Nat
    BY DEF NoticeColumns
  <2>3. QED
    BY <1>1, <1>5, <2>1, <2>2 DEF JobOf, Spent
<1>11. failures' = 0 => Unfailed(n)' /\ (~overlap' => Uncancelled(n)')
  <2>1. SUFFICES ASSUME failures' = 0 PROVE Unfailed(n)' /\ (~overlap' => Uncancelled(n)')
    OBVIOUS
  <2>2. Unhanded(n)' <=> Unhanded(n)
    BY <1>1 DEF Unhanded
  <2>3. Unfailed(n)'
    BY <1>1, <1>4, <1>5, <2>1, <2>2 DEF JobOf, Unfailed, NoTimer
  <2>4. ~overlap' => Uncancelled(n)'
    BY <1>1, <1>2, <1>3, <2>1, <2>2 DEF JobOf, Uncancelled
  <2>5. QED
    BY <2>3, <2>4
<1>12. QED
  BY <1>6, <1>8, <1>9, <1>10, <1>11 DEF JobOf

\* One call at a time nobody works on a job when a call begins.
LEMMA JobCancelled ==
    ASSUME NoticeColumns, OneAtWork, NEW w \in Workers, NEW n \in Notices, JobOf(n), Cancel(w, n)
    PROVE  JobOf(n)'
<1>1. /\ NoticeColumns' /\ About(w, n) /\ failures' = failures /\ overlap' = overlap
      /\ at[w] = "idle" /\ (overlap \/ w = OneWorker)
      /\ at'[w] = "remove" /\ errand'[w].notice = n
      /\ notice[n] = "PENDING" /\ UNCHANGED <<notice, muted, handed, timer>>
  BY CancelDoes DEF tally, About, RowStays, JobStays
<1>2. \A v \in Workers \ {w} :
              /\ at'[v] = at[v] /\ errand'[v] = errand[v]
              /\ On(v, n)' <=> On(v, n)
              /\ OnJob(v, n)' <=> OnJob(v, n)
  BY <1>1, OthersStay
<1>3. ~On(w, n) /\ ~OnJob(w, n) /\ ~OnJob(w, n)' /\ On(w, n)'
  BY <1>1 DEF On, OnJob, Off, Delivery, Flush
<1>4. Clocked(n)' /\ Stalls(n)' = Stalls(n)
  BY <1>1 DEF JobOf, Clocked, Stalls
<1>5. Manned(n)'
  BY <1>1, <1>2, <1>3 DEF JobOf, Manned
<1>6. Reaching(n)'
  BY <1>1, <1>2, <1>3 DEF JobOf, Reaching, Given
<1>7. ASSUME NEW ch \in Channels PROVE Spent(n, ch)'
  <2>1. Open(n, ch)' <=> Open(n, ch)
    BY <1>1, <1>2, <1>3 DEF Open
  <2>2. Failing(n)' <=> Failing(n)
    BY <1>1, <1>2, <1>3 DEF Failing
  <2>3. QED
    BY <1>1, <1>4, <2>1, <2>2 DEF JobOf, Spent
<1>8. failures' = 0 => Unfailed(n)' /\ (~overlap' => Uncancelled(n)')
  <2>1. SUFFICES ASSUME failures' = 0 PROVE Unfailed(n)' /\ (~overlap' => Uncancelled(n)')
    OBVIOUS
  <2>2. Unhanded(n)' <=> Unhanded(n)
    BY <1>1 DEF Unhanded
  <2>3. Unfailed(n)'
    BY <1>1, <2>1, <2>2 DEF JobOf, Unfailed
  <2>4. ASSUME ~overlap' PROVE Uncancelled(n)'
    <3>1. \A v \in Workers : at[v] = "idle"
      BY <1>1, <2>4 DEF OneAtWork
    <3>2. timer[n].state # "active"
      BY <3>1 DEF JobOf, Manned, OnJob, On, Off
    <3>3. Unhanded(n)
      BY <1>1, <2>1, <3>2 DEF JobOf, Unfailed
    <3>4. QED
      BY <1>1, <1>2, <2>2, <3>1, <3>3 DEF Uncancelled
  <2>5. QED
    BY <2>3, <2>4
<1>9. QED
  BY <1>4, <1>5, <1>6, <1>7, <1>8 DEF JobOf

LEMMA JobRemoved ==
    ASSUME NoticeColumns, NEW w \in Workers, NEW n \in Notices, n = errand[w].notice, JobOf(n), RemoveTimer(w)
    PROVE  JobOf(n)'
<1>1. /\ NoticeColumns' /\ About(w, n) /\ failures' = failures /\ overlap' = overlap
      /\ at[w] = "remove" /\ UNCHANGED <<notice, muted, handed>>
      /\ \/ at'[w] = "idle" /\ timer'[n] = timer[n]
         \/ /\ timer[n].state # "active" /\ JobTurns(n, "none")
            /\ at'[w] = "cancel" /\ errand' = errand
  BY RemoveTimerDoes DEF tally, About, RowStays
<1>2. \A v \in Workers \ {w} :
              /\ at'[v] = at[v] /\ errand'[v] = errand[v]
              /\ On(v, n)' <=> On(v, n)
              /\ OnJob(v, n)' <=> OnJob(v, n)
  BY <1>1, OthersStay
<1>3. On(w, n) /\ ~OnJob(w, n) /\ ~OnJob(w, n)' /\ at'[w] \in {"idle", "cancel"}
  BY <1>1 DEF On, OnJob, Off, Delivery, Flush
<1>4. /\ timer'[n].run = timer[n].run /\ timer'[n].stalled = timer[n].stalled
      /\ timer'[n].state = timer[n].state \/ (timer'[n].state = "none" /\ timer[n].state # "active")
      /\ timer[n] = NoTimer => timer'[n] = NoTimer
  BY <1>1 DEF JobTurns, NoTimer
<1>5. Clocked(n)' /\ Stalls(n)' = Stalls(n)
  BY <1>1, <1>4 DEF JobOf, Clocked, Stalls
<1>6. Manned(n)'
  BY <1>1, <1>2, <1>3, <1>4 DEF JobOf, Manned
<1>7. Reaching(n)'
  BY <1>1, <1>2, <1>3 DEF JobOf, Reaching, Given
<1>8. ASSUME NEW ch \in Channels PROVE Spent(n, ch)'
  <2>1. Open(n, ch)' => Open(n, ch)
    BY <1>1, <1>2, <1>3, <1>4 DEF Open
  <2>2. Failing(n)' <=> Failing(n)
    BY <1>1, <1>2, <1>3 DEF Failing
  <2>3. failures \in Nat /\ handed[n][ch] \in Nat /\ Stalls(n) \in Nat
    BY DEF NoticeColumns, Stalls
  <2>4. QED
    BY <1>1, <1>5, <2>1, <2>2, <2>3 DEF JobOf, Spent
<1>9. failures' = 0 => Unfailed(n)' /\ (~overlap' => Uncancelled(n)')
  <2>1. SUFFICES ASSUME failures' = 0 PROVE Unfailed(n)' /\ (~overlap' => Uncancelled(n)')
    OBVIOUS
  <2>2. Unhanded(n)' <=> Unhanded(n)
    BY <1>1 DEF Unhanded
  <2>3. Unfailed(n)'
    BY <1>1, <1>4, <2>1, <2>2 DEF JobOf, Unfailed
  <2>4. ~overlap' => Uncancelled(n)'
    BY <1>1, <1>2, <1>3, <2>1, <2>2 DEF JobOf, Uncancelled
  <2>5. QED
    BY <2>3, <2>4
<1>10. QED
  BY <1>5, <1>6, <1>7, <1>8, <1>9 DEF JobOf

LEMMA JobMarkedCancelled ==
    ASSUME NoticeColumns, OneAtWork, NEW w \in Workers, NEW n \in Notices, n = errand[w].notice, JobOf(n),
           WriteCancelled(w)
    PROVE  JobOf(n)'
<1>1. /\ NoticeColumns' /\ About(w, n) /\ failures' = failures /\ overlap' = overlap
      /\ at[w] = "cancel" /\ at'[w] = "idle"
      /\ notice'[n] = "CANCELLED" /\ UNCHANGED <<timer, muted, handed>>
  BY WriteCancelledDoes DEF tally, About
<1>2. \A v \in Workers \ {w} :
              /\ at'[v] = at[v] /\ errand'[v] = errand[v]
              /\ On(v, n)' <=> On(v, n)
              /\ OnJob(v, n)' <=> OnJob(v, n)
  BY <1>1, OthersStay
<1>3. On(w, n) /\ ~On(w, n)' /\ ~OnJob(w, n) /\ ~OnJob(w, n)'
  BY <1>1 DEF On, OnJob, Off, Delivery, Flush
<1>4. Clocked(n)' /\ Stalls(n)' = Stalls(n)
  BY <1>1 DEF JobOf, Clocked, Stalls
<1>5. Manned(n)'
  BY <1>1, <1>2, <1>3 DEF JobOf, Manned
<1>6. Reaching(n)'
  BY <1>1, <1>2, <1>3 DEF JobOf, Reaching, Given
<1>7. ASSUME NEW ch \in Channels PROVE Spent(n, ch)'
  <2>1. Open(n, ch)' => Open(n, ch)
    BY <1>1, <1>2, <1>3 DEF Open
  <2>2. Failing(n)' <=> Failing(n)
    BY <1>1, <1>2, <1>3 DEF Failing
  <2>3. failures \in Nat /\ handed[n][ch] \in Nat /\ Stalls(n) \in Nat
    BY DEF NoticeColumns, Stalls
  <2>4. QED
    BY <1>1, <1>4, <2>1, <2>2, <2>3 DEF JobOf, Spent
<1>8. failures' = 0 => Unfailed(n)' /\ (~overlap' => Uncancelled(n)')
  <2>1. SUFFICES ASSUME failures' = 0 PROVE Unfailed(n)' /\ (~overlap' => Uncancelled(n)')
    OBVIOUS
  <2>2. Unhanded(n)' <=> Unhanded(n)
    BY <1>1 DEF Unhanded
  <2>3. Unfailed(n)'
    BY <1>1 DEF Unfailed
  <2>4. ASSUME ~overlap' PROVE Uncancelled(n)'
    <3>1. \A v \in Workers : ~On(v, n)'
      BY <1>1, <1>2, <1>3, <2>4 DEF OneAtWork, On, Off
    <3>2. Unhanded(n)
      BY <1>1, <1>3, <2>1, <2>4 DEF JobOf, Uncancelled
    <3>3. QED
      BY <2>2, <3>1, <3>2 DEF Uncancelled
  <2>5. QED
    BY <2>3, <2>4
<1>9. QED
  BY <1>4, <1>5, <1>6, <1>7, <1>8 DEF JobOf

LEMMA JobFired ==
    ASSUME NoticeColumns, NEW w \in Workers, NEW n \in Notices, JobOf(n), Fire(w, n)
    PROVE  JobOf(n)'
<1>1. /\ NoticeColumns' /\ About(w, n) /\ failures' = failures /\ overlap' = overlap
      /\ at[w] = "idle" /\ at'[w] = "check" /\ errand'[w].notice = n
      /\ timer[n].state = "delayed"
      /\ timer'[n] = [state |-> "active", run |-> timer[n].run + 1, stalled |-> timer[n].stalled]
      /\ UNCHANGED <<notice, muted, handed>>
  BY FireDoes DEF tally, About, RowStays
<1>2. \A v \in Workers \ {w} :
              /\ at'[v] = at[v] /\ errand'[v] = errand[v]
              /\ On(v, n)' <=> On(v, n)
              /\ OnJob(v, n)' <=> OnJob(v, n)
  BY <1>1, OthersStay
<1>3. ~On(w, n) /\ ~OnJob(w, n) /\ OnJob(w, n)' /\ On(w, n)'
  BY <1>1 DEF On, OnJob, Off, Delivery, Flush
<1>4. /\ timer'[n].state = "active" /\ timer'[n].run = timer[n].run + 1
      /\ timer'[n].stalled = timer[n].stalled /\ timer[n].run \in Nat
      /\ Stalls(n)' = Stalls(n) /\ Stalls(n) \in 0..1 /\ Tries \in Nat
  BY <1>1, NoticesAssumption DEF Stalls, NoticeColumns, Timers
<1>5. Clocked(n)'
  <2>1. timer[n].run < Tries + Stalls(n) /\ (timer[n].stalled => failures > 0)
    BY <1>1 DEF JobOf, Clocked
  <2>2. QED
    BY <1>1, <1>4, <2>1 DEF Clocked
<1>6. timer[n] # NoTimer /\ notice[n] # "none" /\ \A v \in Workers : ~OnJob(v, n) /\ ~(On(v, n) /\ at[v] = "timer")
  <2>1. timer[n] # NoTimer /\ timer[n].state # "active"
    BY <1>1 DEF NoTimer
  <2>2. QED
    BY <2>1 DEF JobOf, Manned
<1>7. Manned(n)'
  BY <1>1, <1>2, <1>3, <1>4, <1>6 DEF Manned
<1>8. Reaching(n)'
  BY <1>1, <1>2, <1>3 DEF JobOf, Reaching, Given
<1>9. ASSUME NEW ch \in Channels PROVE Spent(n, ch)'
  <2>1. Open(n, ch)' => Open(n, ch)
    BY <1>1, <1>2, <1>3, <1>4, <1>6 DEF Open
  <2>2. ~Failing(n)'
    BY <1>1, <1>2, <1>6 DEF Failing, OnJob, Delivery
  <2>3. failures \in Nat /\ handed[n][ch] \in Nat
    BY DEF NoticeColumns
  <2>4. QED
    BY <1>1, <1>4, <2>1, <2>2, <2>3 DEF JobOf, Spent
<1>10. failures' = 0 => Unfailed(n)' /\ (~overlap' => Uncancelled(n)')
  <2>1. SUFFICES ASSUME failures' = 0 PROVE Unfailed(n)' /\ (~overlap' => Uncancelled(n)')
    OBVIOUS
  <2>2. Unhanded(n)' <=> Unhanded(n)
    BY <1>1 DEF Unhanded
  <2>3. Unfailed(n)'
    BY <1>4 DEF Unfailed
  <2>4. ~overlap' => Uncancelled(n)'
    BY <1>1, <1>2, <1>3, <2>1, <2>2 DEF JobOf, Uncancelled
  <2>5. QED
    BY <2>3, <2>4
<1>11. QED
  BY <1>5, <1>7, <1>8, <1>9, <1>10 DEF JobOf

\* Whoever has the job of n is alone with it.
LEMMA AloneOnJob ==
    ASSUME NEW w \in Workers, NEW n \in Notices, JobOf(n), OnJob(w, n)
    PROVE  /\ timer[n].state = "active" /\ notice[n] # "none"
           /\ \A v \in Workers \ {w} : ~OnJob(v, n)
           /\ \A v \in Workers : ~(On(v, n) /\ at[v] = "timer")
<1>1. timer[n].state = "active" /\ timer[n] # NoTimer
  BY DEF JobOf, Manned, NoTimer
<1>2. QED
  BY <1>1 DEF JobOf, Manned

\* A job that goes on: its worker moves within the delivery.
LEMMA JobGoesOn ==
    ASSUME NoticeColumns, NEW w \in Workers, NEW n \in Notices, JobOf(n), About(w, n), OnJob(w, n),
           OnJob(w, n)', notice'[n] = notice[n], timer'[n] = timer[n]
    PROVE  /\ Clocked(n)' /\ Manned(n)' /\ Stalls(n)' = Stalls(n) /\ Stalls(n) \in 0..1
           /\ \A v \in Workers \ {w} : /\ at'[v] = at[v] /\ errand'[v] = errand[v]
                                       /\ On(v, n)' <=> On(v, n)
                                       /\ ~OnJob(v, n) /\ ~OnJob(v, n)'
           /\ \A ch \in Channels :
                 Open(n, ch)' <=> \/ at'[w] = "quiet"
                                  \/ at'[w] = "check" /\ notice[n] = "PENDING"
                                  \/ at'[w] \in {"digest", "hand"} /\ ch \in errand'[w].left
           /\ Failing(n)' <=> at'[w] = "failed"
           /\ \A ch \in Channels :
                 Open(n, ch) <=> \/ at[w] = "quiet"
                                 \/ at[w] = "check" /\ notice[n] = "PENDING"
                                 \/ at[w] \in {"digest", "hand"} /\ ch \in errand[w].left
           /\ Failing(n) <=> at[w] = "failed"
<1>1. \A v \in Workers \ {w} :
              /\ at'[v] = at[v] /\ errand'[v] = errand[v]
              /\ On(v, n)' <=> On(v, n)
              /\ OnJob(v, n)' <=> OnJob(v, n)
  BY OthersStay
<1>2. /\ timer[n].state = "active" /\ notice[n] # "none"
      /\ \A v \in Workers \ {w} : ~OnJob(v, n)
      /\ \A v \in Workers : ~(On(v, n) /\ at[v] = "timer")
  BY AloneOnJob
<1>3. Stalls(n)' = Stalls(n) /\ Stalls(n) \in 0..1
  BY DEF Stalls
<1>4. Clocked(n)'
  <2>1. failures \in Nat /\ failures' \in Nat /\ failures <= failures'
    BY DEF About, NoticeColumns
  <2>2. QED
    BY <1>3, <2>1 DEF JobOf, Clocked
<1>5. On(w, n) /\ On(w, n)' /\ at[w] \in Delivery /\ at'[w] \in Delivery
  BY DEF OnJob
<1>6. Manned(n)'
  BY <1>1, <1>2, <1>5 DEF Manned, Delivery
<1>7. ASSUME NEW ch \in Channels
      PROVE  Open(n, ch)' <=> \/ at'[w] = "quiet"
                              \/ at'[w] = "check" /\ notice[n] = "PENDING"
                              \/ at'[w] \in {"digest", "hand"} /\ ch \in errand'[w].left
  BY <1>1, <1>2, <1>5 DEF Open, OnJob, Delivery
<1>8. Failing(n)' <=> at'[w] = "failed"
  BY <1>1, <1>2, <1>5 DEF Failing, OnJob, Delivery
<1>9. ASSUME NEW ch \in Channels
      PROVE  Open(n, ch) <=> \/ at[w] = "quiet"
                             \/ at[w] = "check" /\ notice[n] = "PENDING"
                             \/ at[w] \in {"digest", "hand"} /\ ch \in errand[w].left
  BY <1>2, <1>5 DEF Open, OnJob, Delivery
<1>10. Failing(n) <=> at[w] = "failed"
  BY <1>2, <1>5 DEF Failing, OnJob, Delivery
<1>11. QED
  BY <1>1, <1>2, <1>3, <1>4, <1>6, <1>7, <1>8, <1>9, <1>10

\* A job that is over, or goes back to wait: its worker leaves.
LEMMA JobLeft ==
    ASSUME NoticeColumns, NEW w \in Workers, NEW n \in Notices, JobOf(n), About(w, n), OnJob(w, n),
           at'[w] = "idle", notice'[n] # "none",
           timer'[n].run = timer[n].run, timer'[n].state \in {"done", "delayed"},
           timer[n].stalled => timer'[n].stalled, timer'[n].stalled => failures' > 0,
           timer'[n].state = "delayed" => timer[n].run < Tries + Stalls(n)'
    PROVE  /\ Clocked(n)' /\ Manned(n)'
           /\ \A v \in Workers \ {w} : /\ at'[v] = at[v] /\ errand'[v] = errand[v]
                                       /\ On(v, n)' <=> On(v, n)
                                       /\ ~OnJob(v, n) /\ ~OnJob(v, n)'
           /\ ~On(w, n)' /\ On(w, n)
           /\ \A ch \in Channels :
                 Open(n, ch)' <=> notice'[n] = "PENDING" /\ timer'[n].state = "delayed"
           /\ ~Failing(n)' /\ (Failing(n) <=> at[w] = "failed")
<1>1. \A v \in Workers \ {w} :
              /\ at'[v] = at[v] /\ errand'[v] = errand[v]
              /\ On(v, n)' <=> On(v, n)
              /\ OnJob(v, n)' <=> OnJob(v, n)
  BY OthersStay
<1>2. /\ timer[n].state = "active" /\ notice[n] # "none"
      /\ \A v \in Workers \ {w} : ~OnJob(v, n)
      /\ \A v \in Workers : ~(On(v, n) /\ at[v] = "timer")
  BY AloneOnJob
<1>3. On(w, n) /\ ~On(w, n)' /\ ~OnJob(w, n)' /\ at[w] \in Delivery
  BY DEF OnJob, On, Off
<1>4. Clocked(n)'
  <2>1. /\ Stalls(n) \in 0..1 /\ Stalls(n)' \in 0..1 /\ Stalls(n) <= Stalls(n)'
        /\ timer[n].run \in Nat /\ Tries \in Nat
    BY NoticesAssumption DEF Stalls, NoticeColumns, Timers
  <2>2. timer[n].run <= Tries + Stalls(n)
    BY DEF JobOf, Clocked
  <2>3. timer'[n].run <= Tries + Stalls(n)'
    BY <2>1, <2>2
  <2>4. QED
    BY <2>3 DEF Clocked
<1>5. Manned(n)'
  BY <1>1, <1>2, <1>3 DEF Manned
<1>6. ASSUME NEW ch \in Channels
      PROVE  Open(n, ch)' <=> notice'[n] = "PENDING" /\ timer'[n].state = "delayed"
  BY <1>1, <1>2, <1>3 DEF Open, OnJob, Delivery
<1>7. ~Failing(n)' /\ (Failing(n) <=> at[w] = "failed")
  BY <1>1, <1>2, <1>3 DEF Failing, OnJob, Delivery
<1>8. QED
  BY <1>1, <1>2, <1>3, <1>4, <1>5, <1>6, <1>7

LEMMA JobChecked ==
    ASSUME NoticeColumns, OneAtWork, NEW w \in Workers, NEW n \in Notices, n = errand[w].notice, JobOf(n), Check(w)
    PROVE  JobOf(n)'
<1>1. /\ NoticeColumns' /\ About(w, n) /\ failures' = failures /\ overlap' = overlap
      /\ at[w] = "check" /\ UNCHANGED <<notice, muted, handed>>
  BY CheckDoes DEF tally, About, RowStays
<1>2. OnJob(w, n)
  BY <1>1 DEF OnJob, On, Off, Delivery, Flush
<1>3. failures \in Nat /\ \A ch \in Channels : handed[n][ch] \in Nat
  BY DEF NoticeColumns
<1>4. Unhanded(n)' <=> Unhanded(n)
  BY <1>1 DEF Unhanded
<1>5. CASE notice[n] = "PENDING"
  <2>1. at'[w] = "quiet" /\ errand' = errand /\ timer' = timer
    BY <1>5, CheckDoes
  <2>2. OnJob(w, n)'
    BY <1>2, <2>1 DEF OnJob, On, Off, Delivery, Flush
  <2>3. /\ Clocked(n)' /\ Manned(n)' /\ Stalls(n)' = Stalls(n) /\ Stalls(n) \in 0..1
        /\ \A v \in Workers \ {w} : at'[v] = at[v] /\ errand'[v] = errand[v] /\ (On(v, n)' <=> On(v, n))
        /\ \A ch \in Channels : Open(n, ch)
    BY <1>1, <1>2, <1>5, <2>1, <2>2, JobGoesOn
  <2>4. Reaching(n)'
    BY <1>1, <2>1, <2>3 DEF JobOf, Reaching, Given
  <2>5. ASSUME NEW ch \in Channels PROVE Spent(n, ch)'
    BY <1>1, <1>3, <2>3 DEF JobOf, Spent
  <2>6. failures' = 0 => Unfailed(n)' /\ (~overlap' => Uncancelled(n)')
    <3>1. SUFFICES ASSUME failures' = 0 PROVE Unfailed(n)' /\ (~overlap' => Uncancelled(n)')
      OBVIOUS
    <3>2. Unfailed(n)'
      BY <1>1, <1>4, <2>1, <3>1 DEF JobOf, Unfailed
    <3>3. ~overlap' => Uncancelled(n)'
      BY <1>1, <1>4, <1>5, <2>1, <2>3, <3>1 DEF JobOf, Uncancelled
    <3>4. QED
      BY <3>2, <3>3
  <2>7. QED
    BY <2>3, <2>4, <2>5, <2>6 DEF JobOf
<1>6. CASE notice[n] # "PENDING"
  <2>1. at'[w] = "idle" /\ JobTurns(n, "done")
    BY <1>6, CheckDoes
  <2>2. /\ timer'[n].state = "done" /\ timer'[n].run = timer[n].run /\ timer'[n].stalled = timer[n].stalled
        /\ Stalls(n)' = Stalls(n) /\ Stalls(n) \in 0..1
    BY <2>1 DEF JobTurns, Stalls
  <2>3. notice[n] # "none" /\ (timer[n].stalled => failures > 0)
    BY <1>2, AloneOnJob DEF JobOf, Clocked
  <2>4. /\ Clocked(n)' /\ Manned(n)'
        /\ \A v \in Workers \ {w} : at'[v] = at[v] /\ errand'[v] = errand[v] /\ (On(v, n)' <=> On(v, n))
        /\ ~On(w, n)' /\ ~Failing(n)'
        /\ \A ch \in Channels : ~Open(n, ch)'
    BY <1>1, <1>2, <2>1, <2>2, <2>3, JobLeft
  <2>5. Reaching(n)'
    BY <1>1, <2>4 DEF JobOf, Reaching, Given
  <2>6. ASSUME NEW ch \in Channels PROVE Spent(n, ch)'
    BY <1>1, <1>3, <2>2, <2>4 DEF JobOf, Spent
  <2>7. failures' = 0 => Unfailed(n)' /\ (~overlap' => Uncancelled(n)')
    BY <1>1, <1>4, <1>6, <2>3, <2>4 DEF JobOf, Unfailed, Uncancelled
  <2>8. QED
    BY <2>4, <2>5, <2>6, <2>7 DEF JobOf
<1>7. QED
  BY <1>5, <1>6

LEMMA JobAsked ==
    ASSUME NoticeColumns, NEW w \in Workers, NEW n \in Notices, n = errand[w].notice, JobOf(n),
           NEW quiet \in BOOLEAN, AskQuiet(w, quiet)
    PROVE  JobOf(n)'
<1>1. /\ NoticeColumns' /\ About(w, n) /\ failures' = failures /\ overlap' = overlap
      /\ at[w] = "quiet" /\ errand'[w].notice = n
      /\ at'[w] \in {"digest", "sent"} /\ (at'[w] = "sent" => errand'[w].left = {})
      /\ \A ch \in ChannelsOf[n] : ch \in errand'[w].left \/ <<n, ch>> \in muted'
      /\ UNCHANGED <<notice, timer, handed>> /\ muted \subseteq muted'
  BY AskQuietDoes DEF About
<1>2. OnJob(w, n) /\ On(w, n) /\ OnJob(w, n)'
  BY <1>1 DEF OnJob, On, Off, Delivery, Flush
<1>3. failures \in Nat /\ \A ch \in Channels : handed[n][ch] \in Nat
  BY DEF NoticeColumns
<1>4. Unhanded(n)' <=> Unhanded(n)
  BY <1>1 DEF Unhanded
<1>5. /\ Clocked(n)' /\ Manned(n)' /\ Stalls(n)' = Stalls(n) /\ Stalls(n) \in 0..1
      /\ \A v \in Workers \ {w} : at'[v] = at[v] /\ errand'[v] = errand[v] /\ (On(v, n)' <=> On(v, n))
      /\ \A ch \in Channels : Open(n, ch)
  BY <1>1, <1>2, JobGoesOn
<1>6. Reaching(n)'
  BY <1>1, <1>5 DEF JobOf, Reaching, Given
<1>7. ASSUME NEW ch \in Channels PROVE Spent(n, ch)'
  BY <1>1, <1>3, <1>5, <1>7 DEF JobOf, Spent
<1>8. failures' = 0 => Unfailed(n)' /\ (~overlap' => Uncancelled(n)')
  <2>1. SUFFICES ASSUME failures' = 0 PROVE Unfailed(n)' /\ (~overlap' => Uncancelled(n)')
    OBVIOUS
  <2>2. Unfailed(n)'
    BY <1>1, <1>4, <2>1 DEF JobOf, Unfailed
  <2>3. ~overlap' => Uncancelled(n)'
    BY <1>1, <1>2, <1>4, <1>5, <2>1 DEF JobOf, Uncancelled
  <2>4. QED
    BY <2>2, <2>3
<1>9. QED
  BY <1>5, <1>6, <1>7, <1>8 DEF JobOf

\* The digest or the queue takes some of the channels that are left.
LEMMA JobHanded ==
    ASSUME NoticeColumns, OneAtWork, NEW w \in Workers, NEW n \in Notices, n = errand[w].notice, JobOf(n),
           Defer(w) \/ \E c \in Channels : Hand(w, c)
    PROVE  JobOf(n)'
<1>1. /\ NoticeColumns' /\ About(w, n) /\ failures' = failures /\ overlap' = overlap
      /\ at[w] \in {"digest", "hand"} /\ errand'[w].notice = n
      /\ at'[w] \in {"hand", "sent"} /\ (at'[w] = "sent" => errand'[w].left = {})
      /\ errand'[w].left \subseteq errand[w].left
      /\ \A ch \in Channels :
            \/ handed'[n][ch] = handed[n][ch] /\ (ch \in errand'[w].left <=> ch \in errand[w].left)
            \/ /\ handed'[n][ch] = handed[n][ch] + 1
               /\ ch \in errand[w].left /\ ch \notin errand'[w].left
      /\ UNCHANGED <<notice, timer, muted>>
  BY DeferDoes, HandDoes DEF About, JobOf
<1>2. OnJob(w, n) /\ On(w, n) /\ OnJob(w, n)' /\ On(w, n)'
  BY <1>1 DEF OnJob, On, Off, Delivery, Flush
<1>3. failures \in Nat /\ \A ch \in Channels : handed[n][ch] \in Nat
  BY DEF NoticeColumns
<1>4. /\ Clocked(n)' /\ Manned(n)' /\ Stalls(n)' = Stalls(n) /\ Stalls(n) \in 0..1
      /\ \A v \in Workers \ {w} : /\ at'[v] = at[v] /\ errand'[v] = errand[v] /\ (On(v, n)' <=> On(v, n))
                                  /\ ~OnJob(v, n) /\ ~OnJob(v, n)'
      /\ \A ch \in Channels : Open(n, ch) <=> ch \in errand[w].left
      /\ \A ch \in Channels : Open(n, ch)' <=> at'[w] = "hand" /\ ch \in errand'[w].left
      /\ ~Failing(n) /\ ~Failing(n)'
  <2>1. /\ Clocked(n)' /\ Manned(n)' /\ Stalls(n)' = Stalls(n) /\ Stalls(n) \in 0..1
        /\ \A v \in Workers \ {w} : /\ at'[v] = at[v] /\ errand'[v] = errand[v] /\ (On(v, n)' <=> On(v, n))
                                    /\ ~OnJob(v, n) /\ ~OnJob(v, n)'
    BY <1>1, <1>2, JobGoesOn
  <2>2. \A ch \in Channels : Open(n, ch) <=> ch \in errand[w].left
    BY <1>1, <1>2, JobGoesOn
  <2>3. \A ch \in Channels : Open(n, ch)' <=> at'[w] = "hand" /\ ch \in errand'[w].left
    BY <1>1, <1>2, JobGoesOn
  <2>4. ~Failing(n) /\ ~Failing(n)'
    BY <1>1, <1>2, JobGoesOn
  <2>5. QED
    BY <2>1, <2>2, <2>3, <2>4
<1>5. Reaching(n)'
  <2>1. ChannelsOf[n] \in SUBSET Channels
    BY NoticesAssumption
  <2>2. \A ch \in Channels : /\ Given(n, ch) => Given(n, ch)'
                             /\ ch \in errand[w].left => ch \in errand'[w].left \/ Given(n, ch)'
    BY <1>1, <1>3 DEF Given
  <2>3. notice'[n] = "SENT" => \A ch \in ChannelsOf[n] : Given(n, ch)'
    BY <1>1, <2>1, <2>2 DEF JobOf, Reaching
  <2>4. /\ at'[w] \in {"digest", "hand", "sent"} =>
              \A ch \in ChannelsOf[n] : ch \in errand'[w].left \/ Given(n, ch)'
        /\ at'[w] = "sent" => errand'[w].left = {}
    BY <1>1, <1>2, <2>1, <2>2 DEF JobOf, Reaching
  <2>5. ASSUME NEW v \in Workers \ {w}, On(v, n)'
        PROVE  at'[v] \notin {"digest", "hand", "sent"}
    BY <1>4, <2>5 DEF OnJob, Delivery
  <2>6. QED
    BY <2>3, <2>4, <2>5 DEF Reaching
<1>6. ASSUME NEW ch \in Channels PROVE Spent(n, ch)'
  <2>1. Spent(n, ch)
    BY DEF JobOf
  <2>2. CASE handed'[n][ch] = handed[n][ch] /\ (ch \in errand'[w].left <=> ch \in errand[w].left)
    BY <1>1, <1>3, <1>4, <2>1, <2>2 DEF Spent
  <2>3. CASE /\ handed'[n][ch] = handed[n][ch] + 1
             /\ ch \in errand[w].left /\ ch \notin errand'[w].left
    BY <1>1, <1>3, <1>4, <2>1, <2>3 DEF Spent
  <2>4. QED
    BY <1>1, <2>2, <2>3
<1>7. failures' = 0 => Unfailed(n)' /\ (~overlap' => Uncancelled(n)')
  <2>1. SUFFICES ASSUME failures' = 0 PROVE Unfailed(n)' /\ (~overlap' => Uncancelled(n)')
    OBVIOUS
  <2>2. Unfailed(n)'
    BY <1>1, <1>2, AloneOnJob DEF Unfailed
  <2>3. ASSUME ~overlap' PROVE Uncancelled(n)'
    <3>1. notice[n] = "PENDING"
      BY <1>1, <1>2, <2>1, <2>3 DEF JobOf, Uncancelled
    <3>2. \A v \in Workers \ {w} : ~On(v, n)
      BY <1>1, <1>2, <2>3 DEF OneAtWork, On, Off
    <3>3. QED
      BY <1>1, <1>4, <3>1, <3>2 DEF Uncancelled
  <2>4. QED
    BY <2>2, <2>3
<1>8. QED
  BY <1>4, <1>5, <1>6, <1>7 DEF JobOf

LEMMA JobSent ==
    ASSUME NoticeColumns, NEW w \in Workers, NEW n \in Notices, n = errand[w].notice, JobOf(n), WriteSent(w)
    PROVE  JobOf(n)'
<1>1. /\ NoticeColumns' /\ About(w, n) /\ failures' = failures /\ overlap' = overlap
      /\ at[w] = "sent" /\ at'[w] = "idle"
      /\ notice'[n] = "SENT" /\ JobTurns(n, "done") /\ UNCHANGED <<muted, handed>>
  BY WriteSentDoes DEF tally, About
<1>2. OnJob(w, n)
  BY <1>1 DEF OnJob, On, Off, Delivery, Flush
<1>3. failures \in Nat /\ \A ch \in Channels : handed[n][ch] \in Nat
  BY DEF NoticeColumns
<1>4. /\ timer'[n].state = "done" /\ timer'[n].run = timer[n].run /\ timer'[n].stalled = timer[n].stalled
      /\ Stalls(n)' = Stalls(n) /\ Stalls(n) \in 0..1
      /\ timer[n].stalled => failures > 0
  BY <1>1 DEF JobTurns, Stalls, JobOf, Clocked
<1>5. /\ Clocked(n)' /\ Manned(n)'
      /\ \A v \in Workers \ {w} : /\ at'[v] = at[v] /\ errand'[v] = errand[v] /\ (On(v, n)' <=> On(v, n))
                                  /\ ~OnJob(v, n)'
      /\ ~On(w, n)' /\ On(w, n) /\ ~Failing(n)'
      /\ \A ch \in Channels : ~Open(n, ch)'
  BY <1>1, <1>2, <1>4, JobLeft
<1>6. Reaching(n)'
  <2>1. \A ch \in ChannelsOf[n] : Given(n, ch)
    BY <1>1, <1>5 DEF JobOf, Reaching
  <2>2. \A ch \in ChannelsOf[n] : Given(n, ch)'
    BY <1>1, <2>1 DEF Given
  <2>3. QED
    BY <1>1, <1>5, <2>2 DEF Reaching, OnJob, Delivery
<1>7. ASSUME NEW ch \in Channels PROVE Spent(n, ch)'
  BY <1>1, <1>3, <1>4, <1>5 DEF JobOf, Spent
<1>8. failures' = 0 => Unfailed(n)' /\ (~overlap' => Uncancelled(n)')
  <2>1. Unfailed(n)'
    BY <1>1 DEF Unfailed
  <2>2. Unhanded(n)' <=> Unhanded(n)
    BY <1>1 DEF Unhanded
  <2>3. failures' = 0 /\ ~overlap' => Uncancelled(n)'
    BY <1>1, <1>5, <2>2 DEF JobOf, Uncancelled, OnJob, Delivery
  <2>4. QED
    BY <2>1, <2>3
<1>9. QED
  BY <1>5, <1>6, <1>7, <1>8 DEF JobOf

LEMMA JobThrown ==
    ASSUME NoticeColumns, NEW w \in Workers, NEW n \in Notices, n = errand[w].notice, JobOf(n), EngineThrows(w)
    PROVE  JobOf(n)'
<1>1. /\ NoticeColumns' /\ About(w, n) /\ failures' = failures + 1 /\ overlap' = overlap
      /\ at[w] \in {"quiet", "digest", "hand", "sent"} /\ at'[w] = "failed" /\ errand' = errand
      /\ UNCHANGED <<notice, muted, handed, timer>>
  BY EngineThrowsDoes DEF tally, About, RowStays, JobStays
<1>2. OnJob(w, n) /\ OnJob(w, n)'
  BY <1>1 DEF OnJob, On, Off, Delivery, Flush
<1>3. failures \in Nat /\ \A ch \in Channels : handed[n][ch] \in Nat
  BY DEF NoticeColumns
<1>4. /\ Clocked(n)' /\ Manned(n)' /\ Stalls(n)' = Stalls(n) /\ Stalls(n) \in 0..1
      /\ \A v \in Workers \ {w} : at'[v] = at[v] /\ errand'[v] = errand[v] /\ (On(v, n)' <=> On(v, n))
      /\ \A ch \in Channels : ~Open(n, ch)'
      /\ Failing(n)' /\ ~Failing(n)
  BY <1>1, <1>2, JobGoesOn
<1>5. Reaching(n)'
  BY <1>1, <1>4 DEF JobOf, Reaching, Given
<1>6. ASSUME NEW ch \in Channels PROVE Spent(n, ch)'
  BY <1>1, <1>3, <1>4, <1>6 DEF JobOf, Spent
<1>7. failures' # 0
  BY <1>1, <1>3
<1>8. QED
  BY <1>4, <1>5, <1>6, <1>7 DEF JobOf

\* A failed attempt leaves as many as there are.
LEMMA AgainClocked ==
    ASSUME NoticeColumns, NEW n \in Notices,
           JobTurns(n, IF AttemptLeft(n) THEN "delayed" ELSE "done")
    PROVE  /\ timer'[n].run = timer[n].run /\ timer'[n].stalled = timer[n].stalled
           /\ timer'[n].state \in {"done", "delayed"}
           /\ Stalls(n)' = Stalls(n) /\ Stalls(n) \in 0..1
           /\ timer'[n].state = "delayed" => timer[n].run < Tries + Stalls(n)'
<1>1. /\ timer'[n].run = timer[n].run /\ timer'[n].stalled = timer[n].stalled
      /\ timer'[n].state = IF AttemptLeft(n) THEN "delayed" ELSE "done"
  BY DEF JobTurns
<1>2. Stalls(n)' = Stalls(n) /\ Stalls(n) \in 0..1
  BY <1>1 DEF Stalls
<1>3. timer[n].run \in Nat /\ Tries \in Nat
  BY NoticesAssumption DEF NoticeColumns, Timers
<1>4. AttemptLeft(n) => timer[n].run < Tries + Stalls(n)
  BY <1>2, <1>3 DEF AttemptLeft
<1>5. QED
  BY <1>1, <1>2, <1>4

LEMMA JobFailed ==
    ASSUME NoticeColumns, NEW w \in Workers, NEW n \in Notices, n = errand[w].notice, JobOf(n), WriteFailed(w)
    PROVE  JobOf(n)'
<1>1. /\ NoticeColumns' /\ About(w, n) /\ failures' = failures /\ overlap' = overlap
      /\ at[w] = "failed" /\ at'[w] = "idle"
      /\ notice'[n] = "FAILED" /\ UNCHANGED <<muted, handed>>
      /\ JobTurns(n, IF AttemptLeft(n) THEN "delayed" ELSE "done")
  BY WriteFailedDoes DEF tally, About
<1>2. OnJob(w, n)
  BY <1>1 DEF OnJob, On, Off, Delivery, Flush
<1>3. failures \in Nat /\ \A ch \in Channels : handed[n][ch] \in Nat
  BY DEF NoticeColumns
<1>4. /\ timer'[n].run = timer[n].run /\ timer'[n].stalled = timer[n].stalled
      /\ timer'[n].state \in {"done", "delayed"}
      /\ Stalls(n)' = Stalls(n) /\ Stalls(n) \in 0..1
      /\ timer'[n].state = "delayed" => timer[n].run < Tries + Stalls(n)'
      /\ timer[n].stalled => failures > 0
  BY <1>1, AgainClocked DEF JobOf, Clocked
<1>5. /\ Clocked(n)' /\ Manned(n)'
      /\ \A v \in Workers \ {w} : /\ at'[v] = at[v] /\ errand'[v] = errand[v] /\ (On(v, n)' <=> On(v, n))
                                  /\ ~OnJob(v, n)'
      /\ ~On(w, n)' /\ ~Failing(n)'
      /\ \A ch \in Channels : ~Open(n, ch)'
  BY <1>1, <1>2, <1>4, JobLeft
<1>6. Reaching(n)'
  BY <1>1, <1>5 DEF Reaching, OnJob, Delivery
<1>7. ASSUME NEW ch \in Channels PROVE Spent(n, ch)'
  BY <1>1, <1>3, <1>4, <1>5 DEF JobOf, Spent
<1>8. failures' = 0 => Unfailed(n)' /\ (~overlap' => Uncancelled(n)')
  <2>1. Unfailed(n)'
    BY <1>1 DEF Unfailed
  <2>2. Unhanded(n)' <=> Unhanded(n)
    BY <1>1 DEF Unhanded
  <2>3. failures' = 0 /\ ~overlap' => Uncancelled(n)'
    BY <1>1, <1>5, <2>2 DEF JobOf, Uncancelled, OnJob, Delivery
  <2>4. QED
    BY <2>1, <2>3
<1>9. QED
  BY <1>5, <1>6, <1>7, <1>8 DEF JobOf

LEMMA JobUnread ==
    ASSUME NoticeColumns, NEW w \in Workers, NEW n \in Notices, n = errand[w].notice, JobOf(n), DeliverThrows(w)
    PROVE  JobOf(n)'
<1>1. /\ NoticeColumns' /\ About(w, n) /\ failures' = failures + 1 /\ overlap' = overlap
      /\ at[w] \in {"check", "failed"} /\ at'[w] = "idle"
      /\ UNCHANGED <<notice, muted, handed>>
      /\ JobTurns(n, IF AttemptLeft(n) THEN "delayed" ELSE "done")
  BY DeliverThrowsDoes DEF tally, About, RowStays
<1>2. OnJob(w, n) /\ On(w, n)
  BY <1>1 DEF OnJob, On, Off, Delivery, Flush
<1>3. failures \in Nat /\ failures' > 0 /\ \A ch \in Channels : handed[n][ch] \in Nat
  BY <1>1 DEF NoticeColumns
<1>4. /\ timer'[n].run = timer[n].run /\ timer'[n].stalled = timer[n].stalled
      /\ timer'[n].state \in {"done", "delayed"}
      /\ Stalls(n)' = Stalls(n) /\ Stalls(n) \in 0..1
      /\ timer'[n].state = "delayed" => timer[n].run < Tries + Stalls(n)'
  BY <1>1, AgainClocked
<1>5. notice'[n] # "none"
  BY <1>1, <1>2, AloneOnJob
<1>6. /\ Clocked(n)' /\ Manned(n)'
      /\ \A v \in Workers \ {w} : /\ at'[v] = at[v] /\ errand'[v] = errand[v] /\ (On(v, n)' <=> On(v, n))
                                  /\ ~OnJob(v, n)'
      /\ ~On(w, n)' /\ ~Failing(n)' /\ (Failing(n) <=> at[w] = "failed")
      /\ \A ch \in Channels : Open(n, ch)' => notice[n] = "PENDING"
  BY <1>1, <1>2, <1>3, <1>4, <1>5, JobLeft
<1>7. Reaching(n)'
  BY <1>1, <1>6 DEF JobOf, Reaching, OnJob, Delivery, Given
<1>8. ASSUME NEW ch \in Channels PROVE Spent(n, ch)'
  <2>1. Open(n, ch)' /\ at[w] = "check" => Open(n, ch)
    BY <1>2, <1>6 DEF Open
  <2>2. Spent(n, ch)
    BY DEF JobOf
  <2>3. QED
    BY <1>1, <1>3, <1>4, <1>6, <2>1, <2>2 DEF Spent
<1>9. QED
  BY <1>3, <1>6, <1>7, <1>8 DEF JobOf

LEMMA JobDied ==
    ASSUME NoticeColumns, Packed, NEW w \in Workers, NEW n \in Notices, n = errand[w].notice, JobOf(n),
           at[w] \notin Off, ErrandFails(w)
    PROVE  JobOf(n)'
<1>1. /\ NoticeColumns' /\ About(w, n) /\ failures' = failures + 1 /\ overlap' = overlap
      /\ at'[w] = "idle" /\ UNCHANGED <<notice, muted, handed>>
      /\ at[w] \notin Delivery => timer' = timer
      /\ at[w] \in Delivery =>
            timer'[n] = [state |-> IF timer[n].stalled THEN "done" ELSE "delayed",
                         run |-> timer[n].run, stalled |-> TRUE]
  BY ErrandFailsDoes DEF tally, About, RowStays
<1>2. failures \in Nat /\ failures' > 0 /\ \A ch \in Channels : handed[n][ch] \in Nat
  BY <1>1 DEF NoticeColumns
<1>3. CASE at[w] \in Delivery
  <2>1. OnJob(w, n) /\ On(w, n)
    BY <1>3 DEF OnJob, On
  <2>2. /\ timer'[n].run = timer[n].run /\ timer'[n].stalled = TRUE
        /\ timer'[n].state = IF timer[n].stalled THEN "done" ELSE "delayed"
    BY <1>1, <1>3
  <2>3. /\ Stalls(n)' = 1 /\ Stalls(n) \in 0..1 /\ (timer'[n].state = "delayed" => Stalls(n) = 0)
        /\ timer'[n].state \in {"done", "delayed"} /\ timer[n].run \in Nat /\ Tries \in Nat
    BY <2>2, NoticesAssumption DEF Stalls, NoticeColumns, Timers
  <2>4. timer'[n].state = "delayed" => timer[n].run < Tries + Stalls(n)'
    BY <2>3 DEF JobOf, Clocked
  <2>5. notice'[n] # "none"
    BY <1>1, <2>1, AloneOnJob
  <2>6. /\ Clocked(n)' /\ Manned(n)'
        /\ \A v \in Workers \ {w} : /\ at'[v] = at[v] /\ errand'[v] = errand[v] /\ (On(v, n)' <=> On(v, n))
                                    /\ ~OnJob(v, n)'
        /\ ~On(w, n)' /\ ~Failing(n)'
        /\ \A ch \in Channels : Open(n, ch)' => timer'[n].state = "delayed"
    BY <1>1, <1>2, <2>1, <2>2, <2>3, <2>4, <2>5, JobLeft
  <2>7. Reaching(n)'
    BY <1>1, <2>6 DEF JobOf, Reaching, OnJob, Delivery, Given
  <2>8. ASSUME NEW ch \in Channels PROVE Spent(n, ch)'
    BY <1>1, <1>2, <2>3, <2>6 DEF JobOf, Spent
  <2>9. QED
    BY <1>2, <2>6, <2>7, <2>8 DEF JobOf
<1>4. CASE at[w] \notin Delivery
  <2>1. timer' = timer /\ Stalls(n)' = Stalls(n) /\ Stalls(n) \in 0..1
    BY <1>1, <1>4 DEF Stalls
  <2>2. \A v \in Workers \ {w} :
              /\ at'[v] = at[v] /\ errand'[v] = errand[v]
              /\ On(v, n)' <=> On(v, n)
              /\ OnJob(v, n)' <=> OnJob(v, n)
    BY <1>1, OthersStay
  <2>3. ~OnJob(w, n) /\ ~OnJob(w, n)' /\ ~On(w, n)'
    BY <1>1, <1>4 DEF OnJob, On, Off
  <2>4. Clocked(n)'
    BY <1>1, <1>2, <2>1 DEF JobOf, Clocked
  <2>5. Manned(n)'
    BY <1>1, <2>1, <2>2, <2>3 DEF JobOf, Manned
  <2>6. Reaching(n)'
    BY <1>1, <2>2, <2>3 DEF JobOf, Reaching, Given
  <2>7. ASSUME NEW ch \in Channels PROVE Spent(n, ch)'
    <3>1. Open(n, ch)' => Open(n, ch)
      BY <1>1, <2>1, <2>2, <2>3 DEF Open
    <3>2. Failing(n)' <=> Failing(n)
      BY <1>4, <2>2, <2>3 DEF Failing, Delivery
    <3>3. Spent(n, ch)
      BY DEF JobOf
    <3>4. QED
      BY <1>1, <1>2, <2>1, <3>1, <3>2, <3>3 DEF Spent
  <2>8. QED
    BY <1>2, <2>4, <2>5, <2>6, <2>7 DEF JobOf
<1>5. QED
  BY <1>3, <1>4

-----------------------------------------------------------------------------
(* Every step keeps every job *)

LEMMA OneAtWorkKept ==
    ASSUME OneAtWork, NEW w \in Workers, \A v \in Workers \ {w} : at'[v] = at[v], overlap' = overlap,
           at[w] # "idle" \/ overlap \/ w = OneWorker
    PROVE  OneAtWork'
BY DEF OneAtWork

LEMMA PackedKept ==
    ASSUME Packed, NEW w \in Workers, \A v \in Workers \ {w} : at'[v] = at[v] /\ errand'[v] = errand[v],
           at'[w] = "channel" => \E x \in DigestEntries : errand'[w].batch = {x}
    PROVE  Packed'
BY DEF Packed

\* A step about n.
LEMMA AboutOne ==
    ASSUME NoticesHold, NEW w \in Workers, NEW n \in Notices, About(w, n), NoticeColumns', JobOf(n)',
           at'[w] # "channel", at[w] # "idle" \/ overlap \/ w = OneWorker
    PROVE  NoticesHold'
<1>1. NoticeColumns /\ OneAtWork /\ Packed /\ \A m \in Notices : JobOf(m)
  BY DEF NoticesHold
<1>2. Packed' /\ OneAtWork'
  BY <1>1, PackedKept, OneAtWorkKept DEF About
<1>3. ASSUME NEW m \in Notices \ {n} PROVE JobOf(m)'
  <2>1. Untouched(w, m)
    BY DEF About, Untouched, On
  <2>2. QED
    BY <1>1, <2>1, JobUntouched
<1>4. QED
  BY <1>2, <1>3 DEF NoticesHold

\* A step about no notice.
LEMMA AboutNone ==
    ASSUME NoticesHold, NEW w \in Workers, \A v \in Workers \ {w} : at'[v] = at[v] /\ errand'[v] = errand[v],
           at[w] \in Off, at'[w] \in Off, JobStays, NoticeColumns',
           overlap' = overlap, failures <= failures',
           at'[w] = "channel" => \E x \in DigestEntries : errand'[w].batch = {x},
           at[w] # "idle" \/ overlap \/ w = OneWorker
    PROVE  NoticesHold'
<1>1. NoticeColumns /\ OneAtWork /\ Packed /\ \A m \in Notices : JobOf(m)
  BY DEF NoticesHold
<1>2. Packed' /\ OneAtWork'
  BY <1>1, PackedKept, OneAtWorkKept
<1>3. ASSUME NEW m \in Notices PROVE JobOf(m)'
  <2>1. Untouched(w, m)
    BY DEF JobStays, RowStays, tally, NoticeColumns, Untouched, On
  <2>2. QED
    BY <1>1, <2>1, JobUntouched
<1>4. QED
  BY <1>2, <1>3 DEF NoticesHold

LEMMA NoticesStep ==
    ASSUME NoticesHold, NEW w \in Workers, NoticeTurn(w)
    PROVE  NoticesHold'
<1>1. NoticeColumns /\ OneAtWork /\ Packed /\ \A m \in Notices : JobOf(m)
  BY DEF NoticesHold
<1>2. PICK n \in Notices : n = errand[w].notice
  BY <1>1 DEF NoticeColumns, NoticeErrands
<1>3. JobOf(n) /\ Clocked(n) /\ Manned(n) /\ failures <= failures
  BY <1>1 DEF JobOf, NoticeColumns
<1>4. CASE SetTimer(w)
  BY <1>1, <1>2, <1>3, <1>4, SetTimerDoes, JobTimed, AboutOne
<1>5. CASE RemoveTimer(w)
  BY <1>1, <1>2, <1>3, <1>5, RemoveTimerDoes, JobRemoved, AboutOne
<1>6. CASE WriteCancelled(w)
  BY <1>1, <1>2, <1>3, <1>6, WriteCancelledDoes, JobMarkedCancelled, AboutOne
<1>7. CASE Check(w)
  BY <1>1, <1>2, <1>3, <1>7, CheckDoes, JobChecked, AboutOne
<1>8. CASE Defer(w)
  BY <1>1, <1>2, <1>3, <1>8, DeferDoes, JobHanded, AboutOne
<1>9. CASE WriteSent(w)
  BY <1>1, <1>2, <1>3, <1>9, WriteSentDoes, JobSent, AboutOne
<1>10. CASE WriteFailed(w)
  BY <1>1, <1>2, <1>3, <1>10, WriteFailedDoes, JobFailed, AboutOne
<1>11. ASSUME NEW quiet \in BOOLEAN, AskQuiet(w, quiet) PROVE NoticesHold'
  BY <1>1, <1>2, <1>3, <1>11, AskQuietDoes, JobAsked, AboutOne
<1>12. ASSUME NEW ch \in Channels, Hand(w, ch) PROVE NoticesHold'
  BY <1>1, <1>2, <1>3, <1>12, HandDoes, JobHanded, AboutOne
<1>13. ASSUME NEW d \in dispatches, Pick(w, d) PROVE NoticesHold'
  <2>1. /\ NoticeColumns' /\ failures' = failures /\ overlap' = overlap /\ JobStays
        /\ \A v \in Workers \ {w} : at'[v] = at[v] /\ errand'[v] = errand[v]
    BY <1>1, <1>13, PickDoes
  <2>2. /\ at[w] \in Off /\ at'[w] \in Off /\ (at[w] # "idle" \/ overlap \/ w = OneWorker)
        /\ at'[w] = "channel" => \E x \in DigestEntries : errand'[w].batch = {x}
    BY <1>1, <1>13, PickDoes DEF Off, Flush
  <2>3. QED
    BY <1>3, <2>1, <2>2, AboutNone
<1>14. ASSUME NEW m \in Notices, Fire(w, m) PROVE NoticesHold'
  BY <1>1, <1>14, FireDoes, JobFired, AboutOne
<1>15. CASE SendOut(w)
  <2>1. /\ NoticeColumns' /\ failures' = failures /\ overlap' = overlap /\ JobStays
        /\ \A v \in Workers \ {w} : at'[v] = at[v] /\ errand'[v] = errand[v]
    BY <1>1, <1>15, SendOutDoes
  <2>2. /\ at[w] \in Off /\ at'[w] \in Off /\ (at[w] # "idle" \/ overlap \/ w = OneWorker)
        /\ at'[w] = "channel" => \E x \in DigestEntries : errand'[w].batch = {x}
    BY <1>1, <1>15, SendOutDoes DEF Off, Flush
  <2>3. QED
    BY <1>3, <2>1, <2>2, AboutNone
<1>16. CASE Scan(w)
  <2>1. /\ NoticeColumns' /\ failures' = failures /\ overlap' = overlap /\ JobStays
        /\ \A v \in Workers \ {w} : at'[v] = at[v] /\ errand'[v] = errand[v]
    BY <1>1, <1>16, ScanDoes
  <2>2. /\ at[w] \in Off /\ at'[w] \in Off /\ (at[w] # "idle" \/ overlap \/ w = OneWorker)
        /\ at'[w] = "channel" => \E x \in DigestEntries : errand'[w].batch = {x}
    BY <1>1, <1>16, ScanDoes DEF Off, Flush
  <2>3. QED
    BY <1>3, <2>1, <2>2, AboutNone
<1>17. CASE Mail(w)
  <2>1. /\ NoticeColumns' /\ failures' = failures /\ overlap' = overlap /\ JobStays
        /\ \A v \in Workers \ {w} : at'[v] = at[v] /\ errand'[v] = errand[v]
    BY <1>1, <1>17, MailDoes
  <2>2. /\ at[w] \in Off /\ at'[w] \in Off /\ (at[w] # "idle" \/ overlap \/ w = OneWorker)
        /\ at'[w] = "channel" => \E x \in DigestEntries : errand'[w].batch = {x}
    BY <1>1, <1>17, MailDoes DEF Off, Flush
  <2>3. QED
    BY <1>3, <2>1, <2>2, AboutNone
<1>18. CASE Text(w)
  <2>1. /\ NoticeColumns' /\ failures' = failures /\ overlap' = overlap /\ JobStays
        /\ \A v \in Workers \ {w} : at'[v] = at[v] /\ errand'[v] = errand[v]
    BY <1>1, <1>18, TextDoes
  <2>2. /\ at[w] \in Off /\ at'[w] \in Off /\ (at[w] # "idle" \/ overlap \/ w = OneWorker)
        /\ at'[w] = "channel" => \E x \in DigestEntries : errand'[w].batch = {x}
    BY <1>1, <1>18, TextDoes DEF Off, Flush
  <2>3. QED
    BY <1>3, <2>1, <2>2, AboutNone
<1>19. CASE Drop(w)
  <2>1. /\ NoticeColumns' /\ failures' = failures /\ overlap' = overlap /\ JobStays
        /\ \A v \in Workers \ {w} : at'[v] = at[v] /\ errand'[v] = errand[v]
    BY <1>1, <1>19, DropDoes
  <2>2. /\ at[w] \in Off /\ at'[w] \in Off /\ (at[w] # "idle" \/ overlap \/ w = OneWorker)
        /\ at'[w] = "channel" => \E x \in DigestEntries : errand'[w].batch = {x}
    BY <1>1, <1>19, DropDoes DEF Off, Flush
  <2>3. QED
    BY <1>3, <2>1, <2>2, AboutNone
<1>20. CASE EngineThrows(w)
  BY <1>1, <1>2, <1>3, <1>20, EngineThrowsDoes, JobThrown, AboutOne
<1>21. CASE DeliverThrows(w)
  BY <1>1, <1>2, <1>3, <1>21, DeliverThrowsDoes, JobUnread, AboutOne
<1>22. CASE ErrandFails(w)
  <2>1. NoticeColumns' /\ About(w, n) /\ at[w] # "idle" /\ at'[w] = "idle" /\ RowStays
    BY <1>1, <1>2, <1>22, ErrandFailsDoes
  <2>2. CASE at[w] \in Off
    <3>1. timer' = timer
      BY <1>1, <1>2, <1>22, <2>2, ErrandFailsDoes DEF Off, Flush, Delivery
    <3>2. QED
      BY <2>1, <2>2, <3>1, AboutNone DEF JobStays, Off, About
  <2>3. CASE at[w] \notin Off
    BY <1>1, <1>2, <1>3, <1>22, <2>1, <2>3, JobDied, AboutOne
  <2>4. QED
    BY <2>2, <2>3
<1>23. ASSUME NEW m \in Notices, Schedule(w, m) PROVE NoticesHold'
  BY <1>1, <1>23, ScheduleDoes, JobScheduled, AboutOne
<1>24. ASSUME NEW m \in Notices, Cancel(w, m) PROVE NoticesHold'
  BY <1>1, <1>24, CancelDoes, JobCancelled, AboutOne
<1>25. QED
  BY <1>4, <1>5, <1>6, <1>7, <1>8, <1>9, <1>10, <1>11, <1>12, <1>13, <1>14, <1>15, <1>16, <1>17,
     <1>18, <1>19, <1>20, <1>21, <1>22, <1>23, <1>24 DEF NoticeTurn

-----------------------------------------------------------------------------
(* What the digests have told *)

Making == {"check", "quiet", "digest"}

\* What is on the page a flush is at has been told on the channels it has passed.
ReadOut ==
    \A w \in Workers : \A x \in Page(w) :
        /\ at[w] \in {"text", "drop"} /\ "email" \in ChannelsOf[x[1]] => told[x]["email"] > 0
        /\ at[w] = "drop" /\ "sms" \in ChannelsOf[x[1]] => told[x]["sms"] > 0

\* The entry of run r of n is still to be made.
Unmade(n, r) ==
    \/ r > timer[n].run
    \/ r = timer[n].run /\ \E w \in Workers : at[w] \in Making /\ errand[w].notice = n

\* One flush at a time, only the page it is at has been told, and once.
ToldOnce ==
    /\ \A w \in Workers : at[w] \in Flush => errand[w].batch \in SUBSET buffer
    /\ \A x \in buffer : \A ch \in Reading :
          /\ told[x][ch] <= 1
          /\ told[x][ch] > 0 =>
                \E w \in Workers : x \in Page(w) /\ (at[w] = "drop" \/ (at[w] = "text" /\ ch = "email"))
    /\ \A n \in Notices : \A r \in Runs : Unmade(n, r) =>
          <<n, r>> \notin buffer /\ \A ch \in Reading : told[<<n, r>>][ch] = 0

DigestsHold == ReadOut /\ (failures = 0 /\ ~overlap => ToldOnce)

\* A page is part of what the flush read, and another worker's stays.
LEMMA PageIs ==
    ASSUME NoticeColumns, NEW v \in Workers
    PROVE  /\ Page(v) \subseteq errand[v].batch /\ Page(v) \subseteq DigestEntries
           /\ recipient' = recipient /\ errand'[v] = errand[v] => Page(v)' = Page(v)
BY DEF NoticeColumns, NoticeErrands, Page, UserOf

LEMMA ReadOutKept ==
    ASSUME NoticeColumns, ReadOut, NEW w \in Workers, recipient' = recipient,
           \A v \in Workers \ {w} : at'[v] = at[v] /\ errand'[v] = errand[v],
           \A x \in DigestEntries : \A ch \in Reading : told[x][ch] > 0 => told'[x][ch] > 0,
           at'[w] \notin {"text", "drop"}
    PROVE  ReadOut'
<1> SUFFICES ASSUME NEW v \in Workers, NEW x \in Page(v)', at'[v] \in {"text", "drop"}
             PROVE  /\ "email" \in ChannelsOf[x[1]] => told'[x]["email"] > 0
                    /\ at'[v] = "drop" /\ "sms" \in ChannelsOf[x[1]] => told'[x]["sms"] > 0
  BY DEF ReadOut
<1>1. v \in Workers \ {w}
  OBVIOUS
<1>2. x \in Page(v) /\ x \in DigestEntries
  BY <1>1, PageIs
<1>3. QED
  BY <1>1, <1>2 DEF ReadOut, Reading

\* What has a run less to make.
LEMMA MadeLess ==
    ASSUME NoticeColumns, NEW w \in Workers, NEW n \in Notices, About(w, n),
           timer'[n].run \in {timer[n].run, timer[n].run + 1},
           timer'[n].run = timer[n].run /\ at'[w] \in Making => at[w] \in Making
    PROVE  \A m \in Notices : \A r \in Runs : Unmade(m, r)' => Unmade(m, r)
<1> SUFFICES ASSUME NEW m \in Notices, NEW r \in Runs, Unmade(m, r)'
             PROVE  Unmade(m, r)
  OBVIOUS
<1>1. timer[m].run \in Nat /\ r \in Nat
  BY NoticesAssumption DEF NoticeColumns, Timers, Runs
<1>2. CASE timer'[m].run # timer[m].run
  <2>1. timer'[m].run = timer[m].run + 1
    BY <1>2 DEF About
  <2>2. QED
    BY <1>1, <2>1 DEF Unmade
<1>3. CASE timer'[m].run = timer[m].run
  <2>1. ASSUME NEW v \in Workers, at'[v] \in Making, errand'[v].notice = m
        PROVE  \E u \in Workers : at[u] \in Making /\ errand[u].notice = m
    <3>1. CASE v # w
      BY <2>1, <3>1 DEF About
    <3>2. CASE v = w
      <4>1. m = n
        BY <2>1, <3>2 DEF About, Making, Off, Flush
      <4>2. at[w] \in Making
        BY <1>3, <2>1, <3>2, <4>1
      <4>3. errand[w].notice = n
        BY <4>2 DEF About, Making, Off, Flush
      <4>4. QED
        BY <4>1, <4>2, <4>3
    <3>3. QED
      BY <3>1, <3>2
  <2>2. QED
    BY <1>1, <1>3, <2>1 DEF Unmade
<1>4. QED
  BY <1>2, <1>3

\* Steps that have nothing to do with the digests.
LEMMA DigestsApart ==
    ASSUME NoticeColumns, DigestsHold, NEW w \in Workers, NEW n \in Notices, About(w, n),
           recipient' = recipient, UNCHANGED digests, at'[w] \notin Flush,
           failures' = 0 =>
               /\ at[w] \notin Flush /\ timer'[n].run \in {timer[n].run, timer[n].run + 1}
               /\ timer'[n].run = timer[n].run /\ at'[w] \in Making => at[w] \in Making
    PROVE  DigestsHold'
<1>1. /\ buffer' = buffer /\ told' = told
      /\ \A v \in Workers \ {w} : at'[v] = at[v] /\ errand'[v] = errand[v]
      /\ overlap' = overlap /\ failures \in Nat /\ failures' \in Nat /\ failures <= failures'
  BY DEF About, digests, NoticeColumns
<1>2. ReadOut'
  BY <1>1, ReadOutKept DEF DigestsHold, Flush
<1>3. ASSUME failures' = 0, ~overlap' PROVE ToldOnce'
  <2>1. ToldOnce /\ at[w] \notin Flush
    BY <1>1, <1>3 DEF DigestsHold
  <2>2. \A m \in Notices : \A r \in Runs : Unmade(m, r)' => Unmade(m, r)
    BY <1>3, MadeLess
  <2>3. \A v \in Workers : at'[v] \in Flush => v # w
    OBVIOUS
  <2>4. ASSUME NEW x \in buffer, NEW ch \in Reading, told[x][ch] > 0
        PROVE  \E v \in Workers : x \in Page(v)' /\ (at'[v] = "drop" \/ (at'[v] = "text" /\ ch = "email"))
    <3>1. PICK v \in Workers : x \in Page(v) /\ (at[v] = "drop" \/ (at[v] = "text" /\ ch = "email"))
      BY <2>1, <2>4 DEF ToldOnce
    <3>2. v \in Workers \ {w}
      BY <2>1, <3>1 DEF Flush
    <3>3. x \in Page(v)'
      BY <1>1, <3>1, <3>2, PageIs
    <3>4. QED
      BY <1>1, <3>1, <3>2, <3>3
  <2>5. QED
    BY <1>1, <2>1, <2>2, <2>3, <2>4 DEF ToldOnce
<1>4. QED
  BY <1>2, <1>3 DEF DigestsHold

\* One flush at a time: whoever flushes is the worker that moves.
LEMMA FlushAlone ==
    ASSUME OneAtWork, ~overlap, NEW w \in Workers, at[w] # "idle" \/ w = OneWorker
    PROVE  \A v \in Workers \ {w} : at[v] = "idle"
BY DEF OneAtWork

LEMMA DigestDeferred ==
    ASSUME NoticeColumns, DigestsHold, NEW w \in Workers, NEW n \in Notices, n = errand[w].notice, JobOf(n),
           recipient' = recipient, Defer(w)
    PROVE  DigestsHold'
<1>1. Clocked(n) /\ Manned(n)
  BY DEF JobOf
<1>2. /\ About(w, n) /\ failures' = failures /\ at[w] = "digest" /\ at'[w] \in {"hand", "sent"}
      /\ timer' = timer /\ buffer' \in {buffer, buffer \cup {<<n, timer[n].run>>}}
  BY <1>1, DeferDoes
<1>3. told' = told
  BY DEF Defer
<1>4. /\ \A v \in Workers \ {w} : at'[v] = at[v] /\ errand'[v] = errand[v]
      /\ overlap' = overlap /\ OnJob(w, n)
  BY <1>2 DEF About, OnJob, On, Off, Delivery, Flush
<1>5. ReadOut'
  BY <1>2, <1>3, <1>4, ReadOutKept DEF DigestsHold
<1>6. ASSUME failures' = 0, ~overlap' PROVE ToldOnce'
  <2>1. ToldOnce
    BY <1>2, <1>4, <1>6 DEF DigestsHold
  <2>2. \A m \in Notices : \A r \in Runs : Unmade(m, r)' => Unmade(m, r)
    BY <1>2, MadeLess DEF Making
  <2>3. timer[n].run \in Runs /\ timer[n].run \in Nat
    BY <1>1, <1>4, RunTyped, NoticesAssumption DEF Runs
  <2>4. Unmade(n, timer[n].run)
    BY <1>2 DEF Unmade, Making
  <2>5. \A r \in Runs : r = timer[n].run => ~Unmade(n, r)'
    <3>1. ASSUME NEW v \in Workers PROVE ~(at'[v] \in Making /\ errand'[v].notice = n)
      <4>1. CASE v = w
        BY <1>2, <4>1 DEF Making
      <4>2. CASE v # w
        <5>1. ~OnJob(v, n)
          BY <1>4, <4>2, AloneOnJob
        <5>2. QED
          BY <1>4, <4>2, <5>1 DEF OnJob, On, Off, Delivery, Flush, Making
      <4>3. QED
        BY <4>1, <4>2
    <3>2. QED
      BY <1>2, <2>3, <3>1 DEF Unmade
  <2>6. \A v \in Workers : at'[v] \in Flush => errand'[v].batch \in SUBSET buffer'
    BY <1>2, <1>4, <2>1 DEF ToldOnce, Flush
  <2>7. ASSUME NEW x \in buffer', NEW ch \in Reading
        PROVE  /\ told'[x][ch] <= 1
               /\ told'[x][ch] > 0 => \E v \in Workers : /\ x \in Page(v)'
                                                         /\ at'[v] = "drop" \/ (at'[v] = "text" /\ ch = "email")
    <3>1. CASE x \in buffer
      <4>1. told[x][ch] <= 1
        BY <2>1, <3>1 DEF ToldOnce
      <4>2. ASSUME told[x][ch] > 0
            PROVE  \E v \in Workers : x \in Page(v)' /\ (at'[v] = "drop" \/ (at'[v] = "text" /\ ch = "email"))
        <5>1. PICK v \in Workers : x \in Page(v) /\ (at[v] = "drop" \/ (at[v] = "text" /\ ch = "email"))
          BY <2>1, <3>1, <4>2 DEF ToldOnce
        <5>2. v \in Workers \ {w}
          BY <1>2, <5>1
        <5>3. x \in Page(v)'
          BY <1>4, <5>1, <5>2, PageIs
        <5>4. QED
          BY <1>4, <5>1, <5>2, <5>3
      <4>3. QED
        BY <1>3, <4>1, <4>2
    <3>2. CASE x = <<n, timer[n].run>>
      BY <1>3, <2>1, <2>3, <2>4, <3>2 DEF ToldOnce
    <3>3. QED
      BY <1>2, <3>1, <3>2
  <2>8. ASSUME NEW m \in Notices, NEW r \in Runs, Unmade(m, r)'
        PROVE  <<m, r>> \notin buffer' /\ \A ch \in Reading : told'[<<m, r>>][ch] = 0
    <3>1. Unmade(m, r)
      BY <2>2, <2>8
    <3>2. <<m, r>> # <<n, timer[n].run>>
      BY <2>5, <2>8
    <3>3. QED
      BY <1>2, <1>3, <2>1, <3>1, <3>2 DEF ToldOnce
  <2>9. QED
    BY <2>6, <2>7, <2>8 DEF ToldOnce
<1>7. QED
  BY <1>5, <1>6 DEF DigestsHold

LEMMA DigestScanned ==
    ASSUME NoticeColumns, OneAtWork, DigestsHold, NEW w \in Workers, recipient' = recipient, Scan(w)
    PROVE  DigestsHold'
<1>1. /\ failures' = failures /\ overlap' = overlap /\ at[w] = "idle" /\ (overlap \/ w = OneWorker)
      /\ at'[w] = "mail" /\ errand'[w].batch = buffer
      /\ \A v \in Workers \ {w} : at'[v] = at[v] /\ errand'[v] = errand[v]
      /\ timer' = timer /\ buffer' = buffer /\ told' = told
  BY ScanDoes DEF JobStays, digests
<1>2. ReadOut'
  BY <1>1, ReadOutKept DEF DigestsHold
<1>3. ASSUME failures' = 0, ~overlap' PROVE ToldOnce'
  <2>1. ToldOnce /\ \A v \in Workers : at[v] = "idle"
    BY <1>1, <1>3, FlushAlone DEF DigestsHold
  <2>2. \A x \in buffer : \A ch \in Reading : ~(told[x][ch] > 0) /\ told[x][ch] <= 1
    BY <2>1 DEF ToldOnce
  <2>3. \A v \in Workers : at'[v] \in Flush => v = w
    BY <1>1, <2>1 DEF Flush
  <2>4. \A m, r : Unmade(m, r)' => Unmade(m, r)
    BY <1>1 DEF Unmade, Making
  <2>5. QED
    BY <1>1, <2>1, <2>2, <2>3, <2>4 DEF ToldOnce
<1>4. QED
  BY <1>2, <1>3 DEF DigestsHold

\* A message on c to the user the flush is at.
LEMMA DigestTold ==
    ASSUME NoticeColumns, OneAtWork, DigestsHold, NEW w \in Workers, recipient' = recipient,
           NEW c \in Reading, at[w] \in Flush, at'[w] \in {"text", "drop"},
           c = "email" => at[w] = "mail" /\ at'[w] = "text",
           c = "sms" => at[w] = "text" /\ at'[w] = "drop",
           \A v \in Workers \ {w} : at'[v] = at[v], errand' = errand, timer' = timer, buffer' = buffer,
           failures' = failures, overlap' = overlap,
           (Wanted(w, c) /\ TellsPage(w, c)) \/ (~Wanted(w, c) /\ told' = told)
    PROVE  DigestsHold'
<1>1. \A v \in Workers : Page(v)' = Page(v) /\ Page(v) \subseteq DigestEntries /\ Page(v) \subseteq errand[v].batch
  BY PageIs
<1>2. \A x \in DigestEntries : \A ch \in Reading : told[x][ch] \in Nat /\ told[x][ch] <= MaxTold /\ MaxTold = 2
  BY DEF NoticeColumns, MaxTold
<1>3. /\ \A x \in DigestEntries : \A ch \in Reading :
            /\ told[x][ch] > 0 => told'[x][ch] > 0
            /\ x \notin Page(w) \/ ch # c => told'[x][ch] = told[x][ch]
            /\ told'[x][ch] <= told[x][ch] + 1
      /\ \A x \in Page(w) : c \in ChannelsOf[x[1]] => told'[x][c] > 0
  <2>1. CASE Wanted(w, c) /\ TellsPage(w, c)
    BY <1>1, <1>2, <2>1 DEF TellsPage
  <2>2. CASE ~Wanted(w, c) /\ told' = told
    BY <1>2, <2>2 DEF Wanted
  <2>3. QED
    BY <2>1, <2>2
<1>4. ReadOut'
  <2>1. ASSUME NEW v \in Workers, NEW x \in Page(v), v # w
        PROVE  /\ at'[v] \in {"text", "drop"} /\ "email" \in ChannelsOf[x[1]] => told'[x]["email"] > 0
               /\ at'[v] = "drop" /\ "sms" \in ChannelsOf[x[1]] => told'[x]["sms"] > 0
    BY <1>1, <1>3, <2>1 DEF DigestsHold, ReadOut, Reading
  <2>2. ASSUME NEW x \in Page(w)
        PROVE  /\ at'[w] \in {"text", "drop"} /\ "email" \in ChannelsOf[x[1]] => told'[x]["email"] > 0
               /\ at'[w] = "drop" /\ "sms" \in ChannelsOf[x[1]] => told'[x]["sms"] > 0
    <3>1. CASE c = "email"
      BY <1>3, <3>1
    <3>2. CASE c = "sms"
      <4>1. "email" \in ChannelsOf[x[1]] => told[x]["email"] > 0
        BY <3>2 DEF DigestsHold, ReadOut
      <4>2. QED
        BY <1>1, <1>3, <3>2, <4>1 DEF Reading
    <3>3. QED
      BY <3>1, <3>2 DEF Reading
  <2>3. QED
    BY <1>1, <2>1, <2>2 DEF ReadOut
<1>5. ASSUME failures' = 0, ~overlap' PROVE ToldOnce'
  <2>1. ToldOnce /\ \A v \in Workers \ {w} : at[v] = "idle"
    BY <1>5, FlushAlone DEF DigestsHold, Flush
  <2>2. errand[w].batch \in SUBSET buffer
    BY <2>1 DEF ToldOnce
  <2>3. \A v \in Workers : at'[v] \in Flush => v = w
    BY <2>1 DEF Flush
  <2>4. ASSUME NEW x \in buffer, NEW ch \in Reading
        PROVE  /\ told'[x][ch] <= 1
               /\ told'[x][ch] > 0 => x \in Page(w) /\ (at'[w] = "drop" \/ (at'[w] = "text" /\ ch = "email"))
    <3>1. x \in DigestEntries
      BY DEF NoticeColumns
    <3>2. told[x][ch] <= 1 /\ (told[x][ch] > 0 => x \in Page(w) /\ (at[w] = "drop" \/ (at[w] = "text" /\ ch = "email")))
      BY <2>1 DEF ToldOnce
    <3>3. CASE c = "email"
      <4>1. told[x][ch] = 0
        BY <1>2, <3>1, <3>2, <3>3
      <4>2. QED
        BY <1>3, <3>1, <3>3, <4>1
    <3>4. CASE c = "sms"
      <4>1. ch = "email" \/ (ch = c /\ told[x][ch] = 0)
        BY <1>2, <3>1, <3>2, <3>4 DEF Reading
      <4>2. told'[x]["email"] = told[x]["email"]
        BY <1>3, <3>1, <3>4 DEF Reading
      <4>3. QED
        BY <1>3, <3>1, <3>2, <3>4, <4>1, <4>2
    <3>5. QED
      BY <3>3, <3>4 DEF Reading
  <2>5. ASSUME NEW n \in Notices, NEW r \in Runs, Unmade(n, r)'
        PROVE  <<n, r>> \notin buffer' /\ \A ch \in Reading : told'[<<n, r>>][ch] = 0
    <3>1. Unmade(n, r)
      BY <2>5 DEF Unmade, Making
    <3>2. <<n, r>> \notin buffer /\ \A ch \in Reading : told[<<n, r>>][ch] = 0
      BY <2>1, <3>1 DEF ToldOnce
    <3>3. <<n, r>> \notin Page(w) /\ <<n, r>> \in DigestEntries
      BY <1>1, <2>2, <3>2 DEF DigestEntries
    <3>4. QED
      BY <1>3, <3>2, <3>3
  <2>6. QED
    BY <1>1, <2>2, <2>3, <2>4, <2>5 DEF ToldOnce
<1>6. QED
  BY <1>4, <1>5 DEF DigestsHold

LEMMA DigestDropped ==
    ASSUME NoticeColumns, OneAtWork, DigestsHold, NEW w \in Workers, recipient' = recipient, Drop(w)
    PROVE  DigestsHold'
<1>1. /\ failures' = failures /\ overlap' = overlap /\ at[w] = "drop"
      /\ at'[w] = "idle" \/ (at'[w] = "mail" /\ errand'[w].batch = errand[w].batch \ Page(w))
      /\ \A v \in Workers \ {w} : at'[v] = at[v] /\ errand'[v] = errand[v]
      /\ timer' = timer /\ buffer' = buffer \ Page(w) /\ told' = told
  BY DropDoes DEF JobStays
<1>2. ReadOut'
  BY <1>1, ReadOutKept DEF DigestsHold
<1>3. ASSUME failures' = 0, ~overlap' PROVE ToldOnce'
  <2>1. ToldOnce /\ \A v \in Workers \ {w} : at[v] = "idle"
    BY <1>1, <1>3, FlushAlone DEF DigestsHold
  <2>2. \A x \in buffer' : \A ch \in Reading : ~(told[x][ch] > 0) /\ told[x][ch] <= 1
    BY <1>1, <2>1 DEF ToldOnce
  <2>3. \A v \in Workers : at'[v] \in Flush => v = w
    BY <1>1, <2>1 DEF Flush
  <2>4. at'[w] \in Flush => errand'[w].batch \in SUBSET buffer'
    BY <1>1, <2>1 DEF ToldOnce, Flush
  <2>5. \A m, r : Unmade(m, r)' => Unmade(m, r)
    BY <1>1 DEF Unmade, Making
  <2>6. QED
    BY <1>1, <2>1, <2>2, <2>3, <2>4, <2>5 DEF ToldOnce
<1>4. QED
  BY <1>2, <1>3 DEF DigestsHold

\* Steps that leave the digests alone.
LEMMA DigestsStay ==
    ASSUME NEW w \in Workers,
           \/ SetTimer(w) \/ RemoveTimer(w) \/ WriteCancelled(w)
           \/ Check(w) \/ WriteSent(w) \/ WriteFailed(w)
           \/ \E quiet \in BOOLEAN : AskQuiet(w, quiet)
           \/ \E ch \in Channels : Hand(w, ch)
           \/ \E n \in Notices : Fire(w, n) \/ Schedule(w, n) \/ Cancel(w, n)
           \/ EngineThrows(w) \/ DeliverThrows(w) \/ ErrandFails(w)
    PROVE  UNCHANGED digests
<1>1. CASE SetTimer(w) \/ RemoveTimer(w) \/ WriteCancelled(w) \/ Check(w) \/ WriteSent(w) \/ WriteFailed(w)
  BY <1>1 DEF SetTimer, RemoveTimer, WriteCancelled, Check, WriteSent, WriteFailed
<1>2. CASE \/ \E quiet \in BOOLEAN : AskQuiet(w, quiet)
           \/ \E ch \in Channels : Hand(w, ch)
  BY <1>2 DEF AskQuiet, Hand
<1>3. CASE \E n \in Notices : Fire(w, n) \/ Schedule(w, n) \/ Cancel(w, n)
  BY <1>3 DEF Fire, Schedule, Cancel
<1>4. CASE EngineThrows(w) \/ DeliverThrows(w) \/ ErrandFails(w)
  BY <1>4 DEF EngineThrows, DeliverThrows, ErrandFails
<1>5. QED
  BY <1>1, <1>2, <1>3, <1>4

LEMMA RunStays ==
    ASSUME NEW n \in Notices, NEW s, JobTurns(n, s)
    PROVE  timer'[n].run = timer[n].run
BY DEF JobTurns

LEMMA DigestsStep ==
    ASSUME NoticesHold, DigestsHold, NEW w \in Workers, NoticeTurn(w)
    PROVE  DigestsHold'
<1>1. NoticeColumns /\ OneAtWork /\ Packed /\ recipient' = recipient /\ \A m \in Notices : JobOf(m)
  BY DEF NoticesHold, NoticeTurn
<1>2. PICK n \in Notices : n = errand[w].notice
  BY <1>1 DEF NoticeColumns, NoticeErrands
<1>3. JobOf(n) /\ Clocked(n) /\ Manned(n) /\ failures <= failures /\ failures \in Nat
  BY <1>1 DEF JobOf, NoticeColumns
<1>4. CASE SetTimer(w)
  <2>1. /\ About(w, n) /\ failures' = failures /\ at[w] = "timer" /\ at'[w] = "idle"
        /\ timer'[n].run = timer[n].run
    BY <1>1, <1>2, <1>4, SetTimerDoes, RunStays
  <2>2. QED
    BY <1>1, <1>4, <2>1, DigestsStay, DigestsApart DEF Flush, Making
<1>5. CASE RemoveTimer(w)
  <2>1. /\ About(w, n) /\ failures' = failures /\ at[w] = "remove" /\ at'[w] \in {"idle", "cancel"}
        /\ timer'[n].run = timer[n].run
    BY <1>1, <1>2, <1>5, RemoveTimerDoes, RunStays
  <2>2. QED
    BY <1>1, <1>5, <2>1, DigestsStay, DigestsApart DEF Flush, Making
<1>6. CASE WriteCancelled(w)
  <2>1. /\ About(w, n) /\ failures' = failures /\ at[w] = "cancel" /\ at'[w] = "idle"
        /\ timer'[n].run = timer[n].run
    BY <1>1, <1>2, <1>6, WriteCancelledDoes
  <2>2. QED
    BY <1>1, <1>6, <2>1, DigestsStay, DigestsApart DEF Flush, Making
<1>7. CASE Check(w)
  <2>1. /\ About(w, n) /\ failures' = failures /\ at[w] = "check" /\ at'[w] \in {"quiet", "idle"}
        /\ timer'[n].run = timer[n].run
    BY <1>1, <1>2, <1>7, CheckDoes, RunStays
  <2>2. QED
    BY <1>1, <1>7, <2>1, DigestsStay, DigestsApart DEF Flush, Making
<1>8. CASE Defer(w)
  BY <1>1, <1>2, <1>3, <1>8, DigestDeferred
<1>9. CASE WriteSent(w)
  <2>1. /\ About(w, n) /\ failures' = failures /\ at[w] = "sent" /\ at'[w] = "idle"
        /\ timer'[n].run = timer[n].run
    BY <1>1, <1>2, <1>9, WriteSentDoes, RunStays
  <2>2. QED
    BY <1>1, <1>9, <2>1, DigestsStay, DigestsApart DEF Flush, Making
<1>10. CASE WriteFailed(w)
  <2>1. /\ About(w, n) /\ failures' = failures /\ at[w] = "failed" /\ at'[w] = "idle"
        /\ timer'[n].run = timer[n].run
    BY <1>1, <1>2, <1>10, WriteFailedDoes, AgainClocked
  <2>2. QED
    BY <1>1, <1>10, <2>1, DigestsStay, DigestsApart DEF Flush, Making
<1>11. ASSUME NEW quiet \in BOOLEAN, AskQuiet(w, quiet) PROVE DigestsHold'
  <2>1. /\ About(w, n) /\ failures' = failures /\ at[w] = "quiet" /\ at'[w] \in {"digest", "sent"}
        /\ timer'[n].run = timer[n].run
    BY <1>1, <1>2, <1>11, AskQuietDoes
  <2>2. QED
    BY <1>1, <1>11, <2>1, DigestsStay, DigestsApart DEF Flush, Making
<1>12. ASSUME NEW ch \in Channels, Hand(w, ch) PROVE DigestsHold'
  <2>1. /\ About(w, n) /\ failures' = failures /\ at[w] = "hand" /\ at'[w] \in {"hand", "sent"}
        /\ timer'[n].run = timer[n].run
    BY <1>1, <1>2, <1>3, <1>12, HandDoes
  <2>2. QED
    BY <1>1, <1>12, <2>1, DigestsStay, DigestsApart DEF Flush, Making
<1>13. ASSUME NEW m \in Notices, Fire(w, m) PROVE DigestsHold'
  <2>1. /\ About(w, m) /\ failures' = failures /\ at[w] = "idle" /\ at'[w] = "check"
        /\ timer'[m] = [state |-> "active", run |-> timer[m].run + 1, stalled |-> timer[m].stalled]
    BY <1>1, <1>13, FireDoes
  <2>2. timer'[m].run = timer[m].run + 1 /\ timer'[m].run # timer[m].run
    BY <1>1, <2>1 DEF NoticeColumns, Timers
  <2>3. QED
    BY <1>1, <1>13, <2>1, <2>2, DigestsStay, DigestsApart DEF Flush
<1>14. ASSUME NEW m \in Notices, Schedule(w, m) PROVE DigestsHold'
  <2>1. /\ About(w, m) /\ failures' = failures /\ at[w] = "idle" /\ at'[w] = "timer"
        /\ timer'[m].run = timer[m].run
    BY <1>1, <1>14, ScheduleDoes
  <2>2. QED
    BY <1>1, <1>14, <2>1, DigestsStay, DigestsApart DEF Flush, Making
<1>15. ASSUME NEW m \in Notices, Cancel(w, m) PROVE DigestsHold'
  <2>1. /\ About(w, m) /\ failures' = failures /\ at[w] = "idle" /\ at'[w] = "remove"
        /\ timer'[m].run = timer[m].run
    BY <1>1, <1>15, CancelDoes DEF JobStays
  <2>2. QED
    BY <1>1, <1>15, <2>1, DigestsStay, DigestsApart DEF Flush, Making
<1>16. CASE EngineThrows(w)
  <2>1. About(w, n) /\ failures' # 0 /\ at'[w] = "failed"
    BY <1>1, <1>2, <1>3, <1>16, EngineThrowsDoes
  <2>2. QED
    BY <1>1, <1>16, <2>1, DigestsStay, DigestsApart DEF Flush
<1>17. CASE DeliverThrows(w)
  <2>1. About(w, n) /\ failures' # 0 /\ at'[w] = "idle"
    BY <1>1, <1>2, <1>3, <1>17, DeliverThrowsDoes
  <2>2. QED
    BY <1>1, <1>17, <2>1, DigestsStay, DigestsApart DEF Flush
<1>18. CASE ErrandFails(w)
  <2>1. About(w, n) /\ failures' = failures + 1 /\ at'[w] = "idle"
    BY <1>1, <1>2, <1>18, ErrandFailsDoes
  <2>2. failures' # 0
    BY <1>3, <2>1
  <2>3. QED
    BY <1>1, <1>18, <2>1, <2>2, DigestsStay, DigestsApart DEF Flush
<1>19. ASSUME (\E d \in dispatches : Pick(w, d)) \/ SendOut(w)
       PROVE  DigestsHold'
  <2>1. /\ failures' = failures /\ overlap' = overlap /\ JobStays /\ UNCHANGED digests
        /\ at[w] \in {"idle", "channel"} /\ at'[w] \in {"idle", "channel"}
        /\ \A v \in Workers \ {w} : at'[v] = at[v] /\ errand'[v] = errand[v]
    BY <1>1, <1>19, PickDoes, SendOutDoes
  <2>2. About(w, n)
    BY <1>3, <2>1 DEF About, Off, JobStays, RowStays, tally
  <2>3. QED
    BY <1>1, <2>1, <2>2, DigestsApart DEF JobStays, Flush, Making
<1>20. CASE Scan(w)
  BY <1>1, <1>20, DigestScanned
<1>21. CASE Mail(w)
  <2>1. /\ at[w] = "mail" /\ at'[w] = "text" /\ errand' = errand /\ timer' = timer /\ buffer' = buffer
        /\ \A v \in Workers \ {w} : at'[v] = at[v]
        /\ failures' = failures /\ overlap' = overlap
        /\ (Wanted(w, "email") /\ TellsPage(w, "email")) \/ (~Wanted(w, "email") /\ told' = told)
    BY <1>1, <1>21, MailDoes DEF JobStays
  <2>2. QED
    BY <1>1, <2>1, DigestTold DEF Reading, Flush
<1>22. CASE Text(w)
  <2>1. /\ at[w] = "text" /\ at'[w] = "drop" /\ errand' = errand /\ timer' = timer /\ buffer' = buffer
        /\ \A v \in Workers \ {w} : at'[v] = at[v]
        /\ failures' = failures /\ overlap' = overlap
        /\ (Wanted(w, "sms") /\ TellsPage(w, "sms")) \/ (~Wanted(w, "sms") /\ told' = told)
    BY <1>1, <1>22, TextDoes DEF JobStays
  <2>2. QED
    BY <1>1, <2>1, DigestTold DEF Reading, Flush
<1>23. CASE Drop(w)
  BY <1>1, <1>23, DigestDropped
<1>24. QED
  BY <1>4, <1>5, <1>6, <1>7, <1>8, <1>9, <1>10, <1>11, <1>12, <1>13, <1>14, <1>15, <1>16, <1>17,
     <1>18, <1>19, <1>20, <1>21, <1>22, <1>23 DEF NoticeTurn

-----------------------------------------------------------------------------
(* Notices in the composition *)

\* A behaviour that follows the webhooks leaves the notices as they were.
Asleep ==
    /\ failures \in Nat /\ NoticesTypeOK
    /\ notice = [n \in Notices |-> "none"] /\ handed = [n \in Notices |-> [ch \in Channels |-> 0]]
    /\ buffer = {}

NoticesWell == IF scope = "notices" THEN NoticesHold /\ DigestsHold ELSE Asleep

LEMMA NoticesInit == AnnouncementsInit => NoticesWell
<1> SUFFICES ASSUME AnnouncementsInit PROVE NoticesWell
  OBVIOUS
<1>1. NoticeInit /\ QueueInit
  BY DEF AnnouncementsInit
<1>2. Asleep
  <2>1. NoticesTypeOK
    BY <1>1, NoticesAssumption DEF NoticeInit, NoticesTypeOK, NoTimer
  <2>2. QED
    BY <1>1, <2>1 DEF NoticeInit, QueueInit, Asleep
<1>3. /\ \A w \in Workers : at[w] = "idle" /\ errand[w] = NoErrand
      /\ \A n \in Notices : timer[n] = NoTimer /\ notice[n] = "none" /\ \A ch \in Channels : handed[n][ch] = 0
      /\ failures = 0 /\ buffer = {}
      /\ \A x \in DigestEntries : \A ch \in Reading : told[x][ch] = 0
  BY <1>1 DEF NoticeInit, QueueInit
<1>4. NoticeColumns
  <2>1. told \in [DigestEntries -> [Reading -> 0..MaxTold]]
    BY <1>1 DEF NoticeInit, MaxTold
  <2>2. handed \in [Notices -> [Channels -> Nat]]
    BY <1>1 DEF NoticeInit
  <2>3. timer \in [Notices -> Timers] /\ errand \in [Workers -> NoticeErrands]
    BY <1>1, NoErrandTyped DEF NoticeInit
  <2>4. QED
    BY <1>1, <2>1, <2>2, <2>3 DEF NoticeColumns, NoticeInit, QueueInit, NoticePlaces, Off
<1>5. OneAtWork /\ Packed
  BY <1>3 DEF OneAtWork, Packed
<1>6. ASSUME NEW n \in Notices PROVE JobOf(n)
  <2>1. \A w \in Workers : ~On(w, n) /\ ~OnJob(w, n)
    BY <1>3 DEF On, OnJob, Off
  <2>2. Clocked(n)
    BY <1>3, NoticesAssumption DEF Clocked, NoTimer, Stalls
  <2>3. Manned(n)
    BY <1>3, <2>1 DEF Manned, NoTimer
  <2>4. Reaching(n) /\ Unfailed(n) /\ Uncancelled(n)
    BY <1>3, <2>1 DEF Reaching, Unfailed, Uncancelled, Unhanded, NoTimer
  <2>5. ASSUME NEW ch \in Channels PROVE Spent(n, ch)
    BY <1>3 DEF Spent, Open, Stalls, NoTimer
  <2>6. QED
    BY <2>2, <2>3, <2>4, <2>5 DEF JobOf
<1>7. ReadOut
  BY <1>3 DEF ReadOut
<1>8. ToldOnce
  <2>1. \A n \in Notices : \A r \in Runs : <<n, r>> \in DigestEntries
    BY DEF DigestEntries
  <2>2. QED
    BY <1>3, <2>1 DEF ToldOnce, Flush
<1>9. QED
  BY <1>2, <1>4, <1>5, <1>6, <1>7, <1>8 DEF NoticesWell, NoticesHold, DigestsHold

\* The webhooks count their failures.
LEMMA FailuresCounted ==
    ASSUME failures \in Nat,
           \/ \E w \in Workers : Deliver(w)
           \/ WebhookOther
    PROVE  failures' \in Nat
<1>1. ASSUME NEW w \in Workers, NEW place, Arrive(w, place) \/ Fails(w, place) \/ UNCHANGED queueVars \/ Finished(w)
      PROVE  failures' \in Nat
  BY <1>1 DEF Arrive, Fails, queueVars, Finished
<1>2. ASSUME NEW w \in Workers, Deliver(w) PROVE failures' \in Nat
  <2>1. CASE CreateRow(w) \/ AddJob(w) \/ Post(w)
    BY <1>1, <2>1 DEF CreateRow, AddJob, Post
  <2>2. CASE LogAnswer(w)
    BY <1>1, <2>2 DEF LogAnswer
  <2>3. ASSUME NEW e \in Events, Listen(w, e) PROVE failures' \in Nat
    BY <1>1, <2>3 DEF Listen
  <2>4. QED
    BY <1>2, <2>1, <2>2, <2>3 DEF Deliver
<1>3. CASE WebhookOther
  <2>1. CASE Subscribe \/ Unsubscribe \/ \E e \in Events \ Tests : Emit(e)
    BY <2>1 DEF Subscribe, Unsubscribe, Emit, queueVars
  <2>2. ASSUME NEW w \in Workers, DeliveryFails(w) \/ \E e \in Tests : Test(w, e) PROVE failures' \in Nat
    BY <1>1, <2>2 DEF DeliveryFails, Test
  <2>3. QED
    BY <1>3, <2>1, <2>2 DEF WebhookOther
<1>4. QED
  BY <1>2, <1>3

\* A step of the notices is a worker's.
LEMMA TurnIs ==
    ASSUME (\E w \in Workers : AttendTo(w)) \/ OtherNoticeStep
    PROVE  scope = "notices" /\ scope' = scope /\ \E w \in Workers : NoticeTurn(w)
<1>1. ASSUME NEW w \in Workers, AttendTo(w) PROVE NoticeTurn(w)
  BY <1>1 DEF AttendTo, Attend, NoticeTurn
<1>2. ASSUME OtherNoticeStep PROVE \E w \in Workers : NoticeTurn(w)
  <2>1. PICK w \in Workers : \/ EngineThrows(w) \/ DeliverThrows(w) \/ ErrandFails(w)
                             \/ \E n \in Notices : Schedule(w, n) \/ Cancel(w, n)
    BY <1>2 DEF OtherNoticeStep, NoticeOther
  <2>2. NoticeTurn(w)
    BY <1>2, <2>1 DEF OtherNoticeStep, NoticeTurn
  <2>3. QED
    BY <2>2
<1>3. scope = "notices" /\ scope' = scope
  BY DEF AttendTo, OtherNoticeStep
<1>4. QED
  BY <1>1, <1>2, <1>3

LEMMA NoticesStay ==
    ASSUME NoticesHold, DigestsHold, UNCHANGED <<queueVars, noticeVars>>
    PROVE  NoticesHold' /\ DigestsHold'
<1>1. /\ at' = at /\ errand' = errand /\ timer' = timer /\ notice' = notice /\ handed' = handed /\ muted' = muted
      /\ failures' = failures /\ overlap' = overlap /\ buffer' = buffer /\ told' = told /\ recipient' = recipient
      /\ dispatches' = dispatches /\ lost' = lost /\ got' = got
  BY DEF queueVars, noticeVars, channelJobs, digests, tally
<1>2. NoticeColumns /\ OneAtWork /\ Packed /\ \A m \in Notices : JobOf(m)
  BY DEF NoticesHold
<1>3. NoticeColumns' /\ OneAtWork' /\ Packed'
  BY <1>1, <1>2 DEF NoticeColumns, OneAtWork, Packed
<1>4. ASSUME NEW n \in Notices PROVE JobOf(n)'
  BY <1>1, <1>2 DEF JobOf, Clocked, Manned, Reaching, Spent, Unfailed, Uncancelled, Open, Failing, Given,
                    Unhanded, Stalls, On, OnJob
<1>5. \A w : Page(w)' = Page(w)
  BY <1>1 DEF Page, UserOf
<1>6. ReadOut'
  BY <1>1, <1>5 DEF DigestsHold, ReadOut
<1>7. \A n, r : Unmade(n, r)' <=> Unmade(n, r)
  BY <1>1 DEF Unmade
<1>8. ToldOnce => ToldOnce'
  BY <1>1, <1>5, <1>7 DEF ToldOnce
<1>9. QED
  BY <1>1, <1>3, <1>4, <1>6, <1>8 DEF NoticesHold, DigestsHold

LEMMA NoticesWellStep == NoticesWell /\ [AnnouncementsNext]_announcementVars => NoticesWell'
<1> SUFFICES ASSUME NoticesWell, [AnnouncementsNext]_announcementVars PROVE NoticesWell'
  OBVIOUS
<1>1. CASE (\E w \in Workers : AttendTo(w)) \/ OtherNoticeStep
  <2>1. PICK w \in Workers : NoticeTurn(w)
    BY <1>1, TurnIs
  <2>2. scope = "notices" /\ scope' = "notices" /\ NoticesHold /\ DigestsHold
    BY <1>1, TurnIs DEF NoticesWell
  <2>3. NoticesHold' /\ DigestsHold'
    BY <2>1, <2>2, NoticesStep, DigestsStep
  <2>4. QED
    BY <2>2, <2>3 DEF NoticesWell
<1>2. CASE (\E w \in Workers : DeliverOn(w)) \/ OtherWebhookStep
  <2>1. /\ scope # "notices" /\ scope' = scope /\ UNCHANGED noticeVars
        /\ (\E w \in Workers : Deliver(w)) \/ WebhookOther
    BY <1>2 DEF DeliverOn, OtherWebhookStep, WebhookOther
  <2>2. Asleep
    BY <2>1 DEF NoticesWell
  <2>3. failures' \in Nat
    BY <2>1, <2>2, FailuresCounted DEF Asleep
  <2>4. QED
    BY <2>1, <2>2, <2>3 DEF NoticesWell, Asleep, NoticesTypeOK, noticeVars, channelJobs, digests, tally
<1>3. ASSUME UNCHANGED <<queueVars, noticeVars, scope>> PROVE NoticesWell'
  <2>1. CASE scope = "notices"
    BY <1>3, <2>1, NoticesStay DEF NoticesWell
  <2>2. CASE scope # "notices"
    BY <1>3, <2>2 DEF NoticesWell, Asleep, NoticesTypeOK, queueVars, noticeVars, channelJobs, digests, tally
  <2>3. QED
    BY <2>1, <2>2
<1>4. CASE (\E c \in Calls : HandleAndEmit(c)) \/ OtherEngineStep
  BY <1>3, <1>4 DEF HandleAndEmit, OtherEngineStep, Platform
<1>5. CASE UNCHANGED announcementVars
  BY <1>3, <1>5 DEF announcementVars
<1>6. QED
  BY <1>1, <1>2, <1>4, <1>5 DEF AnnouncementsNext

(* The rows of scheduled notifications, their jobs, and the entries of the       *)
(* digest have their types; a job is handed out at most Tries + 1 times.         *)
THEOREM NoticesTyped == AnnouncementsSpec => []NoticesTypeOK
<1>1. ASSUME NoticesWell PROVE NoticesTypeOK
  <2>1. CASE scope # "notices"
    BY <1>1, <2>1 DEF NoticesWell, Asleep
  <2>2. CASE scope = "notices"
    <3>1. NoticeColumns /\ \A n \in Notices : Clocked(n)
      BY <1>1, <2>2 DEF NoticesWell, NoticesHold, JobOf
    <3>2. ASSUME NEW n \in Notices
          PROVE  timer[n] \in [state : {"none", "delayed", "active", "done"}, run : 0..(Tries + 1), stalled : BOOLEAN]
      <4>1. PICK s \in {"none", "delayed", "active", "done"}, r \in Nat, b \in BOOLEAN :
               timer[n] = [state |-> s, run |-> r, stalled |-> b]
        BY <3>1 DEF NoticeColumns, Timers
      <4>2. Stalls(n) \in 0..1 /\ Tries \in Nat
        BY NoticesAssumption DEF Stalls
      <4>3. r \in 0..(Tries + 1)
        BY <3>1, <4>1, <4>2 DEF Clocked
      <4>4. QED
        BY <4>1, <4>3
    <3>3. timer \in [Notices -> [state : {"none", "delayed", "active", "done"},
                                run : 0..(Tries + 1), stalled : BOOLEAN]]
      BY <3>1, <3>2 DEF NoticeColumns
    <3>4. QED
      BY <3>1, <3>3 DEF NoticesTypeOK, NoticeColumns, ChannelJobs
  <2>3. QED
    BY <2>1, <2>2
<1>2. NoticesWell => NoticesTypeOK
  BY <1>1
<1>3. QED
  BY <1>2, NoticesInit, NoticesWellStep, PTL DEF AnnouncementsSpec

(* The status of a scheduled notification tells what was sent                    *)
(* (notification-scheduler, NotificationEngineService.send): however calls       *)
(* overlap, a channel is handed a notice again only after a death of its worker  *)
(* or two failures, one that is SENT was handed to every channel quiet hours did *)
(* not keep back, and until something fails one that waits, or was cancelled one *)
(* call at a time, was handed to none.                                           *)
THEOREM NoticesTold == AnnouncementsSpec => []StatusTellsSent
<1>1. ASSUME NoticesWell PROVE StatusTellsSent
  <2>1. CASE scope # "notices"
    <3>1. failures \in Nat /\ \A n \in Notices : notice[n] = "none" /\ \A ch \in Channels : handed[n][ch] = 0
      BY <1>1, <2>1 DEF NoticesWell, Asleep
    <3>2. QED
      BY <3>1 DEF StatusTellsSent
  <2>2. CASE scope = "notices"
    <3> SUFFICES ASSUME NEW n \in Notices
                 PROVE  /\ \A ch \in Channels :
                              2 * handed[n][ch] <= 2 + failures + (IF timer[n].stalled THEN 1 ELSE 0)
                        /\ notice[n] = "SENT" =>
                              \A ch \in ChannelsOf[n] : handed[n][ch] > 0 \/ <<n, ch>> \in muted
                        /\ failures = 0 /\ notice[n] = "PENDING" /\ timer[n].state # "active" =>
                              \A ch \in Channels : handed[n][ch] = 0
                        /\ failures = 0 /\ ~overlap /\ notice[n] = "CANCELLED" =>
                              \A ch \in Channels : handed[n][ch] = 0
      BY DEF StatusTellsSent
    <3>1. NoticeColumns /\ JobOf(n)
      BY <1>1, <2>2 DEF NoticesWell, NoticesHold
    <3>2. ASSUME NEW ch \in Channels
          PROVE  2 * handed[n][ch] <= 2 + failures + (IF timer[n].stalled THEN 1 ELSE 0)
      <4>1. Spent(n, ch) /\ handed[n][ch] \in Nat /\ failures \in Nat
        BY <3>1 DEF JobOf, NoticeColumns
      <4>2. QED
        BY <4>1 DEF Spent, Stalls
    <3>3. notice[n] = "SENT" => \A ch \in ChannelsOf[n] : handed[n][ch] > 0 \/ <<n, ch>> \in muted
      BY <3>1 DEF JobOf, Reaching, Given
    <3>4. /\ failures = 0 /\ notice[n] = "PENDING" /\ timer[n].state # "active" =>
                \A ch \in Channels : handed[n][ch] = 0
          /\ failures = 0 /\ ~overlap /\ notice[n] = "CANCELLED" =>
                \A ch \in Channels : handed[n][ch] = 0
      BY <3>1 DEF JobOf, Unfailed, Uncancelled, Unhanded
    <3>5. QED
      BY <3>2, <3>3, <3>4
  <2>3. QED
    BY <2>1, <2>2
<1>2. NoticesWell => StatusTellsSent
  BY <1>1
<1>3. QED
  BY <1>2, NoticesInit, NoticesWellStep, PTL DEF AnnouncementsSpec

(* The digest loses nothing (processHourlyDigest): however flushes overlap, fail *)
(* or die, an entry with a channel that can be read leaves the buffer only after *)
(* it was in a message to its recipient; and one flush at a time, until          *)
(* something fails, no entry is told twice on a channel.                         *)
THEOREM DigestsKept == AnnouncementsSpec => DigestKept
<1> DEFINE Leaves(x) == /\ ChannelsOf[x[1]] \cap Reading # {} => \E ch \in Reading : told[x][ch] > 0
                        /\ failures = 0 /\ ~overlap => \A ch \in Reading : told[x][ch] <= 1
<1>1. ASSUME NoticesWell, [AnnouncementsNext]_announcementVars, NEW x \in buffer, x \notin buffer'
      PROVE  Leaves(x)
  <2>1. \E w \in Workers : NoticeTurn(w) /\ scope = "notices"
    <3>1. CASE UNCHANGED noticeVars
      BY <1>1, <3>1 DEF noticeVars, digests
    <3>2. CASE (\E w \in Workers : AttendTo(w)) \/ OtherNoticeStep
      BY <3>2, TurnIs
    <3>3. CASE (\E w \in Workers : DeliverOn(w)) \/ OtherWebhookStep
      BY <3>1, <3>3 DEF DeliverOn, OtherWebhookStep
    <3>4. CASE (\E c \in Calls : HandleAndEmit(c)) \/ OtherEngineStep
      BY <3>1, <3>4 DEF HandleAndEmit, OtherEngineStep, Platform
    <3>5. QED
      BY <1>1, <3>1, <3>2, <3>3, <3>4 DEF AnnouncementsNext, announcementVars
  <2>2. PICK w \in Workers : NoticeTurn(w)
    BY <2>1
  <2>3. NoticesHold /\ DigestsHold /\ NoticeColumns
    BY <1>1, <2>1 DEF NoticesWell, NoticesHold
  <2>4. Drop(w)
    <3>1. UNCHANGED digests => FALSE
      BY <1>1 DEF digests
    <3>2. ~Defer(w)
      BY <1>1 DEF Defer
    <3>3. ~(Scan(w) \/ Mail(w) \/ Text(w) \/ SendOut(w) \/ \E d \in dispatches : Pick(w, d))
      BY <1>1 DEF Scan, Mail, Text, SendOut, Pick, digests
    <3>4. QED
      BY <2>2, <3>1, <3>2, <3>3, DigestsStay DEF NoticeTurn
  <2>5. x \in Page(w) /\ at[w] = "drop"
    BY <1>1, <2>3, <2>4, DropDoes
  <2>6. \A ch \in ChannelsOf[x[1]] \cap Reading : told[x][ch] > 0
    BY <2>3, <2>5 DEF DigestsHold, ReadOut, Reading
  <2>7. failures = 0 /\ ~overlap => \A ch \in Reading : told[x][ch] <= 1
    BY <2>3 DEF DigestsHold, ToldOnce
  <2>8. QED
    BY <2>6, <2>7
<1>2. NoticesWell /\ [AnnouncementsNext]_announcementVars =>
          [\A x \in buffer \ buffer' : Leaves(x)]_noticeVars
  BY <1>1
<1>3. AnnouncementsSpec => [][\A x \in buffer \ buffer' : Leaves(x)]_noticeVars
  BY <1>2, NoticesInit, NoticesWellStep, PTL DEF AnnouncementsSpec
<1>4. QED
  BY <1>3 DEF DigestKept
=============================================================================
