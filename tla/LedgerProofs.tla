---------------------------- MODULE LedgerProofs ----------------------------
(***************************************************************************)
(* Proofs about Ledger, for any number of transactions, accounts and       *)
(* handlers, with and without deaths.                                      *)
(***************************************************************************)
EXTENDS Ledger, SumTheorems, TLAPS

\* The statuses and the journal are functions of the transactions.
Rows ==
    /\ DOMAIN status = Txns
    /\ journal \in [Txns -> {0, 1}]
    /\ JournaledOnce

\* What every step does to a transaction: it leaves the row and its lines alone,
\* moves a row that is not completed, or completes it, counts the lines first and
\* leaves them out where an account of theirs is closed.
Settles(t) ==
    /\ t \in unposted => t \in unposted'
    /\ \/ status'[t] = status[t] /\ journal'[t] = journal[t]
       \/ status[t] # "COMPLETED" /\ status'[t] # "COMPLETED" /\ journal'[t] = journal[t]
       \/ /\ status'[t] = "COMPLETED" /\ journal'[t] = Journaled(t)
          /\ LinesOf[t] \cap closed # {} => t \in unposted'

RowsMove ==
    /\ DOMAIN status' = Txns
    /\ journal' \in [Txns -> {0, 1}]
    /\ \A t \in Txns : Settles(t)

LEMMA RowsInit == Init => Rows
BY DEF Init, Rows, JournaledOnce

LEMMA RowsStep ==
    ASSUME Rows, [Next]_vars
    PROVE  RowsMove
<1> USE DEF Rows, RowsMove, Settles
<1>1. CASE UNCHANGED <<status, journal, unposted>>
  BY <1>1
<1>2. ASSUME NEW t \in Txns, OpenPending(t) PROVE RowsMove
  BY <1>2 DEF OpenPending, chart
<1>3. ASSUME NEW t \in Txns, Reject(t) PROVE RowsMove
  BY <1>3 DEF Reject, MayCancel, chart
<1>4. ASSUME NEW p \in Procs, Commit(p) PROVE RowsMove
  BY <1>4 DEF Commit, Journaled
<1>5. ASSUME NEW p \in Procs, NEW t \in Txns, Post(p, t) \/ Webhook(p, t) \/ WebhookIgnored(p, t) \/ Approve(p, t)
      PROVE  UNCHANGED <<status, journal, unposted>>
  BY <1>5 DEF Post, Webhook, WebhookIgnored, Approve, chart
<1>6. ASSUME NEW p \in Procs, Step(p) \/ Die(p)
      PROVE  UNCHANGED <<status, journal, unposted>> \/ Commit(p)
  BY <1>6 DEF Step, Die, SendRefund, Begin, Put, Invalidate, PlanRead, PlanWrite, FillCache,
              Reconcile, chart
<1>7. ASSUME NEW p \in Procs, NEW a \in Accounts, Look(p, a) PROVE UNCHANGED <<status, journal, unposted>>
  BY <1>7 DEF Look, chart
<1>8. ASSUME NEW a \in Accounts, Expire(a) PROVE UNCHANGED <<status, journal, unposted>>
  BY <1>8 DEF Expire, chart
<1>9. ASSUME NEW c \in Codes, SetAccountActive(c) PROVE UNCHANGED <<status, journal, unposted>>
  BY <1>9 DEF SetAccountActive
<1>10. UNCHANGED vars => UNCHANGED <<status, journal, unposted>>
  BY DEF vars
<1>11. QED
  BY <1>1, <1>2, <1>3, <1>4, <1>5, <1>6, <1>7, <1>8, <1>9, <1>10 DEF Next

LEMMA RowsKept ==
    ASSUME Rows, RowsMove
    PROVE  Rows' /\ \A t \in Txns : status[t] = "COMPLETED" => status'[t] = "COMPLETED"
BY DEF Rows, RowsMove, Settles, Journaled, Postable, JournaledOnce

(* Whatever handlers, webhooks, refusals, deaths and changes of the chart    *)
(* do, a transaction is in the journal at most once and only when it is     *)
(* completed, and a completed one is missing only when it carries no lines  *)
(* or committed while one of its accounts was closed.                       *)
THEOREM JournalWhole == Spec => []JournaledOnce
<1>1. Rows /\ [Next]_vars => Rows'
  BY RowsStep, RowsKept
<1>2. Rows => JournaledOnce
  BY DEF Rows
<1>3. QED
  BY RowsInit, <1>1, <1>2, PTL DEF Spec

(* A completed transaction is never taken back, however late a refusal       *)
(* comes.                                                                   *)
THEOREM NothingUndone == Spec => CompletedForGood
<1>1. Rows /\ [Next]_vars => Rows'
  BY RowsStep, RowsKept
<1>2. Rows /\ [Next]_vars => [\A t \in Txns : status[t] = "COMPLETED" => status'[t] = "COMPLETED"]_vars
  BY RowsStep, RowsKept
<1>3. QED
  BY RowsInit, <1>1, <1>2, PTL DEF Spec, CompletedForGood

-----------------------------------------------------------------------------
(* Refunds, one handler at a time *)

\* A job whose sums are n and m.
Jobs(n, m) == [op : Ops, txn : Txns, acct : Accounts, sum : {n}, copy : {m}]

JobsHold ==
    /\ mode \in {"serial", "overlap"}
    /\ DOMAIN pc = Procs /\ DOMAIN job = Procs
    /\ \A p \in Procs : \E n, m : job[p] \in Jobs(n, m)
    /\ DOMAIN status = Txns
    /\ sent \in [Txns -> Int]

Working(p) == pc[p] \notin Idle

\* At most one handler is at work.
Alone == \A p, q \in Procs : Working(p) /\ Working(q) => p = q

\* A chain is completed once, so one handler approves a transaction.
OneApprover ==
    \A p, q \in Procs : job[p].op = "approve" /\ job[q].op = "approve" /\ job[p].txn = job[q].txn
                            => p = q

\* Where a handler that approves stands, as its transaction shows it.
Stands(p) ==
    \/ pc[p] = "send" /\ status[job[p].txn] = "PENDING" /\ sent[job[p].txn] = 0
    \/ pc[p] \in {"begin", "begun", "put"} /\ status[job[p].txn] = "PENDING"
    \/ pc[p] \in {"invalidate", "plan", "planned", "done"} /\ status[job[p].txn] = "COMPLETED"
    \/ pc[p] = "died"

OneByOne ==
    /\ Alone
    /\ OneApprover
    /\ \A p \in Procs : pc[p] = "idle" => job[p].op = "none"
    /\ \A p \in Procs : pc[p] = "send" => job[p].op = "approve"
    /\ \A p \in Procs : job[p].op = "look" => pc[p] \notin {"begin", "begun", "put", "invalidate", "plan", "planned"}
    /\ \A p \in Procs : job[p].op = "approve" => Stands(p)
    /\ \A t \in Txns : sent[t] \in {0, 1}
    /\ \A t \in Txns : sent[t] = 1 => \E p \in Procs : job[p].op = "approve" /\ job[p].txn = t

Refunding == JobsHold /\ (Serial => OneByOne)

LEMMA NoJobType == NoJob \in Jobs(0, 0)
<1>1. (CHOOSE t \in Txns : TRUE) \in Txns
  BY LedgerAssumption
<1>2. (CHOOSE a \in Accounts : TRUE) \in Accounts
  BY LedgerAssumption
<1>3. QED
  BY <1>1, <1>2 DEF NoJob, Jobs, Ops

LEMMA RefundingInit == Init => Refunding
<1>1. SUFFICES ASSUME Init PROVE Refunding
  OBVIOUS
<1>2. JobsHold
  BY <1>1, NoJobType DEF Init, JobsHold
<1>3. OneByOne
  BY <1>1 DEF Init, OneByOne, Alone, Working, Idle, OneApprover, NoJob
<1>4. QED
  BY <1>2, <1>3 DEF Refunding

\* Room, one handler at a time, means that none is at work.
LEMMA RoomMeansIdle ==
    ASSUME Serial, Room
    PROVE  \A p \in Procs : ~Working(p)
<1> DEFINE W == {p \in Procs : pc[p] \notin Idle}
<1>1. IsFiniteSet(W)
  BY LedgerAssumption, FS_Subset
<1>2. Cardinality(W) \in Nat /\ Cardinality(W) < 1
  BY <1>1, FS_CardinalityType DEF Room
<1>3. Cardinality(W) = 0
  BY <1>2
<1>4. W = {}
  BY <1>1, <1>3, FS_EmptySet
<1>5. QED
  BY <1>4 DEF Working

\* One handler at a time, the chain of a transaction is completed once.
LEMMA FirstApproval ==
    ASSUME Serial, NEW t \in Txns, Cardinality(Handlers("approve", t)) < MayRepeat
    PROVE  \A p \in Procs : ~(job[p].op = "approve" /\ job[p].txn = t)
<1>1. IsFiniteSet(Handlers("approve", t))
  BY LedgerAssumption, FS_Subset DEF Handlers
<1>2. Cardinality(Handlers("approve", t)) \in Nat /\ Cardinality(Handlers("approve", t)) < 1
  BY <1>1, FS_CardinalityType DEF MayRepeat
<1>3. Handlers("approve", t) = {}
  BY <1>1, <1>2, FS_EmptySet
<1>4. QED
  BY <1>3 DEF Handlers

LEMMA TakeType ==
    ASSUME JobsHold, NEW p \in Procs, NEW o \in Ops, NEW t \in Txns, NEW place,
           Take(p, o, t), Goto(p, place), UNCHANGED <<mode, sent>>, DOMAIN status' = Txns
    PROVE  JobsHold'
<1>1. [NoJob EXCEPT !.op = o, !.txn = t, !.acct = AccountOf[t]] \in Jobs(0, 0)
  BY NoJobType, LedgerAssumption DEF Jobs
<1>2. job' = [job EXCEPT ![p] = [NoJob EXCEPT !.op = o, !.txn = t, !.acct = AccountOf[t]]]
  BY DEF Take
<1> HIDE DEF NoJob
<1>3. \A q \in Procs : \E n, m : job'[q] \in Jobs(n, m)
  BY <1>1, <1>2 DEF JobsHold
<1>4. QED
  BY <1>2, <1>3 DEF JobsHold, Goto

LEMMA JobsStep ==
    ASSUME JobsHold, [Next]_vars
    PROVE  JobsHold'
<1>1. ASSUME NEW t \in Txns, OpenPending(t) \/ Reject(t) PROVE JobsHold'
  BY <1>1 DEF OpenPending, Reject, JobsHold
<1>2. ASSUME NEW p \in Procs, NEW t \in Txns, Post(p, t) PROVE JobsHold'
  <2> DEFINE total == Total(Completed(AccountOf[t]) \cup {t})
  <2>1. job' = [job EXCEPT ![p] = [op |-> "post", txn |-> t, acct |-> AccountOf[t], copy |-> 0,
                                   sum |-> total]]
    BY <1>2 DEF Post
  <2> HIDE DEF total
  <2>2. [op |-> "post", txn |-> t, acct |-> AccountOf[t], copy |-> 0, sum |-> total] \in Jobs(total, 0)
    BY LedgerAssumption DEF Jobs, Ops
  <2>3. QED
    BY <1>2, <2>1, <2>2 DEF Post, JobsHold, Goto
<1>3. ASSUME NEW p \in Procs, NEW t \in Txns, Webhook(p, t) \/ WebhookIgnored(p, t) \/ Approve(p, t)
      PROVE  JobsHold'
  BY <1>3, TakeType DEF Webhook, WebhookIgnored, Approve, Ops, JobsHold
<1>4. ASSUME NEW p \in Procs, NEW a \in Accounts, Look(p, a) PROVE JobsHold'
  <2> DEFINE total == Total(Completed(a))
  <2> DEFINE seen == [NoJob EXCEPT !.op = "look", !.acct = a, !.copy = balance[a], !.sum = total]
  <2>1. job' = [job EXCEPT ![p] = seen]
    BY <1>4 DEF Look
  <2>2. seen \in Jobs(total, balance[a])
    <3> HIDE DEF total
    <3>1. QED
      BY NoJobType DEF Jobs, Ops
  <2> HIDE DEF total, seen
  <2>3. QED
    BY <1>4, <2>1, <2>2 DEF Look, JobsHold, Goto
<1>5. ASSUME NEW p \in Procs, SendRefund(p) PROVE JobsHold'
  <2>1. PICK n \in {0, 1} : sent' = [sent EXCEPT ![job[p].txn] = @ + n]
    BY <1>5 DEF SendRefund
  <2>2. sent' \in [Txns -> Int]
    <3>1. sent[job[p].txn] \in Int
      BY DEF JobsHold, Jobs
    <3>2. sent[job[p].txn] + n \in Int
      BY <3>1
    <3>3. QED
      BY <2>1, <3>2 DEF JobsHold
  <2>3. QED
    BY <1>5, <2>2 DEF SendRefund, JobsHold, Goto
<1>6. ASSUME NEW p \in Procs, NEW n, job' = [job EXCEPT ![p] = [@ EXCEPT !.sum = n]]
      PROVE  \A q \in Procs : \E i, j : job'[q] \in Jobs(i, j)
  BY <1>6 DEF JobsHold, Jobs
<1>7. ASSUME NEW p \in Procs, NEW n, job' = [job EXCEPT ![p] = [@ EXCEPT !.copy = n]]
      PROVE  \A q \in Procs : \E i, j : job'[q] \in Jobs(i, j)
  BY <1>7 DEF JobsHold, Jobs
<1>8. ASSUME NEW p \in Procs, Put(p) PROVE JobsHold'
  <2> DEFINE total == Total(Completed(job[p].acct) \cup {job[p].txn})
  <2>1. job' = [job EXCEPT ![p] = [@ EXCEPT !.sum = total]]
    BY <1>8 DEF Put
  <2> HIDE DEF total
  <2>2. QED
    BY <1>8, <2>1, <1>6 DEF Put, JobsHold, Goto
<1>9. ASSUME NEW p \in Procs, PlanRead(p) PROVE JobsHold'
  BY <1>9, <1>7 DEF PlanRead, JobsHold, Goto
<1>10. ASSUME NEW p \in Procs, Begin(p) \/ Commit(p) \/ Invalidate(p) \/ PlanWrite(p)
                                 \/ FillCache(p) \/ Reconcile(p) \/ Die(p)
       PROVE  JobsHold'
  BY <1>10 DEF Begin, Commit, Invalidate, PlanWrite, FillCache, Reconcile, Die, JobsHold, Goto
<1>11. ASSUME NEW a \in Accounts, Expire(a) PROVE JobsHold'
  BY <1>11 DEF Expire, JobsHold
<1>12. UNCHANGED vars => JobsHold'
  BY DEF vars, JobsHold
<1>13. ASSUME NEW c \in Codes, SetAccountActive(c) PROVE JobsHold'
  BY <1>13 DEF SetAccountActive, JobsHold
<1>14. QED
  BY <1>1, <1>2, <1>3, <1>4, <1>5, <1>8, <1>9, <1>10, <1>11, <1>12, <1>13 DEF Next, Step

\* A handler starts when none is at work.
LEMMA StartKeeps ==
    ASSUME Serial, JobsHold, JobsHold', OneByOne, NEW p \in Procs, May(p),
           NEW place, Goto(p, place), NEW o \in {"post", "webhook", "look"},
           \A q \in Procs \ {p} : job'[q] = job[q], job'[p].op = o,
           place # "idle", place # "send",
           o = "look" => place = "looked",
           UNCHANGED <<status, sent>>
    PROVE  OneByOne'
<1>1. \A q \in Procs : ~Working(q)
  BY RoomMeansIdle DEF May
<1>2. \A q \in Procs \ {p} : pc'[q] = pc[q]
  BY DEF Goto, JobsHold
<1>3. pc'[p] = place /\ pc[p] = "idle" /\ job[p].op = "none"
  BY DEF Goto, JobsHold, May, OneByOne
<1>4. Alone'
  BY <1>1, <1>2 DEF Alone, Working
<1>5. OneApprover'
  BY <1>3 DEF OneByOne, OneApprover
<1>6. \A q \in Procs : job'[q].op = "approve" => Stands(q)'
  <2>1. SUFFICES ASSUME NEW q \in Procs, job'[q].op = "approve" PROVE Stands(q)'
    OBVIOUS
  <2>2. q # p /\ Stands(q)
    BY <2>1 DEF OneByOne
  <2>3. QED
    BY <2>2, <1>2 DEF Stands
<1>7. QED
  BY <1>2, <1>3, <1>4, <1>5, <1>6 DEF OneByOne

LEMMA ApproveKeeps ==
    ASSUME Serial, JobsHold, JobsHold', OneByOne, NEW p \in Procs, NEW t \in Txns, Approve(p, t)
    PROVE  OneByOne'
<1>1. \A q \in Procs : ~Working(q)
  BY RoomMeansIdle DEF Approve, May
<1>2. /\ \A q \in Procs \ {p} : pc'[q] = pc[q] /\ job'[q] = job[q]
      /\ job'[p].op = "approve" /\ job'[p].txn = t
      /\ pc'[p] \in {"send", "begin"}
      /\ pc[p] = "idle" /\ job[p].op = "none"
      /\ status' = status /\ sent' = sent
      /\ status[t] = "PENDING"
  BY NoJobType DEF Goto, Take, JobsHold, May, OneByOne, Approve, Approvable, Jobs
<1>3. \A q \in Procs : ~(job[q].op = "approve" /\ job[q].txn = t)
  BY FirstApproval DEF Approve
<1>4. sent[t] = 0
  BY <1>3 DEF OneByOne
<1>5. Alone'
  BY <1>1, <1>2 DEF Alone, Working
<1>6. OneApprover'
  BY <1>2, <1>3 DEF OneByOne, OneApprover
<1>7. \A q \in Procs : job'[q].op = "approve" => Stands(q)'
  <2>1. Stands(p)'
    BY <1>2, <1>4 DEF Stands
  <2>2. \A q \in Procs \ {p} : Stands(q) => Stands(q)'
    BY <1>2 DEF Stands
  <2>3. QED
    BY <2>1, <2>2, <1>2 DEF OneByOne
<1>8. \A u \in Txns : sent'[u] = 1 => \E q \in Procs : job'[q].op = "approve" /\ job'[q].txn = u
  BY <1>2 DEF OneByOne
<1>9. QED
  BY <1>2, <1>5, <1>6, <1>7, <1>8 DEF OneByOne

\* A handler that is at work goes on, and nobody else is at work.
LEMMA WorkKeeps ==
    ASSUME Serial, JobsHold, JobsHold', OneByOne, NEW p \in Procs, Step(p) \/ Die(p)
    PROVE  OneByOne'
<1>1. Working(p) /\ \A q \in Procs \ {p} : ~Working(q)
  BY DEF Step, Die, SendRefund, Begin, Put, Commit, Invalidate, PlanRead, PlanWrite, FillCache,
         Reconcile, Working, Idle, OneByOne, Alone
<1>2. /\ \A q \in Procs \ {p} : pc'[q] = pc[q] /\ job'[q] = job[q]
      /\ job'[p].op = job[p].op /\ job'[p].txn = job[p].txn
      /\ pc'[p] \notin {"idle", "send"}
      /\ pc'[p] \in {"begin", "begun", "put", "invalidate", "plan", "planned"} =>
            pc[p] \in {"send", "begin", "begun", "put", "invalidate", "plan"}
  BY DEF Step, Die, SendRefund, Begin, Put, Commit, Invalidate, PlanRead, PlanWrite, FillCache,
         Reconcile, Goto, JobsHold, Jobs
<1>3. Alone'
  BY <1>1, <1>2 DEF Alone, Working
<1>4. OneApprover'
  BY <1>2 DEF OneByOne, OneApprover
<1>5. /\ status' = status \/ Commit(p)
      /\ sent' = sent \/ SendRefund(p)
  BY DEF Step, Die, SendRefund, Begin, Put, Commit, Invalidate, PlanRead, PlanWrite, FillCache,
         Reconcile
<1>6. ASSUME NEW q \in Procs \ {p}, job[q].op = "approve" PROVE Stands(q)'
  <2>1. pc[q] \in {"done", "died"} /\ Stands(q)
    BY <1>1, <1>6 DEF OneByOne, Stands, Working, Idle
  <2>2. job[q].txn \in Txns
    BY DEF JobsHold, Jobs
  <2>3. status[job[q].txn] = "COMPLETED" => status'[job[q].txn] = "COMPLETED"
    BY <1>5, <2>2 DEF Commit, JobsHold
  <2>4. QED
    BY <1>2, <2>1, <2>3 DEF Stands
<1>7. ASSUME job[p].op = "approve" PROVE Stands(p)'
  <2>1. Stands(p) /\ job[p].txn \in Txns
    BY <1>7 DEF OneByOne, JobsHold, Jobs
  <2>2. QED
    BY <1>7, <1>2, <2>1 DEF Step, Die, SendRefund, Begin, Put, Commit, Invalidate, PlanRead,
            PlanWrite, FillCache, Reconcile, Goto, JobsHold, Stands, Idle
<1>8. /\ \A t \in Txns : sent'[t] \in {0, 1}
      /\ \A t \in Txns : sent'[t] = 1 => \E q \in Procs : job'[q].op = "approve" /\ job'[q].txn = t
  <2>1. CASE sent' = sent
    BY <1>2, <2>1 DEF OneByOne
  <2>2. CASE SendRefund(p)
    <3>1. job[p].op = "approve" /\ sent[job[p].txn] = 0
      BY <2>2 DEF SendRefund, OneByOne, Stands
    <3>2. PICK n \in {0, 1} : sent' = [sent EXCEPT ![job[p].txn] = @ + n]
      BY <2>2 DEF SendRefund
    <3>3. \A t \in Txns : sent'[t] = IF t = job[p].txn THEN n ELSE sent[t]
      BY <3>1, <3>2 DEF JobsHold
    <3>4. QED
      BY <3>1, <3>3, <1>2 DEF OneByOne
  <2>3. QED
    BY <1>5, <2>1, <2>2
<1>9. QED
  BY <1>2, <1>3, <1>4, <1>6, <1>7, <1>8 DEF OneByOne

\* A row is opened, or refused while nobody is at work.
LEMMA RowsKeep ==
    ASSUME Serial, JobsHold, OneByOne, NEW t \in Txns, OpenPending(t) \/ Reject(t)
    PROVE  OneByOne'
<1>1. /\ pc' = pc /\ job' = job /\ sent' = sent
      /\ \A u \in Txns : status[u] = "COMPLETED" => status'[u] = "COMPLETED"
  BY DEF OpenPending, Reject, MayCancel, JobsHold
<1>2. (\A u \in Txns : status[u] = "PENDING" => status'[u] = "PENDING") \/ \A p \in Procs : ~Working(p)
  <2>1. CASE OpenPending(t)
    BY <2>1 DEF OpenPending, JobsHold
  <2>2. CASE Reject(t)
    BY <2>2, RoomMeansIdle DEF Reject
  <2>3. QED
    BY <2>1, <2>2
<1>3. \A p \in Procs : job[p].op = "approve" => Stands(p)'
  <2>1. SUFFICES ASSUME NEW p \in Procs, job[p].op = "approve" PROVE Stands(p)'
    OBVIOUS
  <2>2. Stands(p) /\ job[p].txn \in Txns
    BY <2>1 DEF OneByOne, JobsHold, Jobs
  <2>3. QED
    BY <1>1, <1>2, <2>2 DEF Stands, Working, Idle
<1>4. QED
  BY <1>1, <1>3 DEF OneByOne, Alone, Working, OneApprover

LEMMA RefundingStep == Refunding /\ [Next]_vars => Refunding'
<1>1. SUFFICES ASSUME Refunding, [Next]_vars PROVE Refunding'
  OBVIOUS
<1>2. JobsHold /\ JobsHold'
  BY <1>1, JobsStep DEF Refunding
<1>3. mode' = mode
  BY <1>1 DEF Next, vars, Step, OpenPending, Reject, Post, Webhook, WebhookIgnored, Approve, Look,
          Die, Expire, SetAccountActive, SendRefund, Begin, Put, Commit, Invalidate, PlanRead, PlanWrite, FillCache,
          Reconcile
<1>4. SUFFICES ASSUME Serial, OneByOne PROVE OneByOne'
  BY <1>1, <1>2, <1>3 DEF Refunding, Serial
<1>5. ASSUME NEW p \in Procs, NEW t \in Txns, Post(p, t) PROVE OneByOne'
  <2>1. \A q \in Procs \ {p} : job'[q] = job[q]
    BY <1>2, <1>5 DEF Post, JobsHold
  <2>2. job'[p].op = "post"
    BY <1>2, <1>5 DEF Post, JobsHold
  <2>3. QED
    BY <1>2, <1>4, <1>5, <2>1, <2>2, StartKeeps DEF Post
<1>6. ASSUME NEW p \in Procs, NEW t \in Txns, Webhook(p, t) \/ WebhookIgnored(p, t) PROVE OneByOne'
  <2>1. \A q \in Procs \ {p} : job'[q] = job[q]
    BY <1>2, <1>6 DEF Webhook, WebhookIgnored, Take, JobsHold
  <2>2. job'[p].op = "webhook"
    BY <1>2, <1>6, NoJobType DEF Webhook, WebhookIgnored, Take, JobsHold, Jobs
  <2>3. QED
    BY <1>2, <1>4, <1>6, <2>1, <2>2, StartKeeps DEF Webhook, WebhookIgnored
<1>7. ASSUME NEW p \in Procs, NEW a \in Accounts, Look(p, a) PROVE OneByOne'
  <2> DEFINE seen == [NoJob EXCEPT !.op = "look", !.acct = a, !.copy = balance[a],
                                   !.sum = Total(Completed(a))]
  <2>1. job' = [job EXCEPT ![p] = seen]
    BY <1>7 DEF Look
  <2>2. seen.op = "look"
    <3> DEFINE total == Total(Completed(a))
    <3> HIDE DEF total
    <3>1. QED
      BY NoJobType DEF Jobs
  <2> HIDE DEF seen
  <2>3. (\A q \in Procs \ {p} : job'[q] = job[q]) /\ job'[p].op = "look"
    BY <1>2, <2>1, <2>2 DEF JobsHold
  <2>4. May(p) /\ Goto(p, "looked") /\ UNCHANGED <<status, sent>>
    BY <1>7 DEF Look
  <2>5. QED
    BY <1>2, <1>4, <2>3, <2>4, StartKeeps
<1>8. ASSUME NEW a \in Accounts, Expire(a) PROVE OneByOne'
  BY <1>4, <1>8 DEF Expire, OneByOne, Alone, Working, OneApprover, Stands
<1>9. UNCHANGED vars => OneByOne'
  BY <1>4 DEF vars, OneByOne, Alone, Working, OneApprover, Stands
<1>10. ASSUME NEW c \in Codes, SetAccountActive(c) PROVE OneByOne'
  BY <1>4, <1>10 DEF SetAccountActive, OneByOne, Alone, Working, OneApprover, Stands
<1>11. QED
  BY <1>1, <1>2, <1>4, <1>5, <1>6, <1>7, <1>8, <1>9, <1>10, ApproveKeeps, WorkKeeps, RowsKeep DEF Next

(* When handlers do not overlap, the gateway carries out a refund at most    *)
(* once, and one that was refused only if the approving process died.       *)
THEOREM RefundedOnce == Spec => []RefundSentOnce
<1>1. Refunding => RefundSentOnce
  <2>1. SUFFICES ASSUME Refunding, Serial, NEW t \in Txns
                 PROVE  /\ sent[t] <= 1
                        /\ sent[t] = 1 /\ status[t] = "FAILED" =>
                              \E p \in Handlers("approve", t) : pc[p] = "died"
    BY DEF RefundSentOnce
  <2>2. sent[t] <= 1
    BY <2>1 DEF Refunding, OneByOne
  <2>3. ASSUME sent[t] = 1, status[t] = "FAILED"
        PROVE  \E p \in Handlers("approve", t) : pc[p] = "died"
    <3>1. PICK p \in Procs : job[p].op = "approve" /\ job[p].txn = t
      BY <2>1, <2>3 DEF Refunding, OneByOne
    <3>2. Stands(p)
      BY <2>1, <3>1 DEF Refunding, OneByOne
    <3>3. pc[p] = "died"
      BY <2>3, <3>1, <3>2 DEF Stands
    <3>4. QED
      BY <3>1, <3>3 DEF Handlers
  <2>4. QED
    BY <2>2, <2>3
<1>2. QED
  BY RefundingInit, RefundingStep, <1>1, PTL DEF Spec

-----------------------------------------------------------------------------
(* Balances, the cache and the plans, one handler at a time *)

\* Handlers with a transaction to complete, and those that have completed it.
Posting == {"send", "begin", "begun", "put", "invalidate", "plan", "planned"}
Following == {"invalidate", "plan", "planned"}

\* What handler p knows: its transaction is of its account and not completed before it does
\* so, its aggregate is the sum with its own row, or the sum there is, and what it read of
\* balance and plans is still so.
Knows(p) ==
    /\ pc[p] \in Posting => AccountOf[job[p].txn] = job[p].acct
    /\ pc[p] \in {"begun", "put"} => status[job[p].txn] \in {"ABSENT", "PENDING"}
    /\ pc[p] = "put" => job[p].sum = Total(Completed(job[p].acct) \cup {job[p].txn})
    /\ pc[p] \in {"looked", "viewed"} =>
          job[p].sum = Total(Completed(job[p].acct)) /\ job[p].copy = balance[job[p].acct]
    /\ pc[p] = "planned" => job[p].copy = paid[job[p].acct]

\* A cached balance is the sum, or a handler is about to drop it.
Fresh(a) ==
    \/ cache[a] = Null
    \/ cache[a] = Total(Completed(a))
    \/ \E p \in Procs : pc[p] = "invalidate" /\ job[p].acct = a

\* The gateway payments of a that no handler is still to allocate.
Due(a) == {t \in Gateway(a) : \A p \in Procs : ~(pc[p] \in Following /\ job[p].txn = t)}

Covers(a) == paid[a] >= PlanTotal[a] \/ paid[a] >= SumFunctionOnSet(Amount, Due(a))

NoneDied == \A p \in Procs : pc[p] # "died"

Aftermath == NoneDied => \A a \in Accounts : Fresh(a) /\ Covers(a)

Sums == \A a \in Accounts : balance[a] = Total(Completed(a))

Columns ==
    /\ status \in [Txns -> Statuses]
    /\ DOMAIN balance = Accounts
    /\ DOMAIN cache = Accounts
    /\ DOMAIN paid = Accounts

Balanced ==
    /\ \A p \in Procs : Knows(p)
    /\ paid \in [Accounts -> Nat]
    /\ Sums
    /\ Aftermath

BooksHold == Columns /\ (Serial => Balanced)

\* No row becomes completed, and none is taken back.
Settling == \E t \in Txns : status[t] # status'[t] /\ "COMPLETED" \in {status[t], status'[t]}

LEMMA SameSums ==
    ASSUME ~Settling, NEW a
    PROVE  Completed(a)' = Completed(a) /\ Gateway(a)' = Gateway(a)
<1>1. \A t \in Txns : status'[t] = "COMPLETED" <=> status[t] = "COMPLETED"
  BY DEF Settling
<1>2. Completed(a)' = Completed(a)
  BY <1>1 DEF Completed
<1>3. Gateway(a)' = Gateway(a)
  BY <1>1, LedgerAssumption DEF Gateway
<1>4. QED
  BY <1>2, <1>3

LEMMA BooksInit == Init => BooksHold
<1>1. SUFFICES ASSUME Init PROVE BooksHold
  OBVIOUS
<1>2. Columns
  BY <1>1 DEF Init, Columns, Statuses
<1>3. \A a \in Accounts : Completed(a) = {} /\ Due(a) = {}
  BY <1>1, LedgerAssumption DEF Init, Completed, Due, Gateway
<1>4. SumFunctionOnSet(Amount, {}) = 0
  BY SumEmpty
<1>5. Total({}) = 0
  BY SumEmpty DEF Total
<1>6. \A p \in Procs : Knows(p)
  BY <1>1 DEF Init, Knows, Posting
<1>7. Sums
  BY <1>1, <1>3, <1>5 DEF Init, Sums
<1>8. \A a \in Accounts : Fresh(a)
  BY <1>1 DEF Init, Fresh
<1>9. ASSUME NEW a \in Accounts PROVE Covers(a)
  <2>1. SumFunctionOnSet(Amount, Due(a)) = 0
    BY <1>3, <1>4
  <2>2. paid[a] = 0
    BY <1>1 DEF Init
  <2>3. QED
    BY <2>1, <2>2 DEF Covers
<1>10. paid \in [Accounts -> Nat]
  BY <1>1 DEF Init
<1>11. QED
  BY <1>2, <1>6, <1>7, <1>8, <1>9, <1>10 DEF BooksHold, Balanced, Aftermath

LEMMA ColumnsStep ==
    ASSUME Columns, JobsHold, [Next]_vars
    PROVE  Columns'
<1> USE DEF Columns
<1>1. CASE UNCHANGED <<status, balance, cache, paid>>
  BY <1>1
<1>2. ASSUME NEW t \in Txns, OpenPending(t) \/ Reject(t) PROVE Columns'
  BY <1>2 DEF OpenPending, Reject, Statuses
<1>3. ASSUME NEW p \in Procs, Commit(p) PROVE Columns'
  BY <1>3 DEF Commit, Statuses
<1>4. ASSUME NEW p \in Procs, Invalidate(p) \/ PlanWrite(p) \/ FillCache(p) \/ Reconcile(p) PROVE Columns'
  BY <1>4 DEF Invalidate, PlanWrite, FillCache, Reconcile
<1>5. ASSUME NEW p \in Procs, SendRefund(p) \/ Begin(p) \/ Put(p) \/ PlanRead(p) \/ Die(p)
      PROVE  UNCHANGED <<status, balance, cache, paid>>
  BY <1>5 DEF SendRefund, Begin, Put, PlanRead, Die
<1>6. ASSUME NEW p \in Procs, NEW t \in Txns, Post(p, t) \/ Webhook(p, t) \/ WebhookIgnored(p, t) \/ Approve(p, t)
      PROVE  UNCHANGED <<status, balance, cache, paid>>
  BY <1>6 DEF Post, Webhook, WebhookIgnored, Approve
<1>7. ASSUME NEW p \in Procs, NEW a \in Accounts, Look(p, a) PROVE UNCHANGED <<status, balance, cache, paid>>
  BY <1>7 DEF Look
<1>8. ASSUME NEW a \in Accounts, Expire(a) PROVE Columns'
  BY <1>8 DEF Expire
<1>9. UNCHANGED vars => UNCHANGED <<status, balance, cache, paid>>
  BY DEF vars
<1>10. ASSUME NEW c \in Codes, SetAccountActive(c) PROVE UNCHANGED <<status, balance, cache, paid>>
  BY <1>10 DEF SetAccountActive
<1>11. QED
  BY <1>1, <1>2, <1>3, <1>4, <1>5, <1>6, <1>7, <1>8, <1>9, <1>10 DEF Next, Step

\* A handler whose turn it is not knows nothing.
LEMMA OthersIdle ==
    ASSUME NEW p \in Procs, \A q \in Procs \ {p} : pc'[q] = pc[q] /\ ~Working(q)
    PROVE  \A q \in Procs \ {p} : Knows(q)'
BY DEF Knows, Working, Idle, Posting

LEMMA OneWorks ==
    ASSUME JobsHold, OneByOne, NEW p \in Procs, Working(p), NEW place, Goto(p, place)
    PROVE  pc'[p] = place /\ \A q \in Procs \ {p} : pc'[q] = pc[q] /\ ~Working(q)
BY DEF JobsHold, OneByOne, Alone, Goto

LEMMA SameDue ==
    ASSUME ~Settling, NEW a,
           \A p \in Procs : job'[p].txn = job[p].txn \/ {pc[p], pc'[p]} \cap Following = {},
           \A p \in Procs : pc[p] \in Following <=> pc'[p] \in Following
    PROVE  Due(a)' = Due(a)
<1>1. Gateway(a)' = Gateway(a)
  BY SameSums
<1>2. \A t : (\A p \in Procs : ~(pc[p] \in Following /\ job[p].txn = t))
                <=> (\A p \in Procs : ~(pc'[p] \in Following /\ job'[p].txn = t))
  OBVIOUS
<1>3. QED
  BY <1>1, <1>2 DEF Due

\* A handler starts, or goes on with the rows, balances, cache and plans as they are.
LEMMA QuietKeeps ==
    ASSUME JobsHold, Balanced, NEW p \in Procs, NEW place, Goto(p, place),
           \A q \in Procs \ {p} : ~Working(q) /\ job'[q] = job[q],
           pc[p] \notin Following \/ job'[p].txn = job[p].txn,
           pc[p] \in Following <=> place \in Following,
           pc[p] # "died", pc[p] # "invalidate",
           UNCHANGED <<status, balance, cache, paid>>, Knows(p)'
    PROVE  Balanced'
<1>1. pc'[p] = place /\ \A q \in Procs \ {p} : pc'[q] = pc[q]
  BY DEF JobsHold, Goto
<1>2. ~Settling
  BY DEF Settling
<1>3. \A q \in Procs : Knows(q)'
  BY <1>1, OthersIdle
<1>4. \A a \in Accounts : Completed(a)' = Completed(a) /\ Due(a)' = Due(a)
  BY <1>1, <1>2, SameSums, SameDue
<1>5. Sums'
  BY <1>4 DEF Balanced, Sums, Total
<1>6. NoneDied' => NoneDied
  BY <1>1 DEF NoneDied
<1>7. \A q \in Procs : pc[q] # "invalidate"
  BY DEF Working, Idle
<1>8. ASSUME NoneDied', NEW a \in Accounts PROVE Fresh(a)' /\ Covers(a)'
  <2>1. Fresh(a) /\ Covers(a)
    BY <1>6, <1>8 DEF Balanced, Aftermath
  <2>2. QED
    BY <2>1, <1>4, <1>7 DEF Fresh, Covers, Total
<1>9. QED
  BY <1>3, <1>5, <1>8 DEF Balanced, Aftermath

\* A handler that starts finds nobody at work.
LEMMA StartBalanced ==
    ASSUME Serial, JobsHold, OneByOne, Balanced, NEW p \in Procs, May(p),
           NEW place \in {"put", "begin", "send", "done", "looked"}, Goto(p, place),
           \A q \in Procs \ {p} : job'[q] = job[q],
           UNCHANGED <<status, balance, cache, paid>>, Knows(p)'
    PROVE  Balanced'
<1>1. \A q \in Procs : ~Working(q)
  BY RoomMeansIdle DEF May
<1>2. pc[p] = "idle"
  BY DEF May
<1>3. QED
  BY <1>1, <1>2, QuietKeeps DEF Following

LEMMA PostBalanced ==
    ASSUME Serial, JobsHold, OneByOne, Balanced, NEW p \in Procs, NEW t \in Txns, Post(p, t)
    PROVE  Balanced'
<1> DEFINE total == Total(Completed(AccountOf[t]) \cup {t})
<1>1. job' = [job EXCEPT ![p] = [op |-> "post", txn |-> t, acct |-> AccountOf[t], copy |-> 0,
                                 sum |-> total]]
  BY DEF Post
<1>2. ~Settling /\ status' = status
  BY DEF Post, Settling
<1>3. Completed(AccountOf[t])' = Completed(AccountOf[t])
  BY <1>2, SameSums
<1>4. total = Total(Completed(AccountOf[t])' \cup {t})
  BY <1>3
<1> HIDE DEF total
<1>5. job'[p].txn = t /\ job'[p].acct = AccountOf[t] /\ job'[p].sum = total
  BY <1>1 DEF JobsHold
<1>6. pc'[p] = "put" /\ status[t] = "ABSENT"
  BY DEF Post, Goto, JobsHold
<1>7. Knows(p)'
  <2>1. Total(Completed(job[p].acct) \cup {job[p].txn})' = Total(Completed(AccountOf[t])' \cup {t})
    BY <1>5 DEF Completed, Total
  <2>2. QED
    BY <1>2, <1>4, <1>5, <1>6, <2>1 DEF Knows, Posting
<1>8. \A q \in Procs \ {p} : job'[q] = job[q]
  BY <1>1 DEF JobsHold
<1>9. QED
  BY <1>7, <1>8, StartBalanced DEF Post

LEMMA TakeBalanced ==
    ASSUME Serial, JobsHold, OneByOne, Balanced, NEW p \in Procs, NEW t \in Txns,
           Webhook(p, t) \/ WebhookIgnored(p, t) \/ Approve(p, t)
    PROVE  Balanced'
<1>1. PICK o \in Ops : Take(p, o, t)
  BY DEF Webhook, WebhookIgnored, Approve, Ops
<1>2. PICK place \in {"begin", "send", "done"} : Goto(p, place)
  BY DEF Webhook, WebhookIgnored, Approve
<1> DEFINE new == [NoJob EXCEPT !.op = o, !.txn = t, !.acct = AccountOf[t]]
<1>3. new.txn = t /\ new.acct = AccountOf[t]
  BY NoJobType DEF Jobs
<1>4. job' = [job EXCEPT ![p] = new]
  BY <1>1 DEF Take
<1> HIDE DEF new
<1>5. job'[p] = new /\ \A q \in Procs \ {p} : job'[q] = job[q]
  BY <1>4 DEF JobsHold
<1>6. pc'[p] = place
  BY <1>2 DEF Goto, JobsHold
<1>7. Knows(p)'
  BY <1>3, <1>5, <1>6 DEF Knows
<1>8. May(p) /\ UNCHANGED <<status, balance, cache, paid>>
  BY DEF Webhook, WebhookIgnored, Approve
<1>9. QED
  BY <1>2, <1>5, <1>7, <1>8, StartBalanced

LEMMA LookBalanced ==
    ASSUME Serial, JobsHold, OneByOne, Balanced, NEW p \in Procs, NEW a \in Accounts, Look(p, a)
    PROVE  Balanced'
<1> DEFINE total == Total(Completed(a))
           seen == [NoJob EXCEPT !.op = "look", !.acct = a, !.copy = balance[a], !.sum = total]
<1>1. job' = [job EXCEPT ![p] = seen]
  BY DEF Look
<1>2. UNCHANGED <<status, balance, cache, paid>> /\ ~Settling
  BY DEF Look, Settling
<1>3. Completed(a)' = Completed(a)
  BY <1>2, SameSums
<1>4. total = Total(Completed(a)')
  BY <1>3
<1> HIDE DEF total
<1>5. seen.acct = a /\ seen.copy = balance[a] /\ seen.sum = total
  BY NoJobType DEF Jobs
<1> HIDE DEF seen
<1>6. job'[p] = seen /\ \A q \in Procs \ {p} : job'[q] = job[q]
  BY <1>1 DEF JobsHold
<1>7. pc'[p] = "looked"
  BY DEF Look, Goto, JobsHold
<1>8. Knows(p)'
  <2>1. Total(Completed(job[p].acct))' = Total(Completed(a)')
    BY <1>5, <1>6 DEF Completed, Total
  <2>2. QED
    BY <1>2, <1>4, <1>5, <1>6, <1>7, <2>1 DEF Knows, Posting
<1>9. QED
  BY <1>2, <1>6, <1>8, StartBalanced DEF Look

\* A handler at work sends the refund, opens the transaction, writes its row, reads the plans.
LEMMA WorkBalanced ==
    ASSUME JobsHold, OneByOne, Balanced, NEW p \in Procs,
           SendRefund(p) \/ Begin(p) \/ Put(p) \/ PlanRead(p)
    PROVE  Balanced'
<1>1. UNCHANGED <<status, balance, cache, paid>> /\ ~Settling
  BY DEF SendRefund, Begin, Put, PlanRead, Settling
<1>2. Working(p) /\ pc[p] \in {"send", "begin", "begun", "plan"}
  BY DEF SendRefund, Begin, Put, PlanRead, Working, Idle
<1>3. PICK place : Goto(p, place) /\ place = CASE pc[p] = "send" -> "begin"
                                               [] pc[p] = "begin" -> IF status[job[p].txn] = "PENDING" THEN "begun" ELSE "failed"
                                               [] pc[p] = "begun" -> "put"
                                               [] pc[p] = "plan" -> "planned"
  BY DEF SendRefund, Begin, Put, PlanRead
<1>4. pc'[p] = place /\ \A q \in Procs \ {p} : pc'[q] = pc[q] /\ ~Working(q)
  BY <1>2, <1>3, OneWorks
<1>5. pc[p] \in Following <=> place \in Following
  BY <1>2, <1>3 DEF Following
<1>6. /\ \A q \in Procs \ {p} : job'[q] = job[q]
      /\ job'[p].txn = job[p].txn /\ job'[p].acct = job[p].acct
      /\ pc[p] = "begun" => job'[p].sum = Total(Completed(job[p].acct) \cup {job[p].txn})
      /\ pc[p] = "plan" => job'[p].copy = paid[job[p].acct]
  <2>1. CASE SendRefund(p) \/ Begin(p)
    BY <2>1 DEF SendRefund, Begin
  <2>2. CASE Put(p)
    <3> DEFINE total == Total(Completed(job[p].acct) \cup {job[p].txn})
    <3>1. job' = [job EXCEPT ![p] = [@ EXCEPT !.sum = total]]
      BY <2>2 DEF Put
    <3> HIDE DEF total
    <3>2. job'[p].sum = total /\ job'[p].txn = job[p].txn /\ job'[p].acct = job[p].acct
      BY <3>1 DEF JobsHold, Jobs
    <3>3. QED
      BY <2>2, <3>1, <3>2 DEF Put, JobsHold, total
  <2>3. CASE PlanRead(p)
    BY <2>3 DEF PlanRead, JobsHold, Jobs
  <2>4. QED
    BY <2>1, <2>2, <2>3
<1>7. Knows(p)'
  <2>1. Knows(p)
    BY DEF Balanced
  <2>2. Total(Completed(job[p].acct) \cup {job[p].txn})' = Total(Completed(job[p].acct) \cup {job[p].txn})
    BY <1>1, <1>6 DEF Completed, Total
  <2>3. QED
    BY <1>1, <1>2, <1>3, <1>4, <1>6, <2>1, <2>2 DEF Knows, Posting
<1>8. pc[p] # "died" /\ pc[p] # "invalidate"
  BY <1>2
<1>9. QED
  BY <1>1, <1>3, <1>4, <1>5, <1>6, <1>7, <1>8, QuietKeeps

LEMMA DieBalanced ==
    ASSUME JobsHold, OneByOne, Balanced, NEW p \in Procs, Die(p)
    PROVE  Balanced'
<1>1. UNCHANGED <<status, balance, paid>> /\ ~Settling
  BY DEF Die, Settling
<1>2. pc'[p] = "died" /\ \A q \in Procs \ {p} : pc'[q] = pc[q] /\ ~Working(q)
  BY OneWorks DEF Die, Working
<1>3. ~NoneDied'
  BY <1>2 DEF NoneDied
<1>4. \A q \in Procs : Knows(q)'
  BY <1>2, OthersIdle DEF Knows, Posting
<1>5. Sums'
  BY <1>1, SameSums DEF Balanced, Sums, Total
<1>6. QED
  BY <1>1, <1>3, <1>4, <1>5 DEF Balanced, Aftermath

\* What the commit does to the completed transactions.
LEMMA CommitSums ==
    ASSUME Columns, JobsHold, NEW p \in Procs, Knows(p), Commit(p)
    PROVE  /\ AccountOf[job[p].txn] = job[p].acct /\ job[p].txn \in Txns /\ job[p].acct \in Accounts
           /\ status[job[p].txn] \in {"ABSENT", "PENDING"}
           /\ \A a : Completed(a)' = IF a = job[p].acct THEN Completed(a) \cup {job[p].txn} ELSE Completed(a)
           /\ \A a : Gateway(a)' \subseteq Gateway(a) \cup {job[p].txn}
           /\ \A a : Gateway(a) \subseteq Gateway(a)'
           /\ \A a : job[p].txn \notin Gateway(a)
<1>1. /\ AccountOf[job[p].txn] = job[p].acct /\ job[p].txn \in Txns /\ job[p].acct \in Accounts
      /\ status[job[p].txn] \in {"ABSENT", "PENDING"}
  BY DEF Knows, Commit, Posting, JobsHold, Jobs
<1>2. \A t \in Txns : status'[t] = IF t = job[p].txn THEN "COMPLETED" ELSE status[t]
  BY DEF Commit, Columns
<1>3. \A a : Completed(a)' = IF a = job[p].acct THEN Completed(a) \cup {job[p].txn} ELSE Completed(a)
  BY <1>1, <1>2 DEF Completed
<1>4. Online \subseteq Txns
  BY LedgerAssumption
<1>5. \A a : /\ Gateway(a)' \subseteq Gateway(a) \cup {job[p].txn}
             /\ Gateway(a) \subseteq Gateway(a)'
             /\ job[p].txn \notin Gateway(a)
  BY <1>1, <1>2, <1>4 DEF Gateway
<1>6. QED
  BY <1>1, <1>3, <1>5

LEMMA CommitBalanced ==
    ASSUME Columns, JobsHold, OneByOne, Balanced, NEW p \in Procs, Commit(p)
    PROVE  Balanced'
<1> DEFINE t == job[p].txn
           b == job[p].acct
<1>1. Knows(p) /\ pc[p] = "put"
  BY DEF Balanced, Commit
<1>2. /\ AccountOf[t] = b /\ t \in Txns /\ b \in Accounts
      /\ \A a : Completed(a)' = IF a = b THEN Completed(a) \cup {t} ELSE Completed(a)
      /\ \A a : Gateway(a)' \subseteq Gateway(a) \cup {t}
      /\ \A a : Gateway(a) \subseteq Gateway(a)'
      /\ \A a : t \notin Gateway(a)
  BY <1>1, CommitSums
<1>3. pc'[p] = "invalidate" /\ \A q \in Procs \ {p} : pc'[q] = pc[q] /\ ~Working(q)
  BY <1>1, OneWorks DEF Commit, Working, Idle
<1>4. UNCHANGED <<cache, paid, job>>
  BY DEF Commit
<1>5. \A q \in Procs : Knows(q)'
  BY <1>1, <1>3, <1>4, OthersIdle DEF Knows, Posting
<1>6. Sums'
  <2>1. balance'[b] = Total(Completed(b) \cup {t})
    BY <1>1, <1>2 DEF Knows, Commit, NewBalance, Columns
  <2>2. \A a \in Accounts \ {b} : balance'[a] = balance[a]
    BY DEF Commit, Columns
  <2>3. \A a \in Accounts : balance'[a] = Total(Completed(a)')
    BY <1>2, <2>1, <2>2 DEF Balanced, Sums
  <2>4. QED
    BY <2>3 DEF Sums, Total
<1>7. NoneDied' => NoneDied
  BY <1>1, <1>3 DEF NoneDied
<1>8. ASSUME NEW a \in Accounts, Fresh(a) PROVE Fresh(a)'
  <2>1. \A q \in Procs : pc[q] # "invalidate"
    BY <1>1, <1>3 DEF Working, Idle
  <2>2. CASE a = b
    BY <2>2, <1>3, <1>4 DEF Fresh
  <2>3. CASE a # b
    BY <2>1, <2>3, <1>2, <1>4, <1>8 DEF Fresh, Total
  <2>4. QED
    BY <2>2, <2>3
<1>9. ASSUME NEW a \in Accounts, Covers(a) PROVE Covers(a)'
  <2>1. \A q \in Procs : pc[q] \notin Following
    BY <1>1, <1>3 DEF Working, Idle, Following
  <2>2. \A q \in Procs : pc'[q] \in Following <=> q = p
    BY <1>3, <2>1 DEF Following
  <2>3. Due(a) = Gateway(a)
    BY <2>1 DEF Due, Gateway
  <2>4. Due(a)' = Gateway(a)' \ {t}
    BY <2>2, <1>4 DEF Due
  <2>5. Due(a)' = Due(a)
    BY <2>3, <2>4, <1>2
  <2>6. QED
    BY <2>5, <1>4, <1>9 DEF Covers
<1>10. QED
  BY <1>4, <1>5, <1>6, <1>7, <1>8, <1>9 DEF Balanced, Aftermath

LEMMA InvalidateBalanced ==
    ASSUME Columns, JobsHold, OneByOne, Balanced, NEW p \in Procs, Invalidate(p)
    PROVE  Balanced'
<1> DEFINE t == job[p].txn
           b == job[p].acct
<1>1. UNCHANGED <<status, balance, paid, job>> /\ ~Settling /\ pc[p] = "invalidate"
  BY DEF Invalidate, Settling
<1>2. PICK place : Goto(p, place) /\ place = IF Direct(t) THEN "done" ELSE "plan"
  BY DEF Invalidate
<1>3. pc'[p] = place /\ \A q \in Procs \ {p} : pc'[q] = pc[q] /\ ~Working(q)
  BY <1>1, <1>2, OneWorks DEF Working, Idle
<1>4. \A a : Completed(a)' = Completed(a) /\ Gateway(a)' = Gateway(a)
  BY <1>1, SameSums
<1>5. Knows(p)'
  BY <1>1, <1>2, <1>3 DEF Balanced, Knows, Posting
<1>6. \A q \in Procs : Knows(q)'
  BY <1>3, <1>5, OthersIdle
<1>7. Sums'
  BY <1>1, <1>4 DEF Balanced, Sums, Total
<1>8. NoneDied' => NoneDied
  BY <1>1, <1>3 DEF NoneDied
<1>9. ASSUME NEW a \in Accounts, Fresh(a) PROVE Fresh(a)'
  <2>1. \A q \in Procs \ {p} : pc[q] # "invalidate"
    BY <1>3 DEF Working, Idle
  <2>2. CASE a = b
    BY <2>2 DEF Fresh, Invalidate, Invalidated, Columns
  <2>3. CASE a # b
    <3>1. cache'[a] = cache[a]
      BY <2>3 DEF Invalidate, Columns
    <3>2. cache[a] = Null \/ cache[a] = Total(Completed(a))
      BY <2>1, <2>3, <1>9 DEF Fresh
    <3>3. QED
      BY <3>1, <3>2, <1>4 DEF Fresh, Total
  <2>4. QED
    BY <2>2, <2>3
<1>10. ASSUME NEW a \in Accounts, Covers(a) PROVE Covers(a)'
  <2>1. \A u \in Gateway(a) : ~Direct(u)
    BY DEF Gateway, Direct
  <2>2. \A q \in Procs \ {p} : pc[q] \notin Following /\ pc'[q] \notin Following
    BY <1>3 DEF Working, Idle, Following
  <2>3. ~Direct(t) => pc'[p] \in Following
    BY <1>2, <1>3 DEF Following
  <2>4. pc[p] \in Following
    BY <1>1 DEF Following
  <2>5. \A u \in Gateway(a) : (\A q \in Procs : ~(pc[q] \in Following /\ job[q].txn = u))
                                <=> (\A q \in Procs : ~(pc'[q] \in Following /\ job'[q].txn = u))
    BY <1>1, <2>1, <2>2, <2>3, <2>4
  <2>6. Due(a)' = Due(a)
    BY <1>4, <2>5 DEF Due
  <2>7. QED
    BY <2>6, <1>1, <1>10 DEF Covers
<1>11. QED
  BY <1>1, <1>6, <1>7, <1>8, <1>9, <1>10 DEF Balanced, Aftermath

\* The lesser of two numbers.
LEMMA MinOfTwo ==
    ASSUME NEW x \in Int, NEW y \in Int
    PROVE  Min({x, y}) = IF x <= y THEN x ELSE y
<1>1. ASSUME NEW z \in {x, y}, \A u \in {x, y} : z <= u PROVE z = IF x <= y THEN x ELSE y
  BY <1>1
<1>2. \E z \in {x, y} : \A u \in {x, y} : z <= u
  OBVIOUS
<1>3. Min({x, y}) \in {x, y} /\ \A u \in {x, y} : Min({x, y}) <= u
  BY <1>2 DEF Min
<1>4. QED
  BY <1>1, <1>3

LEMMA AmountsAdd ==
    ASSUME NEW S \in SUBSET Txns
    PROVE  /\ SumFunctionOnSet(Amount, S) \in Nat
           /\ \A t \in Txns \ S : SumFunctionOnSet(Amount, S \cup {t}) = Amount[t] + SumFunctionOnSet(Amount, S)
<1>1. IsFiniteSet(S) /\ \A t \in Txns : Amount[t] \in Nat
  BY LedgerAssumption, FS_Subset
<1>2. SumFunctionOnSet(Amount, S) \in Nat
  BY <1>1, SumNat
<1>3. ASSUME NEW t \in Txns \ S
      PROVE  SumFunctionOnSet(Amount, S \cup {t}) = Amount[t] + SumFunctionOnSet(Amount, S)
  <2>1. t \notin S /\ \A u \in S \cup {t} : Amount[u] \in Int
    BY <1>1
  <2>2. QED
    BY <1>1, <2>1, SumAdd
<1>4. QED
  BY <1>2, <1>3

\* The plans count the payment the handler read them for.
LEMMA AllocatedIs ==
    ASSUME Columns, JobsHold, Balanced, NEW p \in Procs, PlanWrite(p)
    PROVE  /\ job[p].acct \in Accounts
           /\ Allocated(p) \in Nat
           /\ paid'[job[p].acct] = Allocated(p)
           /\ paid[job[p].acct] >= PlanTotal[job[p].acct] => Allocated(p) = PlanTotal[job[p].acct]
           /\ \/ Allocated(p) = PlanTotal[job[p].acct]
              \/ Allocated(p) = paid[job[p].acct] + Amount[job[p].txn]
<1> DEFINE t == job[p].txn
           b == job[p].acct
<1>1. t \in Txns /\ b \in Accounts /\ job[p].copy = paid[b]
  BY DEF PlanWrite, JobsHold, Jobs, Balanced, Knows
<1>2. paid[b] \in Nat /\ Amount[t] \in Nat /\ PlanTotal[b] \in Nat
  BY <1>1, LedgerAssumption DEF Balanced
<1>3. paid'[b] = Allocated(p)
  BY <1>1 DEF PlanWrite, Columns
<1> HIDE DEF t, b
<1>4. PlanTotal[b] \in Int /\ paid[b] + Amount[t] \in Int
  BY <1>2
<1>5. Allocated(p) = Min({PlanTotal[b], paid[b] + Amount[t]})
  BY <1>1 DEF Allocated, t, b
<1>6. Allocated(p) = IF PlanTotal[b] <= paid[b] + Amount[t] THEN PlanTotal[b] ELSE paid[b] + Amount[t]
  BY <1>4, <1>5, MinOfTwo
<1>7. /\ Allocated(p) \in Nat
      /\ paid[b] >= PlanTotal[b] => Allocated(p) = PlanTotal[b]
      /\ Allocated(p) = PlanTotal[b] \/ Allocated(p) = paid[b] + Amount[t]
  BY <1>2, <1>6
<1>8. QED
  BY <1>1, <1>3, <1>7 DEF t, b

LEMMA PlanBalanced ==
    ASSUME Columns, JobsHold, OneByOne, Balanced, NEW p \in Procs, PlanWrite(p)
    PROVE  Balanced'
<1> DEFINE t == job[p].txn
           b == job[p].acct
<1>1. UNCHANGED <<status, balance, cache, job>> /\ ~Settling /\ pc[p] = "planned"
  BY DEF PlanWrite, Settling
<1>2. pc'[p] = "done" /\ \A q \in Procs \ {p} : pc'[q] = pc[q] /\ ~Working(q)
  BY <1>1, OneWorks DEF PlanWrite, Working, Idle
<1>3. \A a : Completed(a)' = Completed(a) /\ Gateway(a)' = Gateway(a)
  BY <1>1, SameSums
<1>4. \A q \in Procs : Knows(q)'
  BY <1>2, OthersIdle DEF Knows, Posting
<1>5. paid' \in [Accounts -> Nat]
  BY AllocatedIs DEF PlanWrite, Balanced
<1>6. Sums'
  BY <1>1, <1>3 DEF Balanced, Sums, Total
<1>7. NoneDied' => NoneDied
  BY <1>1, <1>2 DEF NoneDied
<1>8. ASSUME NEW a \in Accounts, Fresh(a) PROVE Fresh(a)'
  <2>1. \A q \in Procs : pc[q] # "invalidate"
    BY <1>1, <1>2 DEF Working, Idle
  <2>2. QED
    BY <2>1, <1>1, <1>3, <1>8 DEF Fresh, Total
<1>9. ASSUME NEW a \in Accounts, Covers(a) PROVE Covers(a)'
  <2>1. \A q \in Procs \ {p} : pc[q] \notin Following /\ pc'[q] \notin Following
    BY <1>2 DEF Working, Idle, Following
  <2>2. pc[p] \in Following /\ pc'[p] \notin Following
    BY <1>1, <1>2 DEF Following
  <2>3. Due(a)' = Gateway(a) /\ Due(a) = Gateway(a) \ {t}
    BY <2>1, <2>2, <1>3 DEF Due
  <2>4. AccountOf[t] = b /\ t \in Txns
    BY <1>1 DEF Balanced, Knows, Posting, JobsHold, Jobs
  <2>5. CASE a # b
    <3>1. t \notin Gateway(a)
      BY <2>4, <2>5 DEF Gateway
    <3>2. paid'[a] = paid[a]
      BY <2>5 DEF PlanWrite, Columns
    <3>3. QED
      BY <2>3, <3>1, <3>2, <1>9 DEF Covers
  <2>6. CASE a = b
    <3>1. Gateway(a) \in SUBSET Txns /\ Due(a) \in SUBSET Txns /\ t \notin Due(a)
      BY <2>3, LedgerAssumption DEF Gateway
    <3> DEFINE old == SumFunctionOnSet(Amount, Due(a))
               new == SumFunctionOnSet(Amount, Due(a)')
    <3>2. old \in Nat /\ new \in Nat /\ (new = old \/ new = Amount[t] + old)
      <4>1. CASE t \in Gateway(a)
        <5>1. Due(a)' = Due(a) \cup {t}
          BY <4>1, <2>3
        <5>2. QED
          BY <5>1, <3>1, <2>3, <2>4, AmountsAdd
      <4>2. CASE t \notin Gateway(a)
        BY <4>2, <2>3, <3>1, AmountsAdd
      <4>3. QED
        BY <4>1, <4>2
    <3>3. Covers(a)' <=> paid'[a] >= PlanTotal[a] \/ paid'[a] >= new
      BY DEF Covers
    <3>4. paid[a] >= PlanTotal[a] \/ paid[a] >= old
      BY <1>9 DEF Covers
    <3> HIDE DEF old, new
    <3>5. paid[a] \in Nat /\ PlanTotal[a] \in Nat /\ Amount[t] \in Nat
      BY <2>4, LedgerAssumption DEF Balanced
    <3>6. /\ paid[a] >= PlanTotal[a] => paid'[a] = PlanTotal[a]
          /\ paid'[a] = PlanTotal[a] \/ paid'[a] = paid[a] + Amount[t]
      BY <2>6, AllocatedIs
    <3>7. paid'[a] >= PlanTotal[a] \/ paid'[a] >= new
      <4>1. CASE paid'[a] = PlanTotal[a]
        BY <4>1, <3>5
      <4>2. CASE paid'[a] = paid[a] + Amount[t] /\ paid'[a] # PlanTotal[a]
        <5>1. paid[a] >= old
          BY <4>2, <3>4, <3>6
        <5>2. QED
          BY <5>1, <4>2, <3>2, <3>5
      <4>3. QED
        BY <4>1, <4>2, <3>6
    <3>8. QED
      BY <3>3, <3>7
  <2>7. QED
    BY <2>5, <2>6
<1>10. QED
  BY <1>4, <1>5, <1>6, <1>7, <1>8, <1>9 DEF Balanced, Aftermath

\* The balance is the sum the view was computed from, so nothing is reconciled; the cache
\* is filled with it.
LEMMA ViewBalanced ==
    ASSUME Columns, JobsHold, OneByOne, Balanced, NEW p \in Procs, FillCache(p) \/ Reconcile(p)
    PROVE  Balanced'
<1> DEFINE b == job[p].acct
<1>1. UNCHANGED <<status, paid, job>> /\ ~Settling /\ pc[p] \in {"looked", "viewed"}
  BY DEF FillCache, Reconcile, Settling
<1>2. PICK place \in {"viewed", "done"} : Goto(p, place)
  BY DEF FillCache, Reconcile
<1>3. pc'[p] = place /\ \A q \in Procs \ {p} : pc'[q] = pc[q] /\ ~Working(q)
  BY <1>1, <1>2, OneWorks DEF Working, Idle
<1>4. \A a : Completed(a)' = Completed(a) /\ Gateway(a)' = Gateway(a)
  BY <1>1, SameSums
<1>5. b \in Accounts /\ job[p].sum = Total(Completed(b)) /\ job[p].copy = balance[b]
  BY <1>1 DEF Balanced, Knows, JobsHold, Jobs
<1>6. balance' = balance
  BY <1>5 DEF FillCache, Reconcile, Balanced, Sums
<1>7. \A a \in Accounts : cache'[a] = cache[a] \/ cache'[a] = Total(Completed(a))
  BY <1>5 DEF FillCache, Reconcile, Columns
<1>8. Knows(p)'
  BY <1>1, <1>3, <1>4, <1>5, <1>6 DEF Knows, Posting, Total
<1>9. \A q \in Procs : Knows(q)'
  BY <1>3, <1>8, OthersIdle
<1>10. Sums'
  BY <1>4, <1>6 DEF Balanced, Sums, Total
<1>11. NoneDied' => NoneDied
  BY <1>1, <1>3 DEF NoneDied
<1>12. \A q \in Procs : pc[q] # "invalidate" /\ pc[q] \notin Following /\ pc'[q] \notin Following
  BY <1>1, <1>3 DEF Working, Idle, Following
<1>13. ASSUME NEW a \in Accounts, Fresh(a) PROVE Fresh(a)'
  BY <1>4, <1>7, <1>12, <1>13 DEF Fresh, Total
<1>14. \A a : Due(a)' = Due(a)
  BY <1>1, <1>12, SameDue
<1>15. ASSUME NEW a \in Accounts, Covers(a) PROVE Covers(a)'
  BY <1>1, <1>14, <1>15 DEF Covers
<1>16. QED
  BY <1>1, <1>9, <1>10, <1>11, <1>13, <1>15 DEF Balanced, Aftermath

\* A row is opened or refused, a cached balance expires.
LEMMA OutsideBalanced ==
    ASSUME Serial, JobsHold, Columns, Balanced, UNCHANGED <<balance, paid, pc, job>>,
           \/ UNCHANGED cache /\ \E t \in Txns : OpenPending(t) \/ Reject(t)
           \/ UNCHANGED status /\ \E a \in Accounts : cache' = [cache EXCEPT ![a] = Null]
           \/ UNCHANGED <<status, cache>>
    PROVE  Balanced'
<1>1. ~Settling
  BY DEF Settling, OpenPending, Reject, MayCancel, Columns
<1>2. \A a : Completed(a)' = Completed(a) /\ Due(a)' = Due(a)
  BY <1>1, SameSums, SameDue
<1>3. ASSUME NEW p \in Procs PROVE Knows(p)'
  <2>1. Knows(p)
    BY DEF Balanced
  <2>2. pc[p] \in {"begun", "put"} /\ status[job[p].txn] \in {"ABSENT", "PENDING"}
            => status'[job[p].txn] \in {"ABSENT", "PENDING"}
    <3>1. CASE \E t \in Txns : Reject(t)
      BY <3>1, RoomMeansIdle DEF Reject, Working, Idle
    <3>2. CASE UNCHANGED status \/ \E t \in Txns : OpenPending(t)
      BY <3>2 DEF OpenPending, Columns, JobsHold, Jobs
    <3>3. QED
      BY <3>1, <3>2
  <2>3. QED
    BY <2>1, <2>2, <1>2 DEF Knows, Posting, Total
<1>4. Sums'
  BY <1>2 DEF Balanced, Sums, Total
<1>5. \A a \in Accounts : cache'[a] = cache[a] \/ cache'[a] = Null
  BY DEF Columns
<1>6. ASSUME NEW a \in Accounts, Fresh(a) /\ Covers(a) PROVE Fresh(a)' /\ Covers(a)'
  BY <1>2, <1>5, <1>6 DEF Fresh, Covers, Total
<1>7. QED
  BY <1>3, <1>4, <1>6 DEF Balanced, Aftermath, NoneDied

LEMMA BooksStep ==
    ASSUME Refunding, BooksHold, [Next]_vars
    PROVE  BooksHold'
<1>1. JobsHold /\ Columns /\ Columns'
  BY ColumnsStep DEF Refunding, BooksHold
<1>2. mode' = mode
  BY DEF Next, vars, Step, OpenPending, Reject, Post, Webhook, WebhookIgnored, Approve, Look,
         Die, Expire, SetAccountActive, SendRefund, Begin, Put, Commit, Invalidate, PlanRead, PlanWrite, FillCache,
         Reconcile
<1>3. SUFFICES ASSUME Serial PROVE Balanced'
  BY <1>1, <1>2 DEF BooksHold, Serial
<1>4. OneByOne /\ Balanced
  BY <1>3 DEF Refunding, BooksHold
<1>5. ASSUME NEW t \in Txns, OpenPending(t) \/ Reject(t) PROVE Balanced'
  <2>1. UNCHANGED <<balance, paid, pc, job, cache>>
    BY <1>5 DEF OpenPending, Reject
  <2>2. QED
    BY <1>1, <1>3, <1>4, <1>5, <2>1, OutsideBalanced
<1>6. ASSUME NEW a \in Accounts, Expire(a) PROVE Balanced'
  BY <1>1, <1>3, <1>4, <1>6, OutsideBalanced DEF Expire
<1>7. ASSUME NEW p \in Procs, NEW t \in Txns,
             Post(p, t) \/ Webhook(p, t) \/ WebhookIgnored(p, t) \/ Approve(p, t)
      PROVE  Balanced'
  BY <1>1, <1>3, <1>4, <1>7, PostBalanced, TakeBalanced
<1>8. ASSUME NEW p \in Procs, NEW a \in Accounts, Look(p, a) PROVE Balanced'
  BY <1>1, <1>3, <1>4, <1>8, LookBalanced
<1>9. ASSUME NEW p \in Procs, Step(p) \/ Die(p) PROVE Balanced'
  BY <1>1, <1>4, <1>9, WorkBalanced, CommitBalanced, InvalidateBalanced, PlanBalanced,
     ViewBalanced, DieBalanced DEF Step
<1>10. CASE UNCHANGED vars
  BY <1>1, <1>3, <1>4, <1>10, OutsideBalanced DEF vars
<1>11. ASSUME NEW c \in Codes, SetAccountActive(c) PROVE Balanced'
  BY <1>1, <1>3, <1>4, <1>11, OutsideBalanced DEF SetAccountActive
<1>12. QED
  BY <1>5, <1>6, <1>7, <1>8, <1>9, <1>10, <1>11 DEF Next

LEMMA BooksAlways == Spec => [](Refunding /\ BooksHold)
<1>1. Refunding /\ BooksHold /\ [Next]_vars => (Refunding /\ BooksHold)'
  BY RefundingStep, BooksStep
<1>2. Init => Refunding /\ BooksHold
  BY RefundingInit, BooksInit
<1>3. QED
  BY <1>1, <1>2, PTL DEF Spec

(* When handlers do not overlap and none died, a cached balance is the sum   *)
(* of the completed transactions, and the gateway payments of an account    *)
(* have been allocated to its plans.                                        *)
THEOREM AftermathFollows == Spec => []AftermathDone
<1>1. Refunding /\ BooksHold => AftermathDone
  <2>1. SUFFICES ASSUME Refunding, BooksHold, Serial, Finished, NEW a \in Accounts
                 PROVE  /\ cache[a] # Null => cache[a] = Total(Completed(a))
                        /\ paid[a] >= Min({PlanTotal[a], SumFunctionOnSet(Amount, Gateway(a))})
    BY DEF AftermathDone, CacheIsFresh, PaymentsAllocated
  <2>2. NoneDied /\ \A p \in Procs : pc[p] # "invalidate" /\ pc[p] \notin Following
    BY <2>1 DEF Finished, NoneDied, Idle, Following
  <2>3. Fresh(a) /\ Covers(a)
    BY <2>1, <2>2 DEF BooksHold, Balanced, Aftermath
  <2>4. Due(a) = Gateway(a) /\ Gateway(a) \in SUBSET Txns
    BY <2>2, LedgerAssumption DEF Due, Gateway
  <2>5. paid[a] \in Nat /\ PlanTotal[a] \in Nat /\ SumFunctionOnSet(Amount, Gateway(a)) \in Nat
    BY <2>1, <2>4, AmountsAdd, LedgerAssumption DEF BooksHold, Balanced
  <2>6. paid[a] >= PlanTotal[a] \/ paid[a] >= SumFunctionOnSet(Amount, Gateway(a))
    BY <2>3, <2>4 DEF Covers
  <2> DEFINE sum == SumFunctionOnSet(Amount, Gateway(a))
  <2> HIDE DEF sum
  <2>7. Min({PlanTotal[a], sum}) = IF PlanTotal[a] <= sum THEN PlanTotal[a] ELSE sum
    BY <2>5, MinOfTwo DEF sum
  <2>8. paid[a] >= Min({PlanTotal[a], sum})
    BY <2>5, <2>6, <2>7 DEF sum
  <2>9. QED
    BY <2>2, <2>3, <2>8 DEF Fresh, sum
<1>2. QED
  BY BooksAlways, <1>1, PTL

-----------------------------------------------------------------------------
(* The ledger implements its book *)

\* The balances, the entries and the closed accounts of the book.
Owed == IF Serial THEN balance ELSE [a \in Accounts |-> 0]
Entries == IF Serial THEN journal ELSE [t \in Txns |-> 0]
Shut == IF Serial THEN closed ELSE {}

LEMMA SameTotal == ASSUME NEW S PROVE Book!Total(S) = Total(S)
BY Zenon DEF Total, Book!Total, SumFunctionOnSet, Book!SumFunctionOnSet, FoldFunctionOnSet,
             Book!FoldFunctionOnSet, MapThenFoldSet, Book!MapThenFoldSet

LEMMA StateIs ==
    ASSUME Serial, Columns, NEW t \in Txns
    PROVE  /\ status[t] = "ABSENT" <=> State[t] = "none"
           /\ status[t] = "PENDING" <=> State[t] = "open"
           /\ status[t] = "COMPLETED" <=> State[t] = "settled"
           /\ status[t] = "FAILED" <=> State[t] = "void"
<1>1. status[t] \in {"ABSENT", "PENDING", "COMPLETED", "FAILED"}
  BY DEF Columns, Statuses
<1>2. CASE status[t] = "ABSENT"
  BY <1>2 DEF State
<1>3. CASE status[t] = "PENDING"
  BY <1>3 DEF State
<1>4. CASE status[t] = "COMPLETED"
  BY <1>4 DEF State
<1>5. CASE status[t] = "FAILED"
  BY <1>5 DEF State
<1>6. QED
  BY <1>1, <1>2, <1>3, <1>4, <1>5

LEMMA BookBegins == Init => Book!BookInit
<1>1. SUFFICES ASSUME Init PROVE Book!BookInit
  OBVIOUS
<1>2. State = [t \in Txns |-> "none"]
  <2>1. \A t \in Txns : status[t] = "ABSENT"
    BY <1>1 DEF Init
  <2>2. \A t \in Txns : State[t] = "none"
    BY <2>1 DEF State
  <2>3. QED
    BY <2>2 DEF State
<1>3. Owed = [a \in Accounts |-> 0] /\ Entries = [t \in Txns |-> 0] /\ Shut = {}
  BY <1>1 DEF Init, Owed, Entries, Shut
<1>4. QED
  BY <1>2, <1>3 DEF Book!BookInit, Owed, Entries, Shut

BookVars == <<State, Owed, Entries, Shut>>

LEMMA StateFunction == State = [u \in Txns |-> State[u]] /\ State' = [u \in Txns |-> State'[u]]
<1> DEFINE is(t) == CASE ~Serial \/ status[t] = "ABSENT" -> "none"
                      [] Serial /\ status[t] = "PENDING" -> "open"
                      [] Serial /\ status[t] = "COMPLETED" -> "settled"
                      [] Serial /\ status[t] = "FAILED" -> "void"
<1>1. State = [t \in Txns |-> is(t)]
  BY DEF State
<1>2. State' = [t \in Txns |-> is(t)']
  BY DEF State
<1> HIDE DEF is
<1>3. State = [u \in Txns |-> State[u]]
  BY <1>1
<1>4. State' = [u \in Txns |-> State'[u]]
  BY <1>2
<1>5. QED
  BY <1>3, <1>4

\* What the book does not see.
LEMMA Unseen ==
    ASSUME Columns, mode' = mode, ~Serial \/ UNCHANGED <<status, balance, journal, closed>>
    PROVE  UNCHANGED BookVars
<1>1. Serial' <=> Serial
  BY DEF Serial
<1>2. CASE ~Serial
  <2>1. \A t \in Txns : State[t] = "none" /\ State'[t] = "none"
    BY <1>1, <1>2 DEF State
  <2>2. State' = State
    BY <2>1 DEF State
  <2>3. Owed' = Owed /\ Entries' = Entries /\ Shut' = Shut
    BY <1>1, <1>2 DEF Owed, Entries, Shut
  <2>4. QED
    BY <2>2, <2>3 DEF BookVars
<1>3. CASE Serial /\ UNCHANGED <<status, balance, journal, closed>>
  <2>1. State' = State
    <3>1. ASSUME NEW t \in Txns PROVE State'[t] = State[t]
      <4>1. status'[t] = status[t] /\ status[t] \in {"ABSENT", "PENDING", "COMPLETED", "FAILED"}
        BY <1>3 DEF Columns, Statuses
      <4>2. CASE status[t] = "ABSENT"
        BY <1>1, <1>3, <4>1, <4>2 DEF State
      <4>3. CASE status[t] = "PENDING"
        BY <1>1, <1>3, <4>1, <4>3 DEF State
      <4>4. CASE status[t] = "COMPLETED"
        BY <1>1, <1>3, <4>1, <4>4 DEF State
      <4>5. CASE status[t] = "FAILED"
        BY <1>1, <1>3, <4>1, <4>5 DEF State
      <4>6. QED
        BY <4>1, <4>2, <4>3, <4>4, <4>5
    <3>2. QED
      BY <3>1, StateFunction
  <2>2. Owed' = Owed /\ Entries' = Entries /\ Shut' = Shut
    BY <1>1, <1>3 DEF Owed, Entries, Shut
  <2>3. QED
    BY <2>1, <2>2 DEF BookVars
<1>4. QED
  BY <1>2, <1>3

\* One row moves.
LEMMA StateMoves ==
    ASSUME Serial, Serial', Columns, NEW t \in Txns, NEW s \in Statuses,
           status' = [status EXCEPT ![t] = s]
    PROVE  State' = [State EXCEPT ![t] = CASE s = "ABSENT" -> "none" [] s = "PENDING" -> "open"
                                           [] s = "COMPLETED" -> "settled" [] s = "FAILED" -> "void"]
<1> DEFINE to == CASE s = "ABSENT" -> "none" [] s = "PENDING" -> "open"
                   [] s = "COMPLETED" -> "settled" [] s = "FAILED" -> "void"
<1>1. status'[t] = s /\ \A u \in Txns \ {t} : status'[u] = status[u]
  BY DEF Columns
<1>2. State'[t] = to
  <2>1. CASE s = "ABSENT"
    BY <2>1, <1>1 DEF State
  <2>2. CASE s = "PENDING"
    BY <2>2, <1>1 DEF State
  <2>3. CASE s = "COMPLETED"
    BY <2>3, <1>1 DEF State
  <2>4. CASE s = "FAILED"
    BY <2>4, <1>1 DEF State
  <2>5. QED
    BY <2>1, <2>2, <2>3, <2>4 DEF Statuses
<1>3. ASSUME NEW u \in Txns \ {t} PROVE State'[u] = State[u]
  <2>1. status'[u] = status[u] /\ status[u] \in {"ABSENT", "PENDING", "COMPLETED", "FAILED"}
    BY <1>1 DEF Columns, Statuses
  <2>2. CASE status[u] = "ABSENT"
    BY <2>1, <2>2 DEF State
  <2>3. CASE status[u] = "PENDING"
    BY <2>1, <2>3 DEF State
  <2>4. CASE status[u] = "COMPLETED"
    BY <2>1, <2>4 DEF State
  <2>5. CASE status[u] = "FAILED"
    BY <2>1, <2>5 DEF State
  <2>6. QED
    BY <2>1, <2>2, <2>3, <2>4, <2>5
<1> HIDE DEF to
<1>4. State = [u \in Txns |-> State[u]] /\ State' = [u \in Txns |-> State'[u]]
  BY StateFunction
<1>5. [State EXCEPT ![t] = to] = [u \in Txns |-> IF u = t THEN to ELSE State[u]]
  BY <1>4
<1>6. State' = [u \in Txns |-> IF u = t THEN to ELSE State[u]]
  BY <1>2, <1>3, <1>4
<1>7. QED
  BY <1>5, <1>6 DEF to

LEMMA OpenIsOpen ==
    ASSUME Serial, Serial', Columns, NEW t \in Txns, OpenPending(t)
    PROVE  Book!Open(t)
<1>1. State[t] = "none"
  BY StateIs DEF OpenPending
<1>2. "PENDING" \in Statuses /\ status' = [status EXCEPT ![t] = "PENDING"]
  BY DEF OpenPending, Statuses
<1>3. State' = [State EXCEPT ![t] = "open"]
  BY <1>2, StateMoves
<1>4. Owed' = Owed /\ Entries' = Entries /\ Shut' = Shut
  BY DEF OpenPending, Owed, Entries, Shut, chart
<1>5. QED
  BY <1>1, <1>3, <1>4 DEF Book!Open, Owed, Entries, Shut

LEMMA RejectIsVoid ==
    ASSUME Serial, Serial', Columns, NEW t \in Txns, Reject(t)
    PROVE  Book!Void(t)
<1>1. State[t] = "open"
  BY StateIs DEF Reject, MayCancel
<1>2. "FAILED" \in Statuses /\ status' = [status EXCEPT ![t] = "FAILED"]
  BY DEF Reject, Statuses
<1>3. State' = [State EXCEPT ![t] = "void"]
  BY <1>2, StateMoves
<1>4. Owed' = Owed /\ Entries' = Entries /\ Shut' = Shut
  BY DEF Reject, Owed, Entries, Shut, chart
<1>5. QED
  BY <1>1, <1>3, <1>4 DEF Book!Void, Owed, Entries, Shut

LEMMA CommitSettles ==
    ASSUME Serial, Serial', Rows, Columns, JobsHold, Balanced, NEW p \in Procs, Commit(p)
    PROVE  Book!Settle(job[p].txn)
<1> DEFINE t == job[p].txn
           b == job[p].acct
<1>1. Knows(p) /\ pc[p] = "put"
  BY DEF Balanced, Commit
<1>2. t \in Txns /\ AccountOf[t] = b /\ status[t] \in {"ABSENT", "PENDING"}
  BY <1>1, CommitSums
<1>3. State[t] \in {"none", "open"}
  BY <1>2, StateIs
<1>4. "COMPLETED" \in Statuses /\ status' = [status EXCEPT ![t] = "COMPLETED"]
  BY DEF Commit, Statuses
<1>5. State' = [State EXCEPT ![t] = "settled"]
  BY <1>2, <1>4, StateMoves
<1>6. Book!Settled(b) = Completed(b)
  BY StateIs DEF Book!Settled, Completed
<1>7. balance' = [balance EXCEPT ![b] = Total(Completed(b) \cup {t})]
  BY <1>1 DEF Commit, NewBalance, Knows
<1>8. Owed' = [Owed EXCEPT ![AccountOf[t]] = Book!Total(Book!Settled(AccountOf[t]) \cup {t})]
  BY <1>2, <1>6, <1>7, SameTotal DEF Owed
<1>9. journal' = IF Postable(t) THEN [journal EXCEPT ![t] = 1] ELSE journal
  <2>1. journal[t] = 0 /\ DOMAIN journal = Txns
    BY <1>2 DEF Rows, JournaledOnce
  <2>2. journal' = [journal EXCEPT ![t] = Journaled(t)]
    BY DEF Commit
  <2>3. CASE Postable(t)
    BY <2>1, <2>2, <2>3 DEF Journaled
  <2>4. CASE ~Postable(t)
    BY <2>1, <2>2, <2>4 DEF Journaled, Rows
  <2>5. QED
    BY <2>3, <2>4
<1>10. Entries' = (IF LinesOf[t] # {} /\ LinesOf[t] \cap Shut = {}
                   THEN [Entries EXCEPT ![t] = 1] ELSE Entries)
  BY <1>9 DEF Entries, Shut, Postable
<1>11. Shut' = Shut
  BY DEF Commit, Shut
<1>12. QED
  BY <1>3, <1>5, <1>8, <1>10, <1>11 DEF Book!Settle, Owed, Entries, Shut

LEMMA AccountSwitches ==
    ASSUME Serial, Serial', Columns, NEW c \in Codes, SetAccountActive(c)
    PROVE  Book!Switch(c)
<1>1. State' = State
  <2>1. ASSUME NEW t \in Txns PROVE State'[t] = State[t]
    <3>1. status'[t] = status[t] /\ status[t] \in {"ABSENT", "PENDING", "COMPLETED", "FAILED"}
      BY DEF SetAccountActive, Columns, Statuses
    <3>2. CASE status[t] = "ABSENT"
      BY <3>1, <3>2 DEF State
    <3>3. CASE status[t] = "PENDING"
      BY <3>1, <3>3 DEF State
    <3>4. CASE status[t] = "COMPLETED"
      BY <3>1, <3>4 DEF State
    <3>5. CASE status[t] = "FAILED"
      BY <3>1, <3>5 DEF State
    <3>6. QED
      BY <3>1, <3>2, <3>3, <3>4, <3>5
  <2>2. QED
    BY <2>1, StateFunction
<1>2. Owed' = Owed /\ Entries' = Entries
  BY DEF SetAccountActive, Owed, Entries
<1>3. Shut' = IF c \in Shut THEN Shut \ {c} ELSE Shut \cup {c}
  BY DEF SetAccountActive, Shut
<1>4. QED
  BY <1>1, <1>2, <1>3 DEF Book!Switch, Owed, Entries, Shut

LEMMA BookGoesOn ==
    ASSUME Rows, Refunding, BooksHold, [Next]_vars
    PROVE  [Book!BookNext]_BookVars
<1>1. mode' = mode
  BY DEF Next, vars, Step, OpenPending, Reject, Post, Webhook, WebhookIgnored, Approve, Look,
         Die, Expire, SetAccountActive, SendRefund, Begin, Put, Commit, Invalidate, PlanRead, PlanWrite, FillCache,
         Reconcile
<1>2. SUFFICES ASSUME Serial, ~UNCHANGED <<status, balance, journal, closed>> PROVE Book!BookNext
  BY <1>1, Unseen DEF BooksHold
<1>3. Serial' /\ JobsHold /\ Columns /\ Balanced
  BY <1>1, <1>2 DEF Serial, Refunding, BooksHold
<1>4. ASSUME NEW t \in Txns, OpenPending(t) \/ Reject(t) PROVE Book!BookNext
  BY <1>2, <1>3, <1>4, OpenIsOpen, RejectIsVoid DEF Book!BookNext
<1>5. ASSUME NEW p \in Procs, Commit(p) PROVE Book!BookNext
  <2>1. job[p].txn \in Txns
    BY <1>3 DEF JobsHold, Jobs
  <2>2. QED
    BY <1>2, <1>3, <1>5, <2>1, CommitSettles DEF Book!BookNext
<1>6. ASSUME NEW p \in Procs, Reconcile(p) PROVE FALSE
  <2>1. job[p].sum = Total(Completed(job[p].acct)) /\ job[p].copy = balance[job[p].acct]
    BY <1>3, <1>6 DEF Balanced, Knows, Reconcile
  <2>2. job[p].acct \in Accounts
    BY <1>3 DEF JobsHold, Jobs
  <2>3. UNCHANGED <<status, balance, journal, closed>>
    BY <1>3, <1>6, <2>1, <2>2 DEF Reconcile, Balanced, Sums, chart
  <2>4. QED
    BY <1>2, <2>3
<1>7. ASSUME NEW p \in Procs, SendRefund(p) \/ Begin(p) \/ Put(p) \/ Invalidate(p) \/ PlanRead(p)
                                 \/ PlanWrite(p) \/ FillCache(p) \/ Die(p)
      PROVE  FALSE
  BY <1>2, <1>7 DEF SendRefund, Begin, Put, Invalidate, PlanRead, PlanWrite, FillCache, Die,
                      chart
<1>8. ASSUME NEW p \in Procs, NEW t \in Txns,
             Post(p, t) \/ Webhook(p, t) \/ WebhookIgnored(p, t) \/ Approve(p, t)
      PROVE  FALSE
  BY <1>2, <1>8 DEF Post, Webhook, WebhookIgnored, Approve, chart
<1>9. ASSUME NEW p \in Procs, NEW a \in Accounts, Look(p, a) PROVE FALSE
  BY <1>2, <1>9 DEF Look, chart
<1>10. ASSUME NEW a \in Accounts, Expire(a) PROVE FALSE
  BY <1>2, <1>10 DEF Expire, chart
<1>11. ASSUME NEW c \in Codes, SetAccountActive(c) PROVE Book!BookNext
  BY <1>2, <1>3, <1>11, AccountSwitches DEF Book!BookNext
<1>12. ~UNCHANGED vars
  BY <1>2 DEF vars
<1>13. QED
  BY <1>4, <1>5, <1>6, <1>7, <1>8, <1>9, <1>10, <1>11, <1>12 DEF Next, Step

(* The ledger, one handler at a time, implements its book: each commit       *)
(* settles a transaction, its account's balance and, where it has lines and *)
(* their accounts are open, its journal in one step, and nothing else       *)
(* touches them.                                                            *)
THEOREM BookIsKept == Spec => KeepsTheBook
<1>1. Rows /\ [Next]_vars => Rows'
  BY RowsStep, RowsKept
<1>2. Rows /\ Refunding /\ BooksHold /\ [Next]_vars => [Book!BookNext]_<<State, Owed, Entries, Shut>>
  BY BookGoesOn DEF BookVars
<1>3. Spec => [][Book!BookNext]_<<State, Owed, Entries, Shut>>
  BY RowsInit, BooksAlways, <1>1, <1>2, PTL DEF Spec
<1>4. Spec => Book!BookInit
  BY BookBegins, PTL DEF Spec
<1>5. QED
  BY <1>3, <1>4, PTL DEF KeepsTheBook, Book!BookSpec, Owed, Entries, Shut
=============================================================================
