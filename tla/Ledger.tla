------------------------------- MODULE Ledger -------------------------------
(***************************************************************************)
(* The student ledger (apps/api/src/finance): transactions posted by the   *)
(* bursar, paid through a gateway or approved by a workflow, the balance   *)
(* column, the journal, payment plans and the balance cache.               *)
(*                                                                         *)
(* A database transaction runs at READ COMMITTED: "put" is the statement   *)
(* that writes the ledger row and keeps its row lock, with the aggregate   *)
(* that follows it (committed rows and the writer's own); Commit is the    *)
(* update of the balance, the journal lines and the commit.  Nothing of    *)
(* the latter three is visible to others before the commit.                *)
(***************************************************************************)
EXTENDS Integers, FiniteSets, FiniteSetsExt

CONSTANTS
    Txns,        \* ledger transactions (rows of financeTransaction)
    Accounts,    \* student accounts
    Procs,       \* handlers; each is used once
    AccountOf,   \* AccountOf[t]: the account of t
    Kind,        \* Kind[t]: its FinanceTransactionType
    Amount,      \* Amount[t]: its absolute amount
    Online,      \* payments made through a gateway, PENDING until its webhook comes
    Contested,   \* transactions whose chain may be refused while it is approved
    Completions, \* how often the engine may complete the chain of one transaction
                 \* when handlers overlap
    Codes,       \* general-ledger accounts of the institution's chart
    LinesOf,     \* LinesOf[t]: the accounts of the journal lines in the metadata of t;
                 \* charges of an enrollment and bulk charges carry no lines
    PlanTotal,   \* PlanTotal[a]: principal of the active payment plans of a
    Null,        \* an absent cache entry
    MaxOpen,     \* how many handlers may overlap, when they do
    MayDie       \* whether a process may die between two steps

ASSUME LedgerAssumption ==
    /\ Txns # {} /\ Accounts # {}
    /\ IsFiniteSet(Txns) /\ IsFiniteSet(Procs)
    /\ AccountOf \in [Txns -> Accounts]
    /\ Amount \in [Txns -> Nat \ {0}]
    /\ LinesOf \in [Txns -> SUBSET Codes]
    /\ \A t \in Txns : LinesOf[t] = {} => Kind[t] = "CHARGE"
    /\ PlanTotal \in [Accounts -> Nat]
    /\ Online \subseteq {t \in Txns : Kind[t] = "PAYMENT"}
    /\ Contested \subseteq Txns
    /\ MaxOpen \in Nat
    /\ Completions \in Nat
    /\ MayDie \in BOOLEAN
    /\ Null \notin Int

\* signedLedgerAmount: positive raises what the student owes.
Signed == [t \in Txns |->
             IF Kind[t] \in {"CHARGE", "ADJUSTMENT"} THEN Amount[t] ELSE -Amount[t]]

\* The AR-STUDENT line of buildLedgerEntries, debit minus credit.
Receivable == [t \in Txns |->
                 IF Kind[t] \in {"CHARGE", "ADJUSTMENT", "REFUND"} THEN Amount[t] ELSE -Amount[t]]

NeedsApproval(t) == Kind[t] \in {"WAIVER", "REFUND"}
Direct(t) == ~NeedsApproval(t) /\ t \notin Online

VARIABLES
    mode,      \* "serial": handlers run one at a time; "overlap": MaxOpen of them may
               \* be at work, and the engine may complete a chain Completions times
    status,    \* status[t]: the stored status, or "ABSENT"
    balance,   \* balance[a]: the balance column of the account
    journal,   \* journal[t]: how often the journal lines of t were written
    sent,      \* sent[t]: refunds of t the gateway carried out
    paid,      \* paid[a]: what the installments of a's plans count as paid
    cache,     \* cache[a]: the cached balance, or Null
    pc,        \* pc[p]: where handler p is
    job,       \* job[p]: what it does, its transaction, its aggregate, what it read
    closed,    \* accounts of the chart that are not active
    unposted   \* history: transactions that committed while an account of theirs was closed

chart == <<closed, unposted>>
vars == <<mode, status, balance, journal, sent, paid, cache, pc, job, closed, unposted>>

Statuses == {"ABSENT", "PENDING", "COMPLETED", "FAILED"}
InTransaction == {"begun", "put"}
Idle == {"idle", "done", "failed", "died"}
Places == Idle \cup InTransaction
              \cup {"send", "begin", "invalidate", "plan", "planned", "looked", "viewed"}

Ops == {"none", "post", "webhook", "approve", "look"}
NoJob == [op |-> "none", txn |-> CHOOSE t \in Txns : TRUE, acct |-> CHOOSE a \in Accounts : TRUE,
          sum |-> 0, copy |-> 0]

Init ==
    /\ mode \in {"serial", "overlap"}
    /\ status = [t \in Txns |-> "ABSENT"]
    /\ balance = [a \in Accounts |-> 0]
    /\ journal = [t \in Txns |-> 0]
    /\ sent = [t \in Txns |-> 0]
    /\ paid = [a \in Accounts |-> 0]
    /\ cache = [a \in Accounts |-> Null]
    /\ pc = [p \in Procs |-> "idle"]
    /\ job = [p \in Procs |-> NoJob]
    /\ closed = {}
    /\ unposted = {}

Total(S) == SumFunctionOnSet(Signed, S)
Completed(a) == {t \in Txns : AccountOf[t] = a /\ status[t] = "COMPLETED"}

Serial == mode = "serial"
Room == Cardinality({p \in Procs : pc[p] \notin Idle}) < (IF Serial THEN 1 ELSE MaxOpen)
MayRepeat == IF Serial THEN 1 ELSE Completions
May(p) == pc[p] = "idle" /\ Room
Locked(t) == \E q \in Procs : pc[q] = "put" /\ job[q].txn = t

Goto(p, place) == pc' = [pc EXCEPT ![p] = place]
Take(p, o, t) ==
    job' = [job EXCEPT ![p] = [NoJob EXCEPT !.op = o, !.txn = t, !.acct = AccountOf[t]]]

Handlers(o, t) == {p \in Procs : job[p].op = o /\ job[p].txn = t}

-----------------------------------------------------------------------------
\* A pending row: createPendingGatewayTransaction, or the transaction that
\* creates the row together with its workflow instance.
OpenPending(t) ==
    /\ ~Direct(t)
    /\ status[t] = "ABSENT"
    /\ status' = [status EXCEPT ![t] = "PENDING"]
    /\ UNCHANGED <<mode, balance, journal, sent, paid, cache, pc, job, chart>>

\* postCharge, postPayment: postLedgerEntry creates the COMPLETED row.
Post(p, t) ==
    /\ May(p)
    /\ Direct(t)
    /\ status[t] = "ABSENT"
    /\ Handlers("post", t) = {}
    /\ job' = [job EXCEPT ![p] = [op |-> "post", txn |-> t, acct |-> AccountOf[t], copy |-> 0,
                                  sum |-> Total(Completed(AccountOf[t]) \cup {t})]]
    /\ Goto(p, "put")
    /\ UNCHANGED <<mode, status, balance, journal, sent, paid, cache, chart>>

\* completeGatewayPayment: delivered at least once, any number of times.
Webhook(p, t) ==
    /\ May(p)
    /\ t \in Online
    /\ status[t] \in {"PENDING", "FAILED"}
    /\ Take(p, "webhook", t)
    /\ Goto(p, "begin")
    /\ UNCHANGED <<mode, status, balance, journal, sent, paid, cache, chart>>

\* The webhook finds the payment completed, or the gateway says it failed.
WebhookIgnored(p, t) ==
    /\ May(p)
    /\ t \in Online
    /\ status[t] # "ABSENT"
    /\ Take(p, "webhook", t)
    /\ Goto(p, "done")
    /\ UNCHANGED <<mode, status, balance, journal, sent, paid, cache, chart>>

\* Faulty variant: the row is looked up without its status.
Approvable_AnyStatus(t) == NeedsApproval(t) /\ status[t] # "ABSENT"

\* completeFinanceApprovalFromWorkflow reads a PENDING waiver or refund.
Approvable(t) == NeedsApproval(t) /\ status[t] = "PENDING"

Approve(p, t) ==
    /\ May(p)
    /\ Approvable(t)
    /\ Cardinality(Handlers("approve", t)) < MayRepeat
    /\ Take(p, "approve", t)
    /\ Goto(p, IF Kind[t] = "REFUND" THEN "send" ELSE "begin")
    /\ UNCHANGED <<mode, status, balance, journal, sent, paid, cache, chart>>

\* initiateRefund; its failure is caught and the ledger entry still posted.
SendRefund(p) ==
    /\ pc[p] = "send"
    /\ \E n \in {0, 1} : sent' = [sent EXCEPT ![job[p].txn] = @ + n]
    /\ Goto(p, "begin")
    /\ UNCHANGED <<mode, status, balance, journal, paid, cache, job, chart>>

-----------------------------------------------------------------------------
\* completePendingTransaction: the row must be PENDING when the transaction reads it.
Begin(p) ==
    /\ pc[p] = "begin"
    /\ Goto(p, IF status[job[p].txn] = "PENDING" THEN "begun" ELSE "failed")
    /\ UNCHANGED <<mode, status, balance, journal, sent, paid, cache, job, chart>>

\* The update by id waits for the lock of another writer of the row, not for
\* the status it read, and the aggregate follows.
Put(p) ==
    /\ pc[p] = "begun"
    /\ ~Locked(job[p].txn)
    /\ job' = [job EXCEPT ![p] = [@ EXCEPT !.sum =
                    Total(Completed(job[p].acct) \cup {job[p].txn})]]
    /\ Goto(p, "put")
    /\ UNCHANGED <<mode, status, balance, journal, sent, paid, cache, chart>>

\* What postJournalLinesForTransaction finds: no lines, or an account that is not active.
Postable(t) == LinesOf[t] # {} /\ LinesOf[t] \cap closed = {}

\* Faulty variants: the lines are not counted first; the aggregate leaves out the
\* row just written.
Journaled_Always(t) == IF Postable(t) THEN journal[t] + 1 ELSE journal[t]
NewBalance_WithoutOwn(p) == job[p].sum - Signed[job[p].txn]

\* postJournalLinesForTransaction counts the lines of the transaction first; where
\* it posts nothing it returns, and the transaction commits without a journal.
Journaled(t) == IF journal[t] = 0 /\ Postable(t) THEN 1 ELSE journal[t]
NewBalance(p) == job[p].sum

Commit(p) ==
    /\ pc[p] = "put"
    /\ status' = [status EXCEPT ![job[p].txn] = "COMPLETED"]
    /\ balance' = [balance EXCEPT ![job[p].acct] = NewBalance(p)]
    /\ journal' = [journal EXCEPT ![job[p].txn] = Journaled(job[p].txn)]
    /\ unposted' = IF LinesOf[job[p].txn] \cap closed = {} THEN unposted
                   ELSE unposted \cup {job[p].txn}
    /\ Goto(p, "invalidate")
    /\ UNCHANGED <<mode, sent, paid, cache, job, closed>>

Invalidated(a) == Null

Invalidate(p) ==
    /\ pc[p] = "invalidate"
    /\ cache' = [cache EXCEPT ![job[p].acct] = Invalidated(job[p].acct)]
    /\ Goto(p, IF Direct(job[p].txn) THEN "done" ELSE "plan")
    /\ UNCHANGED <<mode, status, balance, journal, sent, paid, job, chart>>

\* applyPaymentToActivePlans: the plans are read, then written by id.
PlanRead(p) ==
    /\ pc[p] = "plan"
    /\ job' = [job EXCEPT ![p] = [@ EXCEPT !.copy = paid[job[p].acct]]]
    /\ Goto(p, "planned")
    /\ UNCHANGED <<mode, status, balance, journal, sent, paid, cache, chart>>

\* Faulty variant: the amount replaces what was paid before.
Allocated_Replaced(p) == Min({PlanTotal[job[p].acct], Amount[job[p].txn]})
Allocated(p) == Min({PlanTotal[job[p].acct], job[p].copy + Amount[job[p].txn]})

PlanWrite(p) ==
    /\ pc[p] = "planned"
    /\ paid' = [paid EXCEPT ![job[p].acct] = Allocated(p)]
    /\ Goto(p, "done")
    /\ UNCHANGED <<mode, status, balance, journal, sent, cache, job, chart>>

\* rejectFinanceApprovalFromWorkflow: updateMany where the status is PENDING.
MayCancel(t) == status[t] = "PENDING"

Reject(t) ==
    /\ NeedsApproval(t)
    /\ Room
    /\ t \in Contested \/ Handlers("approve", t) = {}
    /\ ~Locked(t)
    /\ MayCancel(t)
    /\ status' = [status EXCEPT ![t] = "FAILED"]
    /\ UNCHANGED <<mode, balance, journal, sent, paid, cache, pc, job, chart>>

-----------------------------------------------------------------------------
\* getStudentAccount: the sum, then the cache, then cache and column are set from
\* the sum without waiting.
Look(p, a) ==
    /\ May(p)
    /\ job' = [job EXCEPT ![p] = [NoJob EXCEPT !.op = "look", !.acct = a,
                                               !.copy = balance[a],
                                               !.sum = Total(Completed(a))]]
    /\ Goto(p, "looked")
    /\ UNCHANGED <<mode, status, balance, journal, sent, paid, cache, chart>>

FillCache(p) ==
    /\ pc[p] = "looked"
    /\ IF cache[job[p].acct] = Null
       THEN cache' = [cache EXCEPT ![job[p].acct] = job[p].sum]
       ELSE UNCHANGED cache
    /\ Goto(p, "viewed")
    /\ UNCHANGED <<mode, status, balance, journal, sent, paid, job, chart>>

Reconcile(p) ==
    /\ pc[p] = "viewed"
    /\ IF job[p].copy # job[p].sum
       THEN balance' = [balance EXCEPT ![job[p].acct] = job[p].sum]
       ELSE UNCHANGED balance
    /\ Goto(p, "done")
    /\ UNCHANGED <<mode, status, journal, sent, paid, cache, job, chart>>

\* The entry lives for an hour.
Expire(a) ==
    /\ cache[a] # Null
    /\ cache' = [cache EXCEPT ![a] = Null]
    /\ UNCHANGED <<mode, status, balance, journal, sent, paid, pc, job, chart>>

\* setAccountActive, upsertAccount: an account of the chart is closed or opened again.
SetAccountActive(c) ==
    /\ closed' = IF c \in closed THEN closed \ {c} ELSE closed \cup {c}
    /\ UNCHANGED <<mode, status, balance, journal, sent, paid, cache, pc, job, unposted>>

\* The process dies; an open database transaction is rolled back.
Die(p) ==
    /\ MayDie
    /\ pc[p] \notin Idle
    /\ Goto(p, "died")
    /\ UNCHANGED <<mode, status, balance, journal, sent, paid, cache, job, chart>>

Step(p) ==
    \/ SendRefund(p) \/ Begin(p) \/ Put(p) \/ Commit(p) \/ Invalidate(p)
    \/ PlanRead(p) \/ PlanWrite(p) \/ FillCache(p) \/ Reconcile(p)

Next ==
    \/ \E t \in Txns : OpenPending(t) \/ Reject(t)
    \/ \E p \in Procs, t \in Txns :
          Post(p, t) \/ Webhook(p, t) \/ WebhookIgnored(p, t) \/ Approve(p, t)
    \/ \E p \in Procs, a \in Accounts : Look(p, a)
    \/ \E p \in Procs : Step(p) \/ Die(p)
    \/ \E a \in Accounts : Expire(a)
    \/ \E c \in Codes : SetAccountActive(c)

Spec == Init /\ [][Next]_vars

-----------------------------------------------------------------------------
TypeOK ==
    /\ mode \in {"serial", "overlap"}
    /\ status \in [Txns -> Statuses]
    /\ balance \in [Accounts -> Int]
    /\ journal \in [Txns -> Nat]
    /\ sent \in [Txns -> Nat]
    /\ paid \in [Accounts -> Nat]
    /\ cache \in [Accounts -> Int \cup {Null}]
    /\ pc \in [Procs -> Places]
    /\ job \in [Procs -> [op : Ops, txn : Txns, acct : Accounts, sum : Int, copy : Int]]
    /\ closed \subseteq Codes
    /\ unposted \subseteq Txns

(* However webhooks, approvals, refusals, deaths and changes of the chart    *)
(* overlap, a transaction is in the journal at most once and only when it   *)
(* is completed; a completed one is missing from it only when it carries no *)
(* lines or committed while one of its accounts was closed.                 *)
JournaledOnce ==
    \A t \in Txns :
        /\ journal[t] \in {0, 1}
        /\ journal[t] = 1 => status[t] = "COMPLETED" /\ LinesOf[t] # {}
        /\ status[t] = "COMPLETED" /\ journal[t] = 0 => LinesOf[t] = {} \/ t \in unposted

(* No handler takes a completed transaction back: a refusal that arrives     *)
(* late finds nothing to cancel.                                            *)
CompletedForGood ==
    [][\A t \in Txns : status[t] = "COMPLETED" => status'[t] = "COMPLETED"]_vars

(* When handlers do not overlap, the gateway carries out a refund at most    *)
(* once, and one that was refused only if the approving process died.       *)
RefundSentOnce ==
    Serial => \A t \in Txns :
        /\ sent[t] <= 1
        /\ sent[t] = 1 /\ status[t] = "FAILED" =>
              \E p \in Handlers("approve", t) : pc[p] = "died"

\* The book the ledger stands for.  Handlers that overlap lose balances, and no
\* book is claimed of them: theirs stays empty.
State == [t \in Txns |-> CASE ~Serial \/ status[t] = "ABSENT" -> "none"
                           [] Serial /\ status[t] = "PENDING" -> "open"
                           [] Serial /\ status[t] = "COMPLETED" -> "settled"
                           [] Serial /\ status[t] = "FAILED" -> "void"]

(* The ledger implements LedgerBook when handlers do not overlap: every      *)
(* commit settles the row, its balance and its journal lines, if it has any *)
(* and their accounts are open, in one step.                                *)
Book == INSTANCE LedgerBook WITH
    state <- State,
    owed <- IF Serial THEN balance ELSE [a \in Accounts |-> 0],
    entries <- IF Serial THEN journal ELSE [t \in Txns |-> 0],
    shut <- IF Serial THEN closed ELSE {}
KeepsTheBook == Book!BookSpec

\* No handler at work, and none died at it.
Finished == \A p \in Procs : pc[p] \in Idle \ {"died"}

(* When handlers do not overlap and none died, a cached balance is the sum   *)
(* of the completed transactions: every path that completes one invalidates *)
(* the entry of the account.                                                *)
CacheIsFresh ==
    Serial /\ Finished => \A a \in Accounts : cache[a] # Null => cache[a] = Total(Completed(a))

Gateway(a) == {t \in Online : AccountOf[t] = a /\ status[t] = "COMPLETED"}

(* When handlers do not overlap and none died, the gateway payments of an    *)
(* account have been allocated to the installments of its plans.            *)
PaymentsAllocated ==
    Serial /\ Finished => \A a \in Accounts :
        paid[a] >= Min({PlanTotal[a], SumFunctionOnSet(Amount, Gateway(a))})

(* What is left to do after a commit has been done, whoever completed the    *)
(* transaction: the cached balance and the installments agree with it.      *)
AftermathDone == CacheIsFresh /\ PaymentsAllocated

Posted(a) == {t \in Completed(a) : journal[t] > 0}

(* The journal's receivable of an account is what the ledger says the       *)
(* transactions that are in the journal add up to.                          *)
JournalAgrees ==
    \A a \in Accounts : Total(Posted(a)) = SumFunctionOnSet(Receivable, Posted(a))
=============================================================================
