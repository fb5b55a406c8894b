------------------------------ MODULE Backfill ------------------------------
(***************************************************************************)
(* Backfill requests of an inactive student (apps/api/src/backfill), each  *)
(* decided by its workflow or by hand.  A grant opens a window in which    *)
(* records may be posted for the student and is billed by a retroactive    *)
(* invoice, which a queued job makes where there is a queue.  Each         *)
(* statement sent to the database is one step; a transaction is the reads  *)
(* it made and its commit.                                                 *)
(***************************************************************************)
EXTENDS Naturals, FiniteSets

CONSTANTS
    Requests,    \* backfill requests the student may make
    Days,        \* the dates records are about
    RangeOf,     \* RangeOf[r]: the days from fromDate to toDate
    Handlers,    \* requests and job workers that may overlap in mode "overlap"
    Attempts,    \* attempts of a retroactive invoice job
    MaxGrants,   \* MaxGrants[r]: bound on the windows of r
    MaxPushes    \* MaxPushes[r]: bound on how often the invoices of r leave the page

ASSUME BackfillAssumption ==
    /\ Requests # {} /\ Days # {}
    /\ IsFiniteSet(Handlers)
    /\ RangeOf \in [Requests -> SUBSET Days]
    /\ Attempts \in Nat \ {0}
    /\ MaxGrants \in [Requests -> Nat \ {0}]
    /\ MaxPushes \in [Requests -> Nat]

VARIABLES
    mode,       \* "serial" or "overlap"
    redis,      \* whether there is a queue for retroactive invoices
    faults,     \* whether calls may throw or die between two statements
    status,     \* status[r]: BackfillRequestStatus, "none" before submit
    chain,      \* chain[r]: the workflow of r: "none", "open" or "over"
    grants,     \* grants[r]: windows created for r
    open,       \* the windows that are active: <<r, n>>, the n-th of r
    invoices,   \* invoices[r]: retroactive invoices that name r
    beyond,     \* requests whose invoices are not among the latest hundred any more
    pushes,     \* history: how often the invoices of r came to lie beyond them
    job,        \* job[r]: the job retro-r: "none", "queued", "running", "done" or "failed"
    tries,      \* tries[r]: attempts of the job that failed
    posted,     \* the record posted last
    pc, call

setting == <<mode, redis, faults>>
request == <<status, chain>>
window == <<grants, open>>
page == <<beyond, pushes>>
billing == <<invoices, job, tries, page>>
vars == <<setting, request, window, billing, posted, pc, call>>

Undecided == {"PENDING", "UNDER_REVIEW"}
Status == Undecided \cup {"none", "APPROVED", "REJECTED"}

AnyRequest == CHOOSE r \in Requests : TRUE
AnyDay == CHOOSE d \in Days : TRUE

NoCall == [req |-> AnyRequest, by |-> "hand", seen |-> {}, day |-> AnyDay, via |-> {}]

Init ==
    /\ mode \in {"serial", "overlap"}
    /\ redis \in BOOLEAN
    /\ faults \in BOOLEAN
    /\ status = [r \in Requests |-> "none"]
    /\ chain = [r \in Requests |-> "none"]
    /\ grants = [r \in Requests |-> 0]
    /\ open = {}
    /\ invoices = [r \in Requests |-> 0]
    /\ beyond = {}
    /\ pushes = [r \in Requests |-> 0]
    /\ job = [r \in Requests |-> "none"]
    /\ tries = [r \in Requests |-> 0]
    /\ posted = [day |-> AnyDay, via |-> {}]
    /\ pc = [h \in Handlers |-> "idle"]
    /\ call = [h \in Handlers |-> NoCall]

Limit == IF mode = "serial" THEN 1 ELSE Cardinality(Handlers)

Free == Cardinality({h \in Handlers : pc[h] # "idle"}) < Limit

Start(h, place, what) ==
    /\ pc[h] = "idle"
    /\ Free
    /\ pc' = [pc EXCEPT ![h] = place]
    /\ call' = [call EXCEPT ![h] = what]

Begin(h, place, what) ==
    /\ Start(h, place, what)
    /\ UNCHANGED <<setting, request, window, billing, posted>>

At(h, place) == pc[h] = place

Goto(h, place) ==
    /\ pc' = [pc EXCEPT ![h] = place]
    /\ call' = IF place = "idle" THEN [call EXCEPT ![h] = NoCall] ELSE call

About(r, who) == [NoCall EXCEPT !.req = r, !.by = who]

\* Some call is working on r.
Busy(r) == \E h \in Handlers : pc[h] # "idle" /\ call[h].req = r /\ call[h].by # "poster"

-----------------------------------------------------------------------------
(* Submission *)

Pending(r) == status[r] \in Undecided

Submit(h, r) ==
    /\ status[r] = "none"
    /\ ~Busy(r)
    /\ ~\E s \in Requests : Pending(s)
    /\ Begin(h, "create", About(r, "hand"))

Create(h) ==
    /\ At(h, "create")
    /\ status' = [status EXCEPT ![call[h].req] = "UNDER_REVIEW"]
    /\ Goto(h, "initiate")
    /\ UNCHANGED <<setting, chain, window, billing, posted>>

Initiate(h) ==
    /\ At(h, "initiate")
    /\ chain' = [chain EXCEPT ![call[h].req] = "open"]
    /\ Goto(h, "idle")
    /\ UNCHANGED <<setting, status, window, billing, posted>>

-----------------------------------------------------------------------------
(* Decisions *)

Approve(h, r) ==
    /\ status[r] \in Undecided
    /\ Begin(h, "select", About(r, "hand"))

Reject(h, r) ==
    /\ status[r] \in Undecided
    /\ Begin(h, "refuse", About(r, "hand"))

\* processStep finds the chain open and the last decision is made.
Decide(h, r) ==
    /\ chain[r] = "open"
    /\ \E verdict \in {"approved", "rejected"} : Begin(h, verdict, About(r, "chain"))

EndChain(h) ==
    /\ pc[h] \in {"approved", "rejected"}
    /\ chain' = [chain EXCEPT ![call[h].req] = "over"]
    /\ Goto(h, IF At(h, "approved") THEN "load" ELSE "refuse")
    /\ UNCHANGED <<setting, status, window, billing, posted>>

\* By hand or by the chain: the status is written whatever it is by now.
Refuse(h) ==
    /\ At(h, "refuse")
    /\ status' = [status EXCEPT ![call[h].req] = "REJECTED"]
    /\ Goto(h, "idle")
    /\ UNCHANGED <<setting, chain, window, billing, posted>>

\* Faulty variant: a request approved by hand is completed again.
Settled_Never(r) == FALSE

Settled(r) == status[r] = "APPROVED"

Load(h) ==
    /\ At(h, "load")
    /\ Goto(h, IF Settled(call[h].req) THEN "idle" ELSE "select")
    /\ UNCHANGED <<setting, request, window, billing, posted>>

\* Faulty variant: only a window of the same request gives way.
GivesWay_Own(w, r) == w[1] = r

GivesWay(w, r) == RangeOf[w[1]] \cap RangeOf[r] # {}

\* Grants of r under way; only the bound MaxGrants looks at them.
Granting(r) == Cardinality({h \in Handlers : At(h, "grant") /\ call[h].req = r})

\* The transaction's updateMany: what it finds active by now.
Select(h) ==
    /\ At(h, "select")
    /\ grants[call[h].req] + Granting(call[h].req) < MaxGrants[call[h].req]
    /\ pc' = [pc EXCEPT ![h] = "grant"]
    /\ call' = [call EXCEPT ![h].seen = {w \in open : GivesWay(w, call[h].req)}]
    /\ UNCHANGED <<setting, request, window, billing, posted>>

NewWindow(r) == <<r, grants[r] + 1>>

\* The transaction's create, update and commit.
Grant(h) ==
    LET r == call[h].req IN
    /\ At(h, "grant")
    /\ open' = (open \ call[h].seen) \cup {NewWindow(r)}
    /\ grants' = [grants EXCEPT ![r] = @ + 1]
    /\ status' = [status EXCEPT ![r] = "APPROVED"]
    /\ pc' = [pc EXCEPT ![h] = IF call[h].by = "chain" THEN "enqueue" ELSE "find"]
    /\ call' = [call EXCEPT ![h].seen = {}]
    /\ UNCHANGED <<setting, chain, billing, posted>>

-----------------------------------------------------------------------------
(* The retroactive invoice *)

\* Faulty variant: the caller is told that a job was queued in any case.
Queued_Always == TRUE

Queued == redis

\* A job id that exists already is not added again.
Enqueue(h) ==
    LET r == call[h].req IN
    /\ At(h, "enqueue")
    /\ job' = IF redis /\ job[r] = "none" THEN [job EXCEPT ![r] = "queued"] ELSE job
    /\ Goto(h, IF Queued THEN "idle" ELSE "find")
    /\ UNCHANGED <<setting, request, window, invoices, tries, page, posted>>

Work(h, r) ==
    /\ job[r] = "queued"
    /\ Start(h, "find", About(r, "worker"))
    /\ job' = [job EXCEPT ![r] = "running"]
    /\ UNCHANGED <<setting, request, window, invoices, tries, page, posted>>

\* The institution made a hundred retroactive invoices, for whomever, since the last of r.
PushOut(r) ==
    /\ invoices[r] > 0 /\ r \notin beyond
    /\ pushes[r] < MaxPushes[r]
    /\ beyond' = beyond \cup {r}
    /\ pushes' = [pushes EXCEPT ![r] = @ + 1]
    /\ UNCHANGED <<setting, request, window, invoices, job, tries, posted, pc, call>>

\* Looked for among the latest hundred retroactive invoices of the institution.
Billed(r) == invoices[r] > 0 /\ r \notin beyond

Find(h) ==
    /\ At(h, "find")
    /\ Goto(h, IF ~Billed(call[h].req) THEN "bill"
               ELSE IF call[h].by = "worker" THEN "ack" ELSE "idle")
    /\ UNCHANGED <<setting, request, window, billing, posted>>

Bill(h) ==
    /\ At(h, "bill")
    /\ invoices' = [invoices EXCEPT ![call[h].req] = @ + 1]
    /\ beyond' = beyond \ {call[h].req}
    /\ Goto(h, IF call[h].by = "worker" THEN "ack" ELSE "idle")
    /\ UNCHANGED <<setting, request, window, job, tries, pushes, posted>>

Ack(h) ==
    /\ At(h, "ack")
    /\ job' = [job EXCEPT ![call[h].req] = "done"]
    /\ Goto(h, "idle")
    /\ UNCHANGED <<setting, request, window, invoices, tries, page, posted>>

\* A call throws or its process dies; an open transaction is rolled back, a job is tried again.
Fail(h) ==
    LET r == call[h].req IN
    /\ faults
    /\ ~At(h, "idle")
    /\ IF call[h].by = "worker"
       THEN /\ tries' = [tries EXCEPT ![r] = @ + 1]
            /\ job' = [job EXCEPT ![r] = IF tries[r] + 1 < Attempts THEN "queued" ELSE "failed"]
       ELSE UNCHANGED <<tries, job>>
    /\ Goto(h, "idle")
    /\ UNCHANGED <<setting, request, window, invoices, page, posted>>

-----------------------------------------------------------------------------
(* Posting records *)

Usable(d) == {w[1] : w \in {v \in open : d \in RangeOf[v[1]]}}

\* The guard looks for a window; without one the call is refused.
Post(h, d) ==
    \E r \in Usable(d) :
        Begin(h, "write", [NoCall EXCEPT !.by = "poster", !.day = d, !.via = {r}])

Write(h) ==
    /\ At(h, "write")
    /\ posted' = [day |-> call[h].day, via |-> call[h].via]
    /\ Goto(h, "idle")
    /\ UNCHANGED <<setting, request, window, billing>>

-----------------------------------------------------------------------------
Next ==
    \/ \E h \in Handlers :
          \/ Create(h) \/ Initiate(h) \/ EndChain(h) \/ Refuse(h)
          \/ Load(h) \/ Select(h) \/ Grant(h)
          \/ Enqueue(h) \/ Find(h) \/ Bill(h) \/ Ack(h) \/ Fail(h)
          \/ Write(h)
          \/ \E r \in Requests :
                \/ Submit(h, r) \/ Approve(h, r) \/ Reject(h, r)
                \/ Decide(h, r) \/ Work(h, r)
          \/ \E d \in Days : Post(h, d)
    \/ \E r \in Requests : PushOut(r)

Spec == Init /\ [][Next]_vars

-----------------------------------------------------------------------------
(* Properties *)

\* The tables hold what their columns allow, and every active window is one
\* that was created for its request.
TypeOK ==
    /\ mode \in {"serial", "overlap"} /\ redis \in BOOLEAN /\ faults \in BOOLEAN
    /\ status \in [Requests -> Status]
    /\ chain \in [Requests -> {"none", "open", "over"}]
    /\ grants \in [Requests -> Nat] /\ \A r \in Requests : grants[r] <= MaxGrants[r]
    /\ \A w \in open : w[1] \in Requests /\ w[2] \in 1..grants[w[1]]
    /\ invoices \in [Requests -> Nat]
    /\ beyond \subseteq Requests
    /\ \A r \in Requests : pushes[r] \in 0..MaxPushes[r]
    /\ job \in [Requests -> {"none", "queued", "running", "done", "failed"}]
    /\ tries \in [Requests -> 0..Attempts]
    /\ posted \in [day : Days, via : SUBSET Requests]

\* A student is billed for a request no more often than it was granted, and once
\* more only each time its last invoice came to lie beyond the rows a retried job
\* reads, through every retry, death and overlap; and while calls do not overlap a
\* request is granted once, by hand or by its workflow, never by both.
BilledOnce ==
    \A r \in Requests :
        /\ invoices[r] <= grants[r] + pushes[r]
        /\ mode = "serial" => grants[r] <= 1

\* Unless something failed, an approved request nobody is working on has its
\* retroactive invoice or a job that will make it.
ApprovedIsBilled ==
    \A r \in Requests :
        ~faults /\ status[r] = "APPROVED" /\ ~Busy(r)
            => invoices[r] > 0 \/ job[r] \in {"queued", "running"}

\* A record marked as backfilled names a request that was granted and whose days
\* include the record's; and while calls do not overlap a record is written only
\* on a day that exactly one active window covers, since the grant of a request
\* closes every window it overlaps.
PostedWhereAllowed ==
    [][posted' # posted =>
         /\ \A r \in posted'.via : grants[r] > 0 /\ posted'.day \in RangeOf[r]
         /\ mode = "serial" =>
               Cardinality({w \in open : posted'.day \in RangeOf[w[1]]}) = 1]_vars
=============================================================================
