# UniCore: TLA+ models, model checking and proofs

UniCore is a multi-tenant university information and learning system: a NestJS
API (`apps/api`), two Next.js front ends (`apps/web`, `apps/admin`) and shared
packages (`packages/*`). All lasting state is in one PostgreSQL database reached
through Prisma; Redis carries caches, rate limits and the BullMQ job queues.
These modules model the parts of the API in which several requests, jobs,
webhooks and schedules meet on the same rows.

Paths below are relative to `src/apps/api/src`.

## How the models are made

Handlers are asynchronous TypeScript. Between two `await`s nothing else of the
same process runs, but any other request may run between two database
statements, and the API may be deployed in several processes. So in every module

* one statement sent to the database, or one `$transaction` whose statements
  cannot be separated by what others do to the same rows, is one step;
* what a handler read stays in the handler's own copy until it writes, and a
  write by `id` alone does not look at what the row holds by then;
* a conditional write (`updateMany` with a status in `where`, a unique key) tests
  its condition in the step that writes;
* where a process death matters, it may come between any two steps.

One tenant is modelled: the Prisma extension adds `institutionId` to every query.

## The system's parts

| Part | State it keeps | Operations | Hard behaviour | What makes it correct |
|---|---|---|---|---|
| `workflow-engine` | approval instances: status, step, assignee, history, due date | initiate; approve, reject, ask for information, escalate; hourly SLA sweep | decisions and the sweep write rows they read earlier; the completion code of other parts runs after the status is stored, and neither its throwing nor a death between them is repaired | no step of a chain skipped, an instance decided once and announced only when its effect was applied, its history whole, somebody to act on it |
| `finance` (ledger) | transactions, balance column, journal lines, payment plans, cached balances | charges, payments, waivers and refunds with approval, gateway webhooks, balance lookups | webhooks delivered twice, approvals against refusals, an aggregate read before a lock, a cache filled late, installments written back | a transaction journaled at most once, a completed one left out of the journal only for a stated reason and never undone, balance equal to the sum, payments allocated, no refund paid twice |
| `finance` (excess credit, scholarships) | ledger totals, pending requests, awards, fund totals | request and approve refunds and transfers; create, approve and disburse awards | two validations far from the writes; a disbursement is four statements that may stop between any two | no more paid out than the credit, an award credited once and only when approved, a fund not exceeded |
| `enrollment` | enrollments, waitlist entries, holds | enroll, drop, promote, join and leave a waitlist, hold and lift | a count before an insert, a promotion that is best effort | seats respected, registration rules hold also for promotions, the waitlist in order |
| `elections` | elections, candidates, who has voted, votes, booth credentials | nominate, review, vote, issue credentials, certify, publish; a 15 minute schedule | two ballots at once, a schedule that writes what it derived from old rows | one vote per position, ballots whole, phases kept |
| `backfill` | requests, windows, retroactive invoices, jobs | submit, decide by hand, workflow completions, invoice jobs with retries, use of a window | a request decided twice, a job that dies after its write, a swallowed error | billed once for a grant (but for the rows a retry no longer reads), no approved request forgotten, one window for a day |
| `billing` | daily snapshots, draft and final invoices, disputes, lock jobs | nightly and monthly jobs, delayed lock jobs, disputes, operators | a headcount read while students change; locks against disputes; snapshots taken, amended and unlocked around a lock | a snapshot explained by the log, an invoice locked by the job at the peak of its month and undisputed |
| `students` | status, status log, reactivation and deletion requests | registrars, graduation, workflow completions | decisions by hand and by a chain, each of several statements; a log of from/to pairs read before the write | an approved request did reactivate, the log tells one story |
| `leave` | balances of an academic year, requests | set, carry forward, request, decide | days move in one statement and the request in another; available days checked on a row read before | the balance tells the requests and the days lost without one, granted leave is held, the allowance kept |
| `grades` | the JSON grade of an enrollment, release chains, overrides, resits | entry, approval, release, override, passback, resit | a grade is read whole and written whole; an override is decided by hand and by its chain | an approved grade changes by an authorised step only, the resit cap holds on every way |
| `lms-assessments` | quiz attempts | start, autosave, expire, submit, grade | attempts counted before one is made; autosave against submission | attempts within the limit, the score belongs to the stored answers |
| `integrations` (webhooks) | subscriptions, delivery rows, jobs | subscribe, events, deliver with retries, test | an event without a row, an answer after the timeout, a worker that dies after the post | without a queue delivered or given up after the stated attempts, a log that can be believed |
| `notifications` | scheduled notices, delayed and channel jobs, digest entries | schedule, cancel, deliver, quiet hours, hourly flush | delivery, retries and cancellation write one row; the flush deletes what it read after it sent it | no notice sent again after a failure, none lost between the job and its recipient |
| `auth`, `sessions`, `redis` | users, refresh sessions, rate limits | login, refresh, revoke | refresh rotation under overlap | a rotated session is not used again |
| `transcripts`, `progression` | GPA, progression decisions | batch evaluation, lock | policy evaluated over rows that change | a decision agrees with the released grades |
| `attendance` | records, QR tokens | mark by hand or token | token expiry | one record for a student and lesson |
| `appraisal`, `staff` | appraisals, staff records | request, decide | the workflow's outcome | as for the other clients of the workflow |
| `admissions` | applications and decisions | apply, decide, convert | conversion writes several rows | one student for an application |
| the rest | single rows under administrator CRUD, or read-only views | | none found | |

`PROJECT.json` lists every directory of the API with what is modelled of it and
why the others are not, and every hazard with its line and the properties aimed
at it. Parts meet in four ways: direct service calls; workflow completions (the
engine calls `handleCompleted` or `handleRejected` of the part that started the
chain); BullMQ jobs, which are delivered at least once; and events inside the
process, whose listeners only notify. In the modules of the other parts a
workflow is its outcome (a chain that is open, then over), which may be delivered
more than once where the engine's own model shows that it can be.

## The modules

| Module | Models | State | Actions |
|---|---|---|---|
| `WorkflowDecision` | abstract: what an approval chain promises | outcome, level, effects applied | open, climb, decide, apply |
| `Workflow` | `workflow-engine.service.ts`, the SLA sweep; `RunEffect` is the completion handler, which returns or throws | `row` (the table), `pc`/`req` (requests under way with their copy of the row), `phase`/`todo` (the sweep with its scan) | `Initiate`; `Fetch` then `Write*` then `RunEffect`; `SweepStart` ... `SweepEnd`; `CallDies`, `SweepDies` |
| `LedgerBook` | abstract: a transaction is settled at most once, the balance is the sum of the settled; settling writes the journal where there are lines and their accounts are open, and nothing writes it later | state, owed, entries, shut | open, void, settle, switch an account |
| `Ledger` | `finance.repository.ts`, payments and webhooks of `finance.service.ts`, what `finance-gl.service.ts` posts | `status`, `balance`, `journal`, `sent` (gateway refunds), `paid` (installments), `cache`, `closed` (accounts of the chart), `unposted` (a history), `pc`/`job` | `Post`, `Webhook`, `Approve`, `SendRefund`; the transaction as `Begin`, `Put`, `Commit`; `Invalidate`, `PlanRead`, `PlanWrite`; `Reject`; `Look`, `FillCache`, `Reconcile`, `Expire`; `SetAccountActive`; `Die` |
| `ExcessSummary` | `computeExcessCreditSummary`, as operators on a record of totals | | |
| `ExcessCredit` | refund and transfer requests | `ledger` totals, `status`, `chain`, `posted` | `Ask`, `Create`; `Approved`, `Validate`, `Refund` or `TransferPair`; `Rejected`; `PostCharge`; `Die` |
| `Scholarship` | awards and their disbursement | `award`, `linked` (has a chain), `approvals`, `credits`, `disbursed` | `CreateLinked`, `CreateUnlinked`; `DisburseByHand`, `ChainCompleted`; `CheckFund`, `Credit`, `MarkDisbursed`, `Draw`; `Die` |
| `StudentCredit` | composes `ExcessCredit` and `Scholarship` on one account: a credited award raises the totals the excess credit is computed from | both | both; a `Credit` also adds to `ledger` |
| `Enrollment` | `enrollment.service.ts`, `enrollment-holds.service.ts` | `row`, `entry`, `position`, `standing`, `pc`/`call` | `Enroll`, `Count`, `Recount`, `Create`, `Revive`; `Drop`, `SoftDrop`, `Promote`, `Check`, `Mark`; `JoinWaitlist`, `Join`, `Queue`, `LeaveWaitlist`; holds and status; `Die` |
| `Elections` | `elections.service.ts`, its lifecycle and schedule | `period` (the clock), `status`, `cand`, `hasVoted`, `votes`, `ballots` (what was recorded, a history), `credential`, `chain` | `Look`, `Sync` (schedule); nominations; `IssueBoothCredential`, `Issue`; `CastVote`, `ReadCandidates`, `Record`, `Clear`; certification and publication; `Tick`, `Die` |
| `Backfill` | `backfill-request.service.ts`, the retroactive invoice job, the posting guard | `status`, `chain`, `grants`, `open` (windows), `invoices`, `beyond` (requests whose invoices are not among the hundred rows read), `pushes` (a history), `job`, `tries`, `posted` | `Submit`, `Create`, `Initiate`; `Approve`, `Reject`, `Decide`; `EndChain`, `Refuse`; `Select`, `Grant`; `Enqueue`, `Work`, `Find`, `Bill`, `PushOut`, `Ack`, `Fail`; `Post`, `Write` |
| `StudentStatus` | the students' enrollment status: `students`, the completion handler's reactivation and deletion branches | `status`, `removed`, `changes` (the log), `graduated`, `anonymised`, `request`/`chain`, `deletion`, `asked` (what a request knew, a history) | `Admit`, `Patch`, `SoftDelete`, `Graduate`, `Stamp`, each change as `ReadStatus` then `WriteStatus`; `Ask`, `CreateRequest`, `Initiate`; `Approve`, `Reject`, `Decide`, `EndChain`, `Load`, `Grant`, `Refuse`; `AskDeletion` ... `Execute`, `Anonymise`; `Die` |
| `Billing` | extends `StudentStatus`, whose ACTIVE students are counted: snapshots, monthly draft, lock job, disputes | `today`, `snapshot`, `locked`, `invoice`, `lockJob`, `dispute`, `touched` (a history), `place`/`task` | `TakeSnapshot`, `Count`, `Store`; `Amend`, `LockDays`, `UnlockDays`; `Draft`, `ReadRows`, `StoreInvoice`, `Schedule`; `LockJob`, `CheckDisputes`, `Lock`, `Finalize`; `StoreDispute`, `Resolve`; `NextDay`, `Crash` |
| `Leave` | `leave.service.ts` for one member of staff and leave type | `balance` of each year, `request`, `startYear`, `chain`, `stage`/`call`; `named`, `ended`, `stranded` (histories) | `Allocate`, `CarryForward`, `SetBalance`; `Ask`, `Ensure`, `Reserve`, `CreateWithWorkflow`, `NoWorkflow`, `CreateApproved`; `Decide`, `EndChain`, `Load`, `Charge`, `Mark`; `Die` |
| `Assessments` | extends `Enrollment`: the attempts of an enrolled student at one quiz | `attempt` (the rows), `at`/`job` | `StartAttempt`, `CloseExpired`, `CountAttempts`, `OpenAttempt`; `Expire`; `SaveDraft`, `WriteDraft`; `Submit`, `WriteSubmitted`; `Grade`, `WriteGraded` |
| `Gradebook` | extends `Assessments`: the grade of the row, its release chain, overrides, passback, resit | `grade`, `resit`, `releases`, `override`, `sheet` | `EnterGrade`, `WriteGrade`, `CancelReleases`, `StartRelease`, `ReleaseApproved`, `ReleaseRefused`, `Downgrade`; `Passback`; `RegisterResit`; `RequestOverride`, `DecideOverride`, `ChainDecides`, `Clamp`, `Apply`, `Complete`, `Refuse`, `Withdraw` |
| `QueueWorkers` | what senders share: calls and BullMQ workers, their deaths and failures | `overlap`, `failures`, `at` | (used by the next two) |
| `Webhooks` | one subscription, its listener, deliveries and retries | `redis`, `hook`, `event`, `log` (delivery rows), `seen`/`accepted` (what the endpoint got), `delivery` | `Subscribe`, `Unsubscribe`, `Emit`, `Test`, `Listen`; `CreateRow`, `AddJob` (which BullMQ refuses), `Post`, `LogAnswer`; `DeliveryFails` |
| `Notices` | scheduled notices, the notification engine, the hourly digest | `notice` (the rows), `timer` (delayed jobs), `dispatches` (channel jobs), `buffer` (digest entries); `told`, `handed`, `got`, `muted` (histories) | `Schedule`, `SetTimer`, `Cancel`, `RemoveTimer`, `WriteCancelled`; `Fire`, `Check`, `AskQuiet`, `Defer`, `Hand`, `WriteSent`, `WriteFailed`; `Pick`, `SendOut`; `Scan`, `Mail`, `Text`, `Drop`; `EngineThrows`, `DeliverThrows`, `ErrandFails` |
| `Announcements` | composes `Workflow`, `Webhooks` and `Notices`: a completed workflow emits an event in the step in which its completion handler returns, and none when it throws | all of theirs, `scope` | `HandleAndEmit`, `DeliverOn`, `AttendTo` and the others |

`MC<Module>` gives the outermost of them (`StudentCredit`, `Gradebook`, `Billing`,
`Announcements` with what they extend) a small instance, and `*Proofs` hold theorems:
`EnrollmentProofs` also those of `Assessments` and `Gradebook`, `BillingProofs` those of
`StudentStatus`, `WorkflowProofs` those of `Announcements`, `Webhooks` and `Notices`, and
of `Leave` (which waits for the engine's decisions and shares no name with it).
`SumTheorems` is about sums only.

Where a module composes parts that never read each other, a variable `scope` says
which of them a behaviour follows, so that TLC explores their sum and not their
product: registration, the attempts of a student who enrolls and drops, or the
grade of one who enrolled (`Gradebook`); the students in full, or the billing with
plain changes of students (`Billing`); the workflow with the webhooks it emits to,
the webhooks with other events and faults, or the notices (`Announcements`).

Every module defines a type invariant, which the theorems rest on or prove. They are
not listed in the runs, whose properties say more.

The variable `mode` (or the constants `MaxOpen` and `MayDie`) says whether
handlers overlap. Much of the code is correct only when they do not; a property
that starts with `mode = "serial"` says what remains true one call at a time, and
one without it is true however calls overlap. Each such qualification marks code
where a check and the write that relies on it are separate statements.

## Runs

| Run | Instance | What it shows |
|---|---|---|
| `workflow_overlap` | one chain of two steps, three requests and the sweep, two at a time, deaths | no step is skipped and no open instance is without an assignee, in any order of requests and sweeps |
| `workflow_sweep_race` | no deaths | **violated**: the sweep reopens an instance that was decided after its scan |
| `ledger` | a charge, a payment delivered twice, a refund both approved and refused; the charge without journal lines, the others posting to an account that is switched off and on; one at a time, or three handlers at once, deaths | in any order the journal has a transaction at most once and only when it is completed, and lacks a completed one only if it has no lines or committed while its account was closed; one at a time the ledger implements `LedgerBook`, a refund is sent to the gateway once, and without a death the cache is fresh and payments are allocated |
| `ledger_journal_sign` | a charge and a refund | **violated**: the journal's receivable and the ledger disagree on a refund |
| `credit` | 4 cents of credit with 1 reserved, refunds of 2 and 2, a transfer of 1, a charge; two awards of 2 from a fund of 3 | refunds are covered, awards credited once and only when approved; one at a time an approved refund is posted and the fund is not exceeded |
| `credit_transfer` | the same | **violated**: every transfer that is approved is refused as already posted |
| `enrollment` | three students, one seat, a clashing section; a quiz with two attempts (one when calls overlap); a grade with one override and a resit; two calls at a time or one, deaths | seats and attempts are exceeded by no more than the overlap; one at a time the rules and the order of the waitlist hold, scores belong to answers, approved grades stand and the cap holds |
| `elections` | one voter with two calls, two candidates for one position and one for another, the calendar, a manager who reopens the voting | votes are unique and ballots whole; one at a time ballots obey phase, candidates and credentials |
| `backfill` | two requests of a student that share a day, two calls, with and without Redis and faults; the invoices of one request may fall out of the hundred rows that are read | no invoice without a grant but the one made again after the first fell out of those rows; without faults no approved request forgotten, records only where a granted request covers the day, and one at a time where exactly one window does |
| `billing` | one student with a reactivation and a deletion; or a month of two days, one invoice, its lock job, one dispute | an approved reactivation made the student active in any order; one at a time the log explains status and snapshot, and what the job locked is the peak, without the contracted minimum, and undisputed |
| `leave` | requests of one and two days over two years with an allowance of two | granted leave decided once is held in any order; one at a time balances tell the requests and the days whose workflow could not be started, and the allowance is kept |
| `announcements` | a chain of two steps, the second with nobody to escalate it to, one request at a time and alive, with completion handlers that throw and a subscription; or an event and a test delivery with two workers; or two notices of one or two recipients | the engine implements `WorkflowDecision`, the history is complete and every approver entitled, what is announced as completed is approved and took effect, and without a queue that announcement arrives or is given up; the delivery log and the status of a notice tell what was sent; without faults every notice is sent or cancelled and what was sent arrives |

The runs that pass have a mutant for every property: a change of a modelled
definition, written in the module as "Faulty variant", that makes it false.

### Bounds, and why they are enough

* Handlers: two at a time. Every race above is between a check and a write of
  two calls; a third call adds no new pair of statements. In `Workflow` three
  calls happen in all, two of them at once, so that a race is followed by one
  more decision. In `Ledger` three may be at work at once: the payment delivered
  twice and an approval, or an approval delivered twice.
* `Codes`: one account of the chart, which any transaction with lines posts to; with
  a second one of them would be closed just the same. `MaxPushes` 1 for one request
  and 0 for the other: an invoice made again, and one never.
* `Completions`, `Attempts`, `MaxGrants`: how often a webhook or a completion is
  delivered, a job tried, a request granted. Two are needed for a duplicate; more
  repeat it. Of the two backfill requests one may be granted twice, the other once:
  the second is there for its window.
* `MaxChanges` 3 (1 while the billing is followed): a change, a graduation or a
  deletion and the reactivation between them. `LastDay` 2: a peak that is not the
  last count. Quiz attempts 2 (1 when calls overlap), webhook attempts 2 (5 in the
  code: `MAX_ATTEMPTS`), tries of a scheduled job 2 (3 in the code): each has a
  first, a repeated and a last one.
* `MaxFailures` 1: one death or failed statement among the senders, after which
  properties say "unless something failed" or hold all the same. A second failure
  that prevents the storing of the first is left out by the bound, and the property
  says that it would have a notice handed out again. `MaxTold` 2 tells a message
  sent twice from one sent once.
* Two steps of a chain, so that one is the last and one is not; two positions of
  an election, so that a ballot may be half disjoint; two days, one of them
  shared; one seat, so that the second student waits.
* Amounts are chosen so that two requests pass one validation and not two, that a
  plan is smaller than what is paid, and that a fund covers one award of two.
* `Edits`, `Requests`, `Troubled` and the clock's `Periods` limit who asks for
  what, not in which order.

Symmetry is used over handlers and interchangeable students, awards or candidates,
and not in runs with fairness or with a refinement whose values it would permute.
Deadlock checking is off: a bounded number of calls ends, and an idle system stops.

### Fairness

Only `announcements` assumes any. `AnnouncementsSpec` is weakly fair in the steps of
every request under way (`HandleAndEmit`), of every worker that delivers (`DeliverOn`)
and of every worker that attends to notices (`AttendTo`): a request that was
accepted runs to its end unless its process dies, BullMQ hands waiting and due jobs
to free workers, and the flush is started every hour. No fairness is assumed of
people, of the SLA sweep, of arrivals or of faults. `Announced` is claimed without a
queue, without deaths of the engine and unless the completion handler throws,
`NoticeArrives` until something fails: a handler that throws, or a death between a
decision and its effect or between the effect and the event, is not repaired by
anything. So it is not claimed that a decision takes effect (nor of the other parts
that anything does), only that nothing is announced that did not (`AnnouncedIsTrue`).

## What the violations show

* `workflow_sweep_race`: `checkSlaBreaches` updates by id alone, with status
  `ESCALATED`, a row it read before notifications and lookups
  (`workflow-engine.service.ts:445`). The master prompt asks for instances that
  are `IN_PROGRESS`.
* `ledger_journal_sign`: `signedLedgerAmount` gives `REFUND` the sign of a payment
  (`finance.util.ts:10`), while `buildLedgerEntries` debits the receivable.
* `credit_transfer`: the reference by which a transfer is looked up is already on
  the pending row of the request itself (`finance.service.ts:522`).

Other behaviour met while modelling, which the properties are qualified for. Where
a line of the repository says otherwise it is named; `.cursorrules` and the master
prompt (`UNICORE_MASTER_PROMPT.md`) are in `src`.

* Workflow: a history entry is lost under overlap (`:169`); the initiator, made
  assignee by REQUEST_INFO, may approve (`:207`); a completion handler that
  throws (`workflow-completion.handler.ts:110-118` catches nothing) leaves the
  decision stored, without its effect and without an event, and nothing tries it
  again: always for an excess credit transfer (`finance.service.ts:558-561`), for
  leave whose first day is in no academic year (`leave.service.ts:443`).
* Finance: a transaction completes without any journal entry where it carries no
  lines, as charges of an enrollment and bulk charges do
  (`finance-enrollment-charges.service.ts:99-109`,
  `finance-bulk-charge.service.ts:145-155`, `finance-gl.service.ts:187-190`), and
  where an account of its lines is unknown or not active (`:202-208`); it is not
  journaled later either. The balance column is stale under overlap
  (`finance.repository.ts:231`), also the cache (`finance.service.ts:589`) and the
  plan (`:997`, an allocation lost); an approved refund is allocated to a plan like a
  payment (`finance.service.ts:918`); two pending refunds can block each other
  (`:859`); an award without a chain is disbursed without an approval (`:1211`); a
  fund is exceeded under overlap (`:1271`).
* Enrollment: a section is overbooked under overlap (`enrollment.service.ts:184`);
  the waitlist is promoted from its head only, so a first student who is held
  keeps the seat empty although the master prompt (line 2457) says "auto-promote
  when enrolled student drops"; anyone who enrolls first takes a freed seat; an
  entry that was promoted or removed keeps the unique key, so its student cannot
  join again.
* Elections: two overlapping ballots without a common position are both recorded
  (`elections.service.ts:386`); a ballot may be recorded after the close; the
  schedule may undo certification or publication under overlap; a refused
  certification cannot be repeated (`:624`).
* Backfill: approval by hand followed by a refused workflow leaves the window
  open with the request REJECTED; the invoice of a request approved by hand is
  never made if the first attempt fails (`backfill-request.service.ts:283`); the
  search for an earlier invoice reads the latest 100 retroactive invoices of the
  institution (`billing-invoice.service.ts:178-186`), so that a repeated job for a
  request whose invoice lies beyond them bills it again (`PushOut`).
* Workflow: the sweep takes 100 rows and passes over those without a holder of the
  escalation position (`:425`), so these may keep others from being escalated.
* Enrollment and backfill, not covered by a property: nobody behind a waitlisted
  student who cannot enroll is tried (`enrollment.service.ts:426`); a backfill
  request whose workflow could not be started stays undecided by it
  (`backfill-request.service.ts:141`).
* Students: `.cursorrules:369-376` wants a workflow for INACTIVE to ACTIVE and forbids
  ACTIVE to PERMANENTLY_DELETED; a PATCH of the status allows both. A PERMANENTLY_DELETED
  status set by hand makes the deletion return before it anonymises (prompt
  2185-2197, 3676). A request refused by hand is still carried out when its chain is
  approved, and a chain refused after an approval by hand marks it REJECTED. A
  deletion looks for open ones that are IN_PROGRESS, so an ESCALATED one does not
  stand in its way. Admission and soft deletion leave no log row.
* Billing: the contracted minimum is never applied. `schema.prisma:101` calls the
  billed count `MAX(watermark, minimumBillableCount)`, the prompt (2046-2047) and
  `billing-integrity.spec.ts:29-34` say so too, but `applyBillableFloor`
  (`billing-invoice.service.ts:65-67`) returns the watermark, the invoice stores null
  as its minimum (`:447`, also `billing-evidence.service.ts:114`) and the API that
  creates an institution writes null (`super-admin-institutions.service.ts:434`).
  `LockedBillsPeak` is about the peak alone for that reason. Snapshots can be amended
  between draft and lock, and a finalised invoice does not lock them
  (`.cursorrules:689-694`, prompt 2064-2066); a dispute is judged by the status of
  today (prompt 2076-2081) and ACCEPT leaves the invoice as it is (prompt 2084-2086);
  several drafts of a month can be made (prompt 3415 relies on a job id); a lock job
  that finds a dispute is done and never scheduled again. Two snapshots of a day are
  kept apart only by the unique key (`billing-snapshot.service.ts:56`).
* Leave: a request names its year, and the decision charges the year of the first day
  (`leave.service.ts:397`): where they differ the days stay pending in one and are
  charged to the other, and where the day is in no year the chain is over and the
  request PENDING. Carried days can be used in both years; carrying forward and the
  first request overwrite what was allocated in between; a workflow that cannot be
  started (no definition, no steps or no holder, `workflow-engine.service.ts:56-76`)
  leaves the days pending with no request (`LeftBehind`); a chain that ends twice
  moves the days twice; overlapping requests overdraw.
* Grades: a passback changes the score and never a letter that is set (prompt 2607);
  the completion of GRADE_RELEASE only notifies (prompt 2472); several release chains
  may be open, and the refusal of an old one downgrades a newer submission; a revived
  row keeps its old grade; a letter or grade points entered by hand are not capped,
  nor is a score that was there before the resit was registered
  (`.cursorrules:1514-1517`); the refusal of an override does not look at its
  approver, so that one applied by hand while its chain was being refused is deleted
  afterwards (`workflow-completion.handler.ts:189`).
* Quizzes: starting an attempt looks at no dates (prompt 2600); a LATE submission is
  scored and not passed back.
* Webhooks: deliveries under way go on after the subscription is deleted; a delivery
  row whose job never ran looks like a failed one (`success` defaults to false);
  an endpoint that answers after the timeout gets the event again. The job id is
  `${delivery.id}:${attempt}` (`webhook-delivery.service.ts:65`), and the BullMQ the
  lock file names (5.76.8, `pnpm-lock.yaml:209-211`) refuses an id of two parts with
  a colon: with a queue the row stays open and nothing is ever posted (`AddJob`).
* Notices: quiet hours drop email, SMS and push
  (`docs/UNICORE_100_PERCENT_COMPLETION.md:902`: "queue until window"); a notice that
  failed is FAILED before its job is tried again, so the further attempts do nothing
  (`notification-schedule.service.ts:135`); without Redis the row is created before
  the call is refused and stays PENDING; a cancellation that overlaps the delivery
  overwrites SENT; digest entries for push alone are deleted unsent, one send that
  fails keeps everybody behind it waiting for the next hour, and a push that fails
  for a notice with email too sends the email twice.

## Proofs

TLC's instances are small; these theorems hold for every value of the constants.
They assume the named `ASSUME`s of the modules, which say what kind of thing each
constant is and two facts of the code: only charges come without journal lines
(`Ledger`), and the completion of an instance is an event of its own, no test
delivery (`Announcements`). TLC evaluates them on every run. Where rows or handlers are
counted or summed the set they come from is assumed finite (`Students`, `Handlers`,
`Clerks`, `Requests`, `Awards`, `Txns`, `Procs`, `Workers`). The theorems about
`TrailComplete`, `DecidedOnce`, `AnnouncedIsTrue` and `LogTellsAttempts` have the hypothesis
`MaxOpen <= 1` (no two requests or sweeps of the engine overlap; deaths are free): it
is the qualification the properties themselves make in words, for the other modules
make it by `mode = "serial"`.

The proofs share an order. First the types. Then an *effects lemma* says of every
step of a module, grouped by what they have in common, what it may change (`RowsMove`,
`StatementDoes`, `GradebookDoes`, `Turn`, `Aside`, `OnlyTouches`). Only that lemma
expands the actions; each part of the inductive invariant is then shown to survive an
effect, and TLC has checked each invariant on the run of its module.

| Theorem | States | Argument |
|---|---|---|
| `WorkflowProofs!TypeCorrect` | `Spec => []TypeOK` | `TypeOK` is inductive; the write of an advance needs that a step that is not the last has a successor |
| `WorkflowProofs!ChainClimbed` | `NoStepSkipped` | not inductive: a stale copy writes its own step back. `Climbed` adds `CopyClimbed`, that the step in every request's copy was itself reached by approvals. `ClimbedKept` covers all steps that only store such a copy, `ApprovalAdds` the ones that approve |
| `WorkflowProofs!NothingOrphaned` | `NoOrphan` | `Inbox` adds `Initiated`: requests and the sweep hold only rows that exist, and these name an initiator to fall back to. `InboxStored` covers every step that stores a staffed row |
| `WorkflowProofs!TrailIsComplete` | `TrailComplete`, if `MaxOpen <= 1` | `InTurn`: whoever is at work is alone (`OneGoing`), so the copy it read is still the row (`Current`); then the history grows by one entry for the row's step (`TrailGood`), and whoever is assignee is entitled at that step (`EntitledOnly`) |
| `WorkflowProofs!EngineDecidesOnce` | the engine implements `WorkflowDecision`, if `MaxOpen <= 1` | a refinement, step by step: `OutcomeMoves`, `LevelMoves` and `EndsApply` say which abstract step each effect is; the last needs `DecidedByOne`, that an instance is decided by one request |
| `WorkflowProofs!EngineUndisturbed` | `AnnouncementsSpec => Spec` | every step of the composition is an engine step or leaves the engine alone, so that what is proved of the engine holds in the composition |
| `WorkflowProofs!DeliveriesLogged` | `LogTellsAttempts`, if `MaxOpen <= 1` | `Deliveries`: whatever fails, the rows of an event are one `Chain` of attempts with at most one delivery at its end (a delivery that ends, refused by the queue or failed, is not taken up again), whose place says how many were posted (`Stands`). A delivery touches one event (`OnlyTouches`), and an event of the engine is emitted once because an instance is decided by one request |
| `WorkflowProofs!AnnouncedTruly` | `AnnouncedIsTrue`, if `MaxOpen <= 1` | `Deliveries` also says that an instance nobody's last approval has completed is `Unheard`; `ApprovalStands`: where a last approval was written the row says APPROVED, and no step of the engine moves a decided row (`Turn`). What was completed stays so (`DoneStays`) |
| `WorkflowProofs!NoticesTyped` | `AnnouncementsSpec => []NoticesTypeOK` | that a job is handed out at most once more than it has attempts needs `Clocked`: a job that waits has an attempt left, or a death gave it one |
| `WorkflowProofs!NoticesTold` | `StatusTellsSent` | `JobOf`, kept for each notice by the steps about it (`JobFired`, `JobHanded`, ...), and by all others as they do not touch it (`JobUntouched`). An active job is with one worker (`Manned`); how often a channel was handed a notice is paid for by deaths and failures, with one more time still to come while the channel is `Open` (`Spent`); what a delivery has no longer to hand was handed or kept back (`Reaching`); until something fails a notice that waits was handed to none (`Unfailed`), and one call at a time one that is cancelled (`Uncancelled`) |
| `WorkflowProofs!DigestsKept` | `DigestKept`, an action property | `ReadOut`: what is on the page a flush is at was told on the channels it has passed; only `Drop` takes an entry out, and it takes that page. `ToldOnce`: one flush at a time nothing else in the buffer was told, and the entry of a run that is still to be made was never told either |
| `WorkflowProofs!LeaveTyped` | `LeaveSpec => []LeaveTypeOK` | `RowsThere` goes with it: a call that is to draw on a year's row found or made one, and rows are never deleted |
| `WorkflowProofs!DaysHeld` | `LeaveIsHeld` | `LeaveHolds`: one call makes a request, and what acts on a decision acts on a request that is there (`Followed`); a refusal gives days back once, as a chain is ended once (`RefusedOnce`); and used and pending `Cover` the days of every request that holds some, those a call has reserved and not yet written included. That the requests were decided once each, and named their year, was so in every earlier state too (`EndedGrows`, `NamedBefore`) |
| `WorkflowProofs!BalancesTell`, `LeaveWithinAllowance` | `BalancesTellRequests`, `WithinAllowance` | `LeaveInTurn`, one call at a time: one call is at work, what it checked is still so (`Sure`), and pending is the sum over the requests that wait, those left without a workflow (`LeftBehind`) and the one about to be written, used that over the approved and the one about to be marked (`Tells`). The row a request is checked against has as much left as the new days |
| `ElectionsProofs!VotedOnce`, `BallotsWhole` | `OneVotePerPosition`, `RecordedWhole` | `Rolls` joins both with the types of the calls and the tables; only `Record` touches the tables, and it repeats the unique key test in the step that writes. `UnionAdds` says what a new ballot adds to the votes |
| `ElectionsProofs!BallotsAreRuled` | `BallotsByTheRules` | `Ruled`: one call at a time, what a call looked up still holds when it records, and who has voted holds no credential |
| `EnrollmentProofs!RegistrationTypes`, `GradebookTypes` | the type invariants | of `Enrollment`, and of `Assessments` and `Gradebook` on top of it |
| `EnrollmentProofs!PromotionEnrolls` | `PromotedWasEnrolled` | `Promoting` adds that a handler about to mark an entry stands at a student with a row; rows never disappear |
| `EnrollmentProofs!SeatsAreRespected` | `SeatsRespected` | `SeatsHeld` counts with each section the handlers that saw a free seat and have yet to write it: seats and those handlers stay below the capacity plus the handlers that overlap |
| `EnrollmentProofs!EnrolledIsAllowed`, `FirstIsServed` | `EnrolledWhenAllowed`, `FirstComeFirstServed` | one call at a time, what was checked is still so when the seat is written (`Checked`), and a promotion stands at the head of the line (`Lined`) |
| `EnrollmentProofs!AttemptsAreLimited`, `ScoreTellsAnswers` | `AttemptsWithinLimit`, `GradedAsAnswered` | `Counts`, as for the seats; `Apart`: one call at a time, attempts are numbered without a gap, one is a draft, and what a call holds is that draft |
| `EnrollmentProofs!ApprovedStands`, `CapIsEnforced` | `ApprovedGradeStands`, `CapEnforced` | `SheetsHold`: what a call on a grade carries fits the row it was read from |
| `BackfillProofs!BilledPerGrant` | `BilledOnce` | `Accounted`: invoices, jobs that will bill and workers past the look for an invoice are no more than the grants and the times the invoices fell out of the rows read, each of which lets one more look find nothing; one call at a time a grant leaves the request decided (`Serial`) |
| `BackfillProofs!ApprovedAttended` | `ApprovedIsBilled` | `Attended`: without faults an approved request is on its way with a handler, a job or an invoice |
| `BackfillProofs!PostedInsideWindow` | `PostedWhereAllowed` | `Covered`: windows and posts under way belong to granted requests; windows of different requests are apart one call at a time |
| `BillingProofs!ApprovedIsReactivated` | `ApprovedMeansReactivated` | `StatusInv`: a handler between the change of the status and the mark of the request is about a student with an entry in the log that the request did not know of |
| `BillingProofs!LogTellsStory` | `LogTellsStatus` | `Stories`: one call at a time the status a handler read is the end of the log |
| `BillingProofs!BillingFollows` | `BillingSpec => Spec` | no step of the billing moves a student |
| `BillingProofs!PeakIsBilled`, `LockWaitsForVerdict` | `LockedBillsPeak`, `LockedUndisputed` | `Books`: one call at a time, what the draft counted is the peak of the rows it read, a locked invoice's days stay locked unless touched, and the job has seen the disputes. A rounded average is at most its greatest term (`SumAtMost`) |
| `BillingProofs!SnapshotsReconcile` | `SnapshotReconciles` | the log's gains and losses of a student, plus one, say whether the student is counted (`Stories`); the sum over the students is the count (`SumCounts`) |
| `StudentCreditProofs!RefundsLeaveCredit` | `RefundableWithinCredit` (of the operators) | the totals stay natural numbers (`Amounts`, inductive for both parts); then linear arithmetic on the clamped differences (`RefundableLemma`) |
| `StudentCreditProofs!NothingIsOverdrawn` | `NothingOverdrawn` | `ValidatedIsFree`: what the handlers past the validation are going to pay out is free together with what is pending; for the fund, `SerialFund` adds the award that was checked and not yet drawn |
| `StudentCreditProofs!ApprovedRefundPosted` | `ApprovedIsPosted` | `SerialCredit`: one handler at a time the sum of what waits was free when it was asked and stays so until something is charged |
| `StudentCreditProofs!NoTransferPosted` | no transfer is ever posted | the reference of a stored request is taken by the request itself, in every state in which a transfer could be carried out: what `credit_transfer` finds in one behaviour is so in all |
| `StudentCreditProofs!NeverCreditedTwice`, `ApprovedBeforeCredit` | `CreditedOnce`, `ChainBeforeCredit` | `Credits` adds that a handler past the credit stands at a credited award, `ChainFirst` that a linked award whose disbursement is under way has an approval. All theorems of this module are about the composition: a step of one part either leaves the variables of the other alone or adds an award's amount to the totals |
| `LedgerProofs!JournalWhole`, `NothingUndone` | `JournaledOnce`; no completed transaction changes its status | `Rows` (status and journal are functions of the transactions, and a completed one is journaled once, or has no lines, or is in `unposted`) is inductive: `RowsMove` says what any step does to a transaction, and only `Commit` completes one, counting the lines first and leaving them out where an account of theirs is closed |
| `LedgerProofs!RefundedOnce` | `RefundSentOnce` | one call at a time at most one handler is at work (`Refunding`); where it stands shows in the row (`Stands`), so that a second approval finds the refund no longer pending |
| `LedgerProofs!AftermathFollows`, `BookIsKept` | `AftermathDone`; the ledger implements `LedgerBook` | `BooksHold`: one handler at a time the balance is the sum of the completed transactions (`Sums`), and a handler after its commit is about the account whose cache and plan are behind; `Commit` writes the journal in the same step exactly where the book does |

`SumTheorems` proves what these need of `SumFunctionOnSet`, the community modules' sum
over a set, which is a recursive function: that it adds over a union and is
monotone, its value at a set with one element more, a bound by the greatest term. It
does so without induction, by the least size of a set for which the equation
fails. `StudentCredit`, `Ledger`, `Billing` and `Leave` sum by that operator.

Only model-checked is liveness (`Announced`, `NoticeArrives`), which
the prover does not reach. Every other property of a passing run is stated by one of
these theorems.

## What is not modelled, and why

* Timetables, prerequisites, repeat limits, eligibility of voters and signatures
  of ballots are parameters or pass: they are functions of rows these models do
  not change.
* Money is in whole units: the code rounds to cents where it stores; rounding is
  not a property here.
* Within the modelled parts: prices, dispute evidence, trials, several campus
  entities and the monthly summary row of `billing`; edits of leave types and the
  calendar of `leave`; letters, scales and component weights of `grades`, assignments
  and edits of quizzes, the staff bypass of the enrollment check; profiles and bulk
  import of `students`; broadcasts (kind BULK), templates, channel providers and
  recipients without an address of `notifications`; other subscriptions, delays,
  signatures, API keys, calendars and mobile sync of `integrations`.
* Audit logs, reports and caches other than the balance: nothing reads them back
  into a decision. Notices that the other parts send are not tied to their decisions.
* Attendance, admissions, authentication and sessions, progression and transcripts,
  course content: parts with state of their own that are left for later, see the plan.
* The front ends, CRUD of single rows, storage, mail, AI and PDF rendering: no
  state that two actors meet on, or external.

## Plan

Done, in this order: (1) `Workflow` with `WorkflowDecision`; (2) the finance modules;
(3) `Enrollment`; (4) `Elections`; (5) `Backfill`; (6) `StudentStatus` and `Billing`;
(7) `Leave`; (8) `Assessments` and `Gradebook` on top of `Enrollment`; (9) `Webhooks` and
`Notices`, and `Announcements`, which composes them with `Workflow`; (10) the proofs of
all of these, with `SumTheorems`.

Next:

11. `progression` (policy and GPA) as pure operators against a reference
    definition, bulk charges and bulk enrollment as loops over the calls modelled
    here, `scheduleBulk`.
