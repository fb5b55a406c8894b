-------------------------------- MODULE Leave -------------------------------
(***************************************************************************)
(* Leave of one member of staff and one leave type (apps/api/src/leave):   *)
(* the balance of each academic year, set by hand, carried forward and     *)
(* drawn on by requests, which are decided by their workflow or, without   *)
(* approval, at once.  A balance row and a request are written by separate *)
(* statements, each one step.                                              *)
(***************************************************************************)
EXTENDS Integers, FiniteSets, FiniteSetsExt, Functions

CONSTANTS
    Requests,    \* leave requests, each submitted at most once
    Days,        \* Days[r]: durationDays, from its dates
    StartYears,  \* what startYear may be
    LastYear,    \* the academic years are 1..LastYear
    Annual,      \* annualAllocation of the leave type
    CarryLimit,  \* its carryOverLimit
    Grants,      \* what an administrator may set allocated to
    Carries,     \* and carriedOver
    Handlers,    \* calls that may overlap in mode "overlap"
    MaxCalls,    \* how many of them
    None         \* no balance row

Years == 1..LastYear

\* LeaveBalance.
Row == [allocated : Nat, carried : Nat, used : Nat, pending : Int]

ASSUME LeaveAssumption ==
    /\ LastYear \in Nat \ {0}
    /\ Requests # {} /\ IsFiniteSet(Requests) /\ IsFiniteSet(Handlers)
    /\ Days \in [Requests -> Nat \ {0}]
    /\ StartYears \subseteq [Requests -> Years \cup {0}]
    /\ {Annual, CarryLimit, MaxCalls} \subseteq Nat
    /\ Grants \cup Carries \subseteq Nat
    /\ None \notin Row

VARIABLES
    mode,      \* "serial", or "overlap" in which handlers overlap and die
    startYear, \* startYear[r]: the academic year its first day is in, 0 when in none
    balance,   \* balance[y]: the LeaveBalance row of year y, or None
    request,   \* request[r]: LeaveStatus, "none" before create
    named,     \* named[r]: the academic year r is submitted for, 0 before; not stored
    chain,     \* chain[r]: workflow of r: "none", "open", "APPROVED" or "REJECTED"
    ended,     \* ended[r]: how often the chain was ended; not stored
    stranded,  \* requests whose workflow could not be started; not stored
    stage, call

rows == <<balance, request>>
flows == <<named, chain, ended, stranded>>
fixed == <<mode, startYear>>
leaveVars == <<fixed, rows, flows, stage, call>>

NoCall == [request |-> CHOOSE r \in Requests : TRUE, year |-> 1, to |-> "APPROVED",
           allocated |-> 0, carried |-> 0]

LeaveInit ==
    /\ mode \in {"serial", "overlap"}
    /\ startYear \in StartYears
    /\ balance = [y \in Years |-> None]
    /\ request = [r \in Requests |-> "none"]
    /\ named = [r \in Requests |-> 0]
    /\ chain = [r \in Requests |-> "none"]
    /\ ended = [r \in Requests |-> 0]
    /\ stranded = {}
    /\ stage = [h \in Handlers |-> "idle"]
    /\ call = [h \in Handlers |-> NoCall]

At(h, place) == stage[h] = place
Working == {h \in Handlers : ~At(h, "idle")}

Start(h, place, what) ==
    /\ At(h, "idle")
    /\ Cardinality(Working) < IF mode = "serial" THEN 1 ELSE MaxCalls
    /\ stage' = [stage EXCEPT ![h] = place]
    /\ call' = [call EXCEPT ![h] = what]
    /\ UNCHANGED <<fixed, rows, chain, ended, stranded>>

Goto(h, place) ==
    /\ stage' = [stage EXCEPT ![h] = place]
    /\ call' = IF place = "idle" THEN [call EXCEPT ![h] = NoCall] ELSE call

-----------------------------------------------------------------------------
(* Balances *)

\* upsertLeaveBalance: an existing row keeps what is used and pending.
Upserted(y, allocated, carried) ==
    [balance EXCEPT ![y] =
       IF @ = None THEN [allocated |-> allocated, carried |-> carried, used |-> 0, pending |-> 0]
       ELSE [@ EXCEPT !.allocated = allocated, !.carried = carried]]

\* Faulty variant: pending days can be asked for again.
Available_Pending(row) == row.allocated + row.carried - row.used

\* leaveBalanceAvailable.
Available(row) == row.allocated + row.carried - row.used - row.pending

\* allocateLeaveBalance: what is not given is what was read.
Allocate(h, y) ==
    LET row == balance[y] IN
    \E a \in Grants \cup {IF row = None THEN 0 ELSE row.allocated},
       c \in Carries \cup {IF row = None THEN 0 ELSE row.carried} :
          /\ Start(h, "set", [NoCall EXCEPT !.year = y, !.allocated = a, !.carried = c])
          /\ UNCHANGED named

\* carryForwardLeaveBalances: the old year keeps what is carried.
CarryForward(h, from, to) ==
    LET carry == Min({Available(balance[from]), CarryLimit}) IN
    /\ balance[from] # None
    /\ carry > 0
    /\ Start(h, "set", [NoCall EXCEPT !.year = to, !.allocated = Annual, !.carried = carry])
    /\ UNCHANGED named

SetBalance(h) ==
    LET c == call[h] IN
    /\ At(h, "set")
    /\ balance' = Upserted(c.year, c.allocated, c.carried)
    /\ Goto(h, "idle")
    /\ UNCHANGED <<fixed, request, flows>>

-----------------------------------------------------------------------------
(* createLeaveRequest *)

\* Faulty variant: the days are not reserved.
AfterCheck_Create == "create"

AfterCheck == "reserve"

\* ensureLeaveBalance finds the row or makes one; the check is on what it returns.
Ask(h, r, y) ==
    /\ named[r] = 0
    /\ balance[y] # None => Days[r] <= Available(balance[y])
    /\ Start(h, IF balance[y] = None THEN "ensure" ELSE AfterCheck,
             [NoCall EXCEPT !.request = r, !.year = y])
    /\ named' = [named EXCEPT ![r] = y]

Ensure(h) ==
    LET c == call[h]
        made == Upserted(c.year, Annual, 0) IN
    /\ At(h, "ensure")
    /\ balance' = made
    /\ Goto(h, IF Days[c.request] <= Available(made[c.year]) THEN AfterCheck ELSE "idle")
    /\ UNCHANGED <<fixed, request, flows>>

\* incrementLeavePending.
Reserve(h) ==
    LET c == call[h] IN
    /\ At(h, "reserve")
    /\ balance' = [balance EXCEPT ![c.year].pending = @ + Days[c.request]]
    /\ Goto(h, "create")
    /\ UNCHANGED <<fixed, request, flows>>

\* prepareInitiation throws: no definition of the workflow, no steps, or nobody holds the
\* position of the first.  The days stay reserved for a request that is never made.
NoWorkflow(h) ==
    /\ At(h, "create")
    /\ stranded' = stranded \cup {call[h].request}
    /\ Goto(h, "idle")
    /\ UNCHANGED <<fixed, rows, named, chain, ended>>

\* One transaction makes the request and its workflow.
CreateWithWorkflow(h) ==
    LET c == call[h] IN
    /\ At(h, "create")
    /\ request' = [request EXCEPT ![c.request] = "PENDING"]
    /\ chain' = [chain EXCEPT ![c.request] = "open"]
    /\ Goto(h, "idle")
    /\ UNCHANGED <<fixed, balance, named, ended, stranded>>

\* The leave type does not (or no longer) require approval.
CreateApproved(h) ==
    LET c == call[h] IN
    /\ At(h, "create")
    /\ request' = [request EXCEPT ![c.request] = "APPROVED"]
    /\ Goto(h, "charge")
    /\ UNCHANGED <<fixed, balance, flows>>

-----------------------------------------------------------------------------
(* The workflow and what follows its decision *)

\* processStep finds the chain open and the last decision is made.
Decide(h, r) ==
    /\ chain[r] = "open"
    /\ \E verdict \in {"APPROVED", "REJECTED"} :
          Start(h, "decided", [NoCall EXCEPT !.request = r, !.to = verdict])
    /\ UNCHANGED named

EndChain(h) ==
    LET c == call[h] IN
    /\ At(h, "decided")
    /\ chain' = [chain EXCEPT ![c.request] = c.to]
    /\ ended' = [ended EXCEPT ![c.request] = @ + 1]
    /\ Goto(h, "load")
    /\ UNCHANGED <<fixed, rows, named, stranded>>

\* completeLeaveFromWorkflow, rejectLeaveFromWorkflow.
Load(h) ==
    /\ At(h, "load")
    /\ Goto(h, IF request[call[h].request] = "PENDING" THEN "charge" ELSE "idle")
    /\ UNCHANGED <<fixed, rows, flows>>

\* Faulty variant: approved days stay pending.
Charged_Kept(row, to, days) ==
    IF to = "APPROVED" THEN [row EXCEPT !.used = @ + days]
    ELSE [row EXCEPT !.pending = @ - days]

\* finalizeLeaveApproval, releaseLeavePending.
Charged(row, to, days) ==
    IF to = "APPROVED" THEN [row EXCEPT !.pending = @ - days, !.used = @ + days]
    ELSE [row EXCEPT !.pending = @ - days]

\* The balance is that of the year the leave begins in, if there is one; when no
\* year covers the day the call fails.
Charge(h) ==
    LET c == call[h]
        y == startYear[c.request] IN
    /\ At(h, "charge")
    /\ IF y = 0 \/ balance[y] = None
       THEN UNCHANGED balance
       ELSE balance' = [balance EXCEPT ![y] = Charged(@, c.to, Days[c.request])]
    /\ Goto(h, IF y = 0 THEN "idle" ELSE "mark")
    /\ UNCHANGED <<fixed, request, flows>>

Mark(h) ==
    /\ At(h, "mark")
    /\ request' = [request EXCEPT ![call[h].request] = call[h].to]
    /\ Goto(h, "idle")
    /\ UNCHANGED <<fixed, balance, flows>>

\* The process dies or the next statement fails.
Die(h) ==
    /\ mode = "overlap"
    /\ ~At(h, "idle")
    /\ Goto(h, "idle")
    /\ UNCHANGED <<fixed, rows, flows>>

Step(h) ==
    \/ SetBalance(h) \/ Ensure(h) \/ Reserve(h) \/ CreateWithWorkflow(h) \/ CreateApproved(h)
    \/ EndChain(h) \/ Load(h) \/ Charge(h) \/ Mark(h)

LeaveNext ==
    \E h \in Handlers :
        \/ Step(h) \/ NoWorkflow(h) \/ Die(h)
        \/ \E y \in Years : Allocate(h, y)
        \/ \E from, to \in Years : from < to /\ CarryForward(h, from, to)
        \/ \E r \in Requests : Decide(h, r) \/ \E y \in Years : Ask(h, r, y)

LeaveSpec == LeaveInit /\ [][LeaveNext]_leaveVars

-----------------------------------------------------------------------------
LeaveTypeOK ==
    /\ mode \in {"serial", "overlap"}
    /\ startYear \in StartYears
    /\ balance \in [Years -> Row \cup {None}]
    /\ request \in [Requests -> {"none", "PENDING", "APPROVED", "REJECTED"}]
    /\ named \in [Requests -> Years \cup {0}]
    /\ chain \in [Requests -> {"none", "open", "APPROVED", "REJECTED"}]
    /\ ended \in [Requests -> Nat]
    /\ stranded \subseteq Requests
    /\ stage \in [Handlers -> {"idle", "set", "ensure", "reserve", "create", "decided", "load",
                               "charge", "mark"}]
    /\ call \in [Handlers -> [request : Requests, year : Years, to : {"APPROVED", "REJECTED"},
                              allocated : Nat, carried : Nat]]

Total(S) == SumFunctionOnSet(Days, S)
Of(y, statuses) == {r \in Requests : startYear[r] = y /\ request[r] \in statuses}

\* What was submitted for year y begins in it, and the reverse; the code does not see to it.
NamedRightly(y) ==
    \A r \in Requests : named[r] # 0 => (named[r] = y <=> startYear[r] = y)

\* Requests of year y that were given up with their days reserved.
LeftBehind(y) == {r \in stranded : startYear[r] = y}

(* When calls do not overlap and requests name the year they begin in, a     *)
(* balance tells what its requests say: used are the days that were          *)
(* approved, pending the days that wait for a decision and, for good, those  *)
(* of the requests whose workflow could not be started.                      *)
BalancesTellRequests ==
    mode = "serial" /\ Working = {} =>
        \A y \in Years : NamedRightly(y) =>
            IF balance[y] = None THEN Of(y, {"PENDING", "APPROVED"}) = {}
            ELSE /\ balance[y].pending = Total(Of(y, {"PENDING"}) \cup LeftBehind(y))
                 /\ balance[y].used = Total(Of(y, {"APPROVED"}))

(* However calls overlap and die, leave that is granted or waits for its     *)
(* decision has its days held in the balance of its year, as long as it was *)
(* made for that year and no request was decided twice.                     *)
LeaveIsHeld ==
    (\A r \in Requests : ended[r] <= 1) =>
        \A y \in Years : NamedRightly(y) =>
            LET live == {r \in Of(y, {"PENDING", "APPROVED"}) : chain[r] # "REJECTED"} IN
            live # {} => balance[y] # None /\ Total(live) <= balance[y].used + balance[y].pending

(* When calls do not overlap, a request that is made leaves the days of all  *)
(* leave granted or waiting in its year within what was allocated and       *)
(* carried over, whatever was carried on to another year before.            *)
WithinAllowance ==
    [][\A r \in Requests :
          LET y == startYear[r] IN
          mode = "serial" /\ request[r] = "none" /\ request'[r] # "none"
              /\ y # 0 /\ NamedRightly(y) =>
              Total(Of(y, {"PENDING", "APPROVED"})') <=
                  balance'[y].allocated + balance'[y].carried]_leaveVars
=============================================================================
