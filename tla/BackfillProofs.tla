--------------------------- MODULE BackfillProofs ---------------------------
(***************************************************************************)
(* Proofs about Backfill, for any requests, days, ranges and attempts, any *)
(* number of overlapping handlers and job workers, with and without a      *)
(* queue and faults.                                                       *)
(***************************************************************************)
EXTENDS Backfill, FiniteSetTheorems, TLAPS

Windows == Requests \X Nat

Calls == [req : Requests, by : {"hand", "chain", "worker", "poster"},
          seen : SUBSET Windows, day : Days, via : SUBSET Requests]

Places == {"idle", "create", "initiate", "select", "refuse", "approved", "rejected", "load",
           "grant", "enqueue", "find", "bill", "ack", "write"}

\* The tables and the calls, as far as the proofs use their types.
Typed ==
    /\ status \in [Requests -> Status]
    /\ chain \in [Requests -> {"none", "open", "over"}]
    /\ grants \in [Requests -> Nat]
    /\ open \subseteq Windows
    /\ \A w \in open : grants[w[1]] > 0
    /\ invoices \in [Requests -> Nat]
    /\ pushes \in [Requests -> Nat]
    /\ job \in [Requests -> {"none", "queued", "running", "done", "failed"}]
    /\ pc \in [Handlers -> Places]
    /\ call \in [Handlers -> Calls]

\* Who is where: workers bill for a running job, posters write, and a call that has
\* written an invoice for a job finds it written.
Placed(h) ==
    /\ call[h].by = "worker" => pc[h] \in {"find", "bill", "ack"} /\ job[call[h].req] = "running"
    /\ call[h].by = "poster" => pc[h] = "write"
    /\ pc[h] = "ack" => call[h].by = "worker" /\ invoices[call[h].req] > 0

\* A job is in the hands of one worker.
OneWorker ==
    \A g, h \in Handlers :
        call[g].by = "worker" /\ call[h].by = "worker" /\ call[g].req = call[h].req => g = h

\* h may still write an invoice for r: who granted it may in any case, the worker of
\* the job where it finds none, now or when it dies and the job is tried again.
Claims(h, r) ==
    /\ call[h].req = r
    /\ \/ pc[h] = "bill"
       \/ pc[h] \in {"enqueue", "find"} /\ call[h].by # "worker"
       \/ pc[h] \in {"find", "ack"} /\ ~Billed(r)

Claimants(r) == {h \in Handlers : Claims(h, r)}

\* So may the job that waits in the queue.
Owed(r) == IF job[r] = "queued" /\ ~Billed(r) THEN 1 ELSE 0

\* Every invoice, written or on its way, has a grant of its own, or was lost sight of.
Accounted ==
    /\ \A h \in Handlers : Placed(h)
    /\ OneWorker
    /\ \A r \in Requests :
          invoices[r] + Cardinality(Claimants(r)) + Owed(r) <= grants[r] + pushes[r]

\* While calls do not overlap only one is at work, and it may rely on what it read.
Alone == \A g, h \in Handlers : pc[g] # "idle" /\ pc[h] # "idle" => g = h

Knows(h) ==
    LET r == call[h].req IN
    /\ pc[h] = "create" => status[r] = "none"
    /\ pc[h] = "initiate" => status[r] \in Undecided
    /\ pc[h] \in {"approved", "rejected"} => chain[r] = "open"
    /\ pc[h] = "load" => grants[r] = 0 \/ status[r] = "APPROVED"
    /\ pc[h] \in {"select", "grant"} => grants[r] = 0
    /\ pc[h] = "refuse" => grants[r] = 0 \/ chain[r] = "over"
    /\ pc[h] = "grant" => call[h].seen = {w \in open : GivesWay(w, r)}

\* A request that was granted has been decided, and its workflow does not decide
\* it again once it has been refused.
GrantedStands ==
    \A r \in Requests :
        grants[r] > 0 =>
            /\ grants[r] = 1
            /\ \/ status[r] = "APPROVED"
               \/ status[r] = "REJECTED" /\ chain[r] # "open"

\* No two active windows share a day.
Apart == \A v, w \in open : v # w => RangeOf[v[1]] \cap RangeOf[w[1]] = {}

Serial ==
    mode = "serial" =>
        /\ Alone
        /\ \A h \in Handlers : Knows(h)
        /\ GrantedStands
        /\ Apart

\* An approved request has its invoice, or somebody is about to see to it.
Attended ==
    ~faults =>
        \A r \in Requests :
            /\ job[r] # "failed"
            /\ job[r] = "done" => invoices[r] > 0
            /\ status[r] = "APPROVED" =>
                  \/ invoices[r] > 0
                  \/ job[r] \in {"queued", "running"}
                  \/ \E h \in Handlers : call[h].req = r /\ pc[h] \in {"enqueue", "find", "bill"}

\* The writer of a record has found a window for it.
Covered ==
    \A h \in Handlers :
        pc[h] = "write" =>
            /\ \A r \in call[h].via : grants[r] > 0 /\ call[h].day \in RangeOf[r]
            /\ mode = "serial" => \E w \in open : call[h].day \in RangeOf[w[1]]

-----------------------------------------------------------------------------
(* Types *)

LEMMA NoCallType ==
    /\ NoCall \in Calls /\ NoCall.by = "hand" /\ NoCall.via = {}
    /\ AnyRequest \in Requests /\ AnyDay \in Days
BY BackfillAssumption DEF NoCall, Calls, AnyRequest, AnyDay

\* A call about r, and the call of a poster.
LEMMA AboutType ==
    ASSUME NEW r \in Requests, NEW who \in {"hand", "chain", "worker"}
    PROVE  About(r, who) \in Calls /\ About(r, who).req = r /\ About(r, who).by = who
BY NoCallType DEF About, NoCall, Calls

LEMMA PosterType ==
    ASSUME NEW r \in Requests, NEW d \in Days
    PROVE  LET c == [NoCall EXCEPT !.by = "poster", !.day = d, !.via = {r}] IN
           c \in Calls /\ c.by = "poster" /\ c.day = d /\ c.via = {r}
BY NoCallType DEF NoCall, Calls

LEMMA TypedInit == Init => Typed
BY NoCallType DEF Init, Typed, Status, Undecided, Places

\* The types of the handlers: a call goes on, ends or begins.
Handled == pc \in [Handlers -> Places] /\ call \in [Handlers -> Calls]

LEMMA GotoTyped ==
    ASSUME Handled, NEW h \in Handlers, NEW place \in Places, Goto(h, place)
    PROVE  Handled'
BY NoCallType DEF Handled, Goto

LEMMA StartTyped ==
    ASSUME Handled, NEW h \in Handlers, NEW place \in Places, NEW what \in Calls,
           Start(h, place, what)
    PROVE  Handled'
BY DEF Handled, Start

LEMMA TypedStep == Typed /\ [Next]_vars => Typed'
<1> SUFFICES ASSUME Typed, [Next]_vars PROVE Typed'
  OBVIOUS
<1>0. Handled /\ (Handled' /\ UNCHANGED <<request, window, billing>> => Typed')
  BY DEF Typed, Handled, request, window, billing, page
<1>1. ASSUME NEW h \in Handlers, Create(h) \/ Initiate(h) \/ EndChain(h) \/ Refuse(h)
      PROVE  Typed'
  <2>1. call[h].req \in Requests
    BY DEF Typed, Calls
  <2>2. Handled'
    BY <1>0, <1>1, GotoTyped DEF Create, Initiate, EndChain, Refuse, Places
  <2>3. QED
    BY <1>1, <2>1, <2>2 DEF Typed, Handled, Create, Initiate, EndChain, Refuse, window, billing, page,
                            Status, Undecided
<1>2. ASSUME NEW h \in Handlers, Load(h) \/ Find(h)
      PROVE  Typed'
  BY <1>0, <1>2, GotoTyped DEF Load, Find, Places
<1>3. ASSUME NEW h \in Handlers, Select(h)
      PROVE  Typed'
  <2> DEFINE s == {w \in open : GivesWay(w, call[h].req)}
  <2>1. s \subseteq Windows
    BY DEF Typed
  <2>2. call' = [call EXCEPT ![h] = [call[h] EXCEPT !.seen = s]]
    BY <1>3 DEF Select
  <2>3. [call[h] EXCEPT !.seen = s] \in Calls
    <3> HIDE DEF s
    <3>1. QED
      BY <2>1 DEF Typed, Calls
  <2>4. Handled'
    BY <1>3, <2>2, <2>3 DEF Typed, Handled, Select, Places
  <2>5. QED
    BY <1>0, <1>3, <2>4 DEF Select
<1>4. ASSUME NEW h \in Handlers, Grant(h)
      PROVE  Typed'
  <2> DEFINE r == call[h].req
  <2>1. r \in Requests /\ grants[r] \in Nat /\ NewWindow(r) \in Windows
    BY DEF Typed, Calls, NewWindow, Windows
  <2>2. [call[h] EXCEPT !.seen = {}] \in Calls
    BY DEF Typed, Calls
  <2>3. call' = [call EXCEPT ![h] = [call[h] EXCEPT !.seen = {}]]
    BY <1>4 DEF Grant
  <2>4. Handled'
    BY <1>4, <2>2, <2>3 DEF Typed, Handled, Grant, Places
  <2>5. open' \subseteq Windows /\ grants' \in [Requests -> Nat]
    BY <1>4, <2>1 DEF Typed, Grant
  <2>6. \A w \in open' : grants'[w[1]] > 0
    <3>1. SUFFICES ASSUME NEW w \in open' PROVE grants'[w[1]] > 0
      OBVIOUS
    <3>2. w[1] \in Requests /\ grants[w[1]] \in Nat
      BY <2>5 DEF Windows, Typed
    <3>3. w \in open \/ w[1] = r
      BY <1>4 DEF Grant, NewWindow
    <3>4. QED
      BY <1>4, <2>1, <3>2, <3>3 DEF Typed, Grant
  <2>7. QED
    BY <1>4, <2>1, <2>4, <2>5, <2>6 DEF Typed, Handled, Grant, billing, page, Status
<1>5. ASSUME NEW h \in Handlers, Enqueue(h) \/ Bill(h) \/ Ack(h) \/ Fail(h)
      PROVE  Typed'
  <2>1. call[h].req \in Requests /\ invoices[call[h].req] \in Nat
    BY DEF Typed, Calls
  <2>2. Handled'
    BY <1>0, <1>5, GotoTyped DEF Enqueue, Bill, Ack, Fail, Places
  <2>3. QED
    BY <1>5, <2>1, <2>2 DEF Typed, Handled, Enqueue, Bill, Ack, Fail, request, window, page
<1>6. ASSUME NEW h \in Handlers, Write(h)
      PROVE  Typed'
  BY <1>0, <1>6, GotoTyped DEF Write, Places
<1>7. ASSUME NEW h \in Handlers, NEW r \in Requests,
             Submit(h, r) \/ Approve(h, r) \/ Reject(h, r) \/ Decide(h, r)
      PROVE  Typed'
  BY <1>0, <1>7, AboutType, StartTyped DEF Submit, Approve, Reject, Decide, Begin, Places
<1>8. ASSUME NEW h \in Handlers, NEW r \in Requests, Work(h, r)
      PROVE  Typed'
  <2>1. Handled'
    BY <1>0, <1>8, AboutType, StartTyped DEF Work, Places
  <2>2. QED
    BY <1>8, <2>1 DEF Typed, Handled, Work, request, window, page
<1>9. ASSUME NEW h \in Handlers, NEW d \in Days, Post(h, d)
      PROVE  Typed'
  <2>1. PICK r \in Usable(d) :
            Begin(h, "write", [NoCall EXCEPT !.by = "poster", !.day = d, !.via = {r}])
    BY <1>9 DEF Post
  <2>2. r \in Requests
    BY <2>1 DEF Usable, Typed, Windows
  <2>3. QED
    BY <1>0, <2>1, <2>2, PosterType, StartTyped DEF Begin, Places
<1>10. ASSUME NEW r \in Requests, PushOut(r)
       PROVE  Typed'
  BY <1>10 DEF Typed, PushOut, request, window
<1>11. CASE UNCHANGED vars
  BY <1>11 DEF vars, Typed, request, window, billing, page
<1>12. QED
  BY <1>1, <1>2, <1>3, <1>4, <1>5, <1>6, <1>7, <1>8, <1>9, <1>10, <1>11 DEF Next

LEMMA TypedAlways == Spec => []Typed
BY TypedInit, TypedStep, PTL DEF Spec
-----------------------------------------------------------------------------
(* Every invoice has a grant *)

\* The size of a set that changes in one element at most.
LEMMA OneElement ==
    ASSUME NEW S, NEW T, NEW x, IsFiniteSet(S), T \subseteq S \cup {x}
    PROVE  /\ IsFiniteSet(T)
           /\ Cardinality(T) <= Cardinality(S) + 1
           /\ x \in S \/ x \notin T => Cardinality(T) <= Cardinality(S)
           /\ x \in S /\ x \notin T => Cardinality(T) + 1 <= Cardinality(S)
<1>1. IsFiniteSet(S \cup {x}) /\ Cardinality(S \cup {x}) <= Cardinality(S) + 1
      /\ Cardinality(S) \in Nat
  BY FS_AddElement, FS_CardinalityType
<1>2. IsFiniteSet(T) /\ Cardinality(T) \in Nat /\ Cardinality(T) <= Cardinality(S \cup {x})
      /\ Cardinality(S \cup {x}) \in Nat
  BY <1>1, FS_Subset, FS_CardinalityType
<1>3. ASSUME x \in S \/ x \notin T
      PROVE  Cardinality(T) <= Cardinality(S)
  <2>1. T \subseteq S
    BY <1>3
  <2>2. QED
    BY <2>1, FS_Subset
<1>4. ASSUME x \in S, x \notin T
      PROVE  Cardinality(T) + 1 <= Cardinality(S)
  <2>1. T \subseteq S \ {x}
    BY <1>4
  <2>2. IsFiniteSet(S \ {x}) /\ Cardinality(S \ {x}) = Cardinality(S) - 1
    BY <1>4, FS_RemoveElement
  <2>3. Cardinality(T) <= Cardinality(S \ {x})
    BY <2>1, <2>2, FS_Subset
  <2>4. QED
    BY <1>1, <1>2, <2>2, <2>3
<1>5. QED
  BY <1>1, <1>2, <1>3, <1>4

LEMMA ClaimantsFinite == \A r : IsFiniteSet(Claimants(r)) /\ Cardinality(Claimants(r)) \in Nat
<1>1. \A r : Claimants(r) \subseteq Handlers
  BY DEF Claimants
<1>2. QED
  BY <1>1, BackfillAssumption, FS_Subset, FS_CardinalityType

\* What a step of h does to the claims: those of the others do not grow, since
\* their calls stay and no invoice disappears.
Stake(h, r) == IF Claims(h, r) THEN 1 ELSE 0

OthersStay(h) ==
    /\ \A g \in Handlers \ {h} : pc'[g] = pc[g] /\ call'[g] = call[g]
    /\ \A r \in Requests : invoices'[r] >= invoices[r]
    /\ beyond' \subseteq beyond /\ pushes' = pushes

\* Nor does a step of h take a job away from its worker.
WorkersStay(h) ==
    \A g \in Handlers \ {h} : call[g].by = "worker" =>
        /\ job'[call[g].req] = job[call[g].req]
        /\ call'[h].by = "worker" => call'[h].req # call[g].req

LEMMA QuietStep ==
    ASSUME Accounted, NEW h \in Handlers, UNCHANGED job,
           call'[h].by # "worker" \/ call'[h] = call[h]
    PROVE  WorkersStay(h)
BY DEF Accounted, OneWorker, WorkersStay

LEMMA ClaimsMove ==
    ASSUME NEW h \in Handlers, NEW r \in Requests, Typed, Typed', OthersStay(h)
    PROVE  /\ Cardinality(Claimants(r)') \in Nat
           /\ Cardinality(Claimants(r)') + Stake(h, r) <= Cardinality(Claimants(r)) + Stake(h, r)'
<1>1. Claimants(r)' \subseteq Claimants(r) \cup {h}
  <2>1. SUFFICES ASSUME NEW g \in Handlers \ {h}, Claims(g, r)' PROVE Claims(g, r)
    BY DEF Claimants
  <2>2. invoices[r] \in Nat /\ invoices'[r] \in Nat
    BY DEF Typed
  <2>3. QED
    BY <2>1, <2>2 DEF Claims, OthersStay, Billed
<1>2. (h \in Claimants(r) <=> Claims(h, r)) /\ (h \in Claimants(r)' <=> Claims(h, r)')
  BY DEF Claimants
<1>3. IsFiniteSet(Claimants(r)) /\ Cardinality(Claimants(r)) \in Nat
      /\ Cardinality(Claimants(r)') \in Nat
  <2>1. IsFiniteSet(Claimants(r)')
    BY <1>1, ClaimantsFinite, OneElement
  <2>2. QED
    BY <2>1, ClaimantsFinite, FS_CardinalityType
<1>4. /\ Cardinality(Claimants(r)') <= Cardinality(Claimants(r)) + 1
      /\ h \in Claimants(r) \/ h \notin Claimants(r)' =>
            Cardinality(Claimants(r)') <= Cardinality(Claimants(r))
      /\ h \in Claimants(r) /\ h \notin Claimants(r)' =>
            Cardinality(Claimants(r)') + 1 <= Cardinality(Claimants(r))
  BY <1>1, <1>3, OneElement
<1>5. QED
  BY <1>2, <1>3, <1>4 DEF Stake

\* h pays for what it writes or queues with its own claim or with a grant.
Pays(h, r) ==
    invoices'[r] + Stake(h, r)' + Owed(r)' + grants[r]
        <= invoices[r] + Stake(h, r) + Owed(r) + grants'[r]

LEMMA AccountedKept ==
    ASSUME NEW h \in Handlers, Typed, Typed', Accounted, OthersStay(h), WorkersStay(h), Placed(h)',
           \A r \in Requests : Pays(h, r)
    PROVE  Accounted'
<1>1. \A g \in Handlers : Placed(g)'
  <2>1. SUFFICES ASSUME NEW g \in Handlers \ {h} PROVE Placed(g)'
    OBVIOUS
  <2>2. call[g].req \in Requests /\ call'[g] = call[g] /\ pc'[g] = pc[g] /\ Placed(g)
    BY DEF Typed, Calls, OthersStay, Accounted
  <2>3. invoices[call[g].req] \in Nat /\ invoices'[call[g].req] \in Nat
        /\ invoices'[call[g].req] >= invoices[call[g].req]
    BY <2>2 DEF Typed, OthersStay
  <2>4. QED
    BY <2>2, <2>3 DEF Placed, WorkersStay
<1>2. ASSUME NEW r \in Requests
      PROVE  invoices'[r] + Cardinality(Claimants(r)') + Owed(r)' <= grants'[r] + pushes'[r]
  <2>1. invoices[r] \in Nat /\ invoices'[r] \in Nat /\ grants[r] \in Nat /\ grants'[r] \in Nat
        /\ pushes[r] \in Nat /\ pushes'[r] = pushes[r]
    BY DEF Typed, OthersStay
  <2>2. Stake(h, r) \in Nat /\ Stake(h, r)' \in Nat /\ Owed(r) \in Nat /\ Owed(r)' \in Nat
    BY DEF Stake, Owed
  <2>3. Cardinality(Claimants(r)) \in Nat /\ Cardinality(Claimants(r)') \in Nat
        /\ Cardinality(Claimants(r)') + Stake(h, r) <= Cardinality(Claimants(r)) + Stake(h, r)'
    BY ClaimantsFinite, ClaimsMove
  <2>4. invoices[r] + Cardinality(Claimants(r)) + Owed(r) <= grants[r] + pushes[r]
    BY DEF Accounted
  <2>5. QED
    BY <2>1, <2>2, <2>3, <2>4 DEF Pays
<1>3. OneWorker'
  <2>1. SUFFICES ASSUME NEW f \in Handlers, NEW g \in Handlers, call'[f].by = "worker",
                        call'[g].by = "worker", call'[f].req = call'[g].req
                 PROVE  f = g
    BY DEF OneWorker
  <2>2. CASE f # h /\ g # h
    BY <2>1, <2>2 DEF OthersStay, Accounted, OneWorker
  <2>3. CASE f = h \/ g = h
    BY <2>1, <2>3 DEF OthersStay, WorkersStay
  <2>4. QED
    BY <2>2, <2>3
<1>4. QED
  BY <1>1, <1>2, <1>3 DEF Accounted

LEMMA AccountedInit == Init => Accounted
<1>1. SUFFICES ASSUME Init PROVE Accounted
  OBVIOUS
<1>2. \A h \in Handlers : Placed(h)
  BY <1>1, NoCallType DEF Init, Placed
<1>3. \A r \in Requests : Claimants(r) = {} /\ Owed(r) = 0 /\ invoices[r] = 0 /\ grants[r] = 0
                         /\ pushes[r] = 0
  BY <1>1 DEF Init, Claimants, Claims, Owed
<1>4. OneWorker
  BY <1>1, NoCallType DEF Init, OneWorker
<1>5. QED
  BY <1>2, <1>3, <1>4, FS_EmptySet DEF Accounted

\* Where the books stay and h claims nothing new, nothing has to be paid.
LEMMA NothingToPay ==
    ASSUME NEW h \in Handlers, Typed, UNCHANGED <<window, billing>>,
           \A r \in Requests : Claims(h, r)' => Claims(h, r)
    PROVE  \A r \in Requests : Pays(h, r)
<1>1. ASSUME NEW r \in Requests PROVE Pays(h, r)
  <2>1. invoices[r] \in Nat /\ grants[r] \in Nat /\ invoices'[r] = invoices[r] /\ grants'[r] = grants[r]
    BY DEF Typed, window, billing
  <2>2. Owed(r)' = Owed(r) /\ Owed(r) \in Nat
    BY DEF Owed, Billed, billing, page
  <2>3. Stake(h, r)' <= Stake(h, r) /\ Stake(h, r) \in Nat /\ Stake(h, r)' \in Nat
    BY DEF Stake
  <2>4. QED
    BY <2>1, <2>2, <2>3 DEF Pays
<1>2. QED
  BY <1>1

LEMMA AccountedStep == Typed /\ Typed' /\ Accounted /\ [Next]_vars => Accounted'
<1> SUFFICES ASSUME Typed, Typed', Accounted, [Next]_vars PROVE Accounted'
  OBVIOUS
<1>0. \A r \in Requests : invoices[r] \in Nat /\ grants[r] \in Nat
  BY DEF Typed
<1>1. ASSUME NEW h \in Handlers, \/ Create(h) \/ Initiate(h) \/ EndChain(h) \/ Refuse(h)
                                 \/ Load(h) \/ Select(h) \/ Write(h)
      PROVE  Accounted'
  <2>1. OthersStay(h)
    BY <1>0, <1>1 DEF Typed, OthersStay, page, Create, Initiate, EndChain, Refuse, Load, Select, Write,
                      Goto, billing
  <2>2. pc'[h] \notin {"enqueue", "find", "bill", "ack", "write"} /\ UNCHANGED <<window, billing>>
    BY <1>1 DEF Typed, Create, Initiate, EndChain, Refuse, Load, Select, Write, Goto
  <2>3. call'[h].by \notin {"worker", "poster"}
    <3>1. CASE Select(h)
      BY <3>1 DEF Select, Typed, Calls, Accounted, Placed, At
    <3>2. CASE pc[h] \notin {"find", "bill", "ack", "write"} /\ Goto(h, pc'[h])
      <4>1. call[h].by \notin {"worker", "poster"}
        BY <3>2 DEF Accounted, Placed
      <4>2. call'[h] = call[h] \/ call'[h] = NoCall
        BY <3>2 DEF Typed, Goto
      <4>3. QED
        BY <4>1, <4>2, NoCallType
    <3>3. CASE Write(h)
      BY <3>3, NoCallType DEF Typed, Write, Goto
    <3>4. QED
      BY <1>1, <3>1, <3>2, <3>3 DEF Typed, Create, Initiate, EndChain, Refuse, Load, Goto, At
  <2>4. Placed(h)'
    BY <2>2, <2>3 DEF Placed
  <2>5. \A r \in Requests : ~Claims(h, r)'
    BY <2>2 DEF Claims
  <2>6. WorkersStay(h)
    BY <2>2, <2>3, QuietStep DEF billing
  <2>7. QED
    BY <2>1, <2>2, <2>4, <2>5, <2>6, NothingToPay, AccountedKept
<1>2. ASSUME NEW h \in Handlers, Grant(h)
      PROVE  Accounted'
  <2>1. OthersStay(h) /\ WorkersStay(h) /\ Placed(h)'
    <3>1. call'[h].by = call[h].by /\ pc'[h] \in {"enqueue", "find"} /\ pc[h] = "grant"
      BY <1>2 DEF Typed, Calls, Grant, At
    <3>2. call[h].by # "worker" /\ call[h].by # "poster"
      BY <3>1 DEF Accounted, Placed
    <3>3. Placed(h)'
      BY <3>1, <3>2 DEF Placed
    <3>4. WorkersStay(h)
      BY <1>2, <3>1, <3>2, QuietStep DEF Grant, billing
    <3>5. QED
      BY <1>0, <1>2, <3>3, <3>4 DEF Typed, OthersStay, page, Grant, billing
  <2>2. ASSUME NEW r \in Requests PROVE Pays(h, r)
    <3>1. invoices'[r] = invoices[r] /\ Owed(r)' = Owed(r) /\ Owed(r) \in Nat
      BY <1>2 DEF Grant, billing, page, Owed, Billed
    <3>2. call'[h].req = call[h].req
      BY <1>2 DEF Typed, Calls, Grant
    <3>3. CASE r = call[h].req
      <4>1. grants'[r] = grants[r] + 1
        BY <1>2, <3>3 DEF Grant, Typed
      <4>2. Stake(h, r)' \in 0..1 /\ Stake(h, r) \in 0..1
        BY DEF Stake
      <4>3. QED
        BY <1>0, <3>1, <4>1, <4>2 DEF Pays
    <3>4. CASE r # call[h].req
      <4>1. grants'[r] = grants[r]
        BY <1>2, <3>4 DEF Grant, Typed
      <4>2. Stake(h, r)' = 0 /\ Stake(h, r) = 0
        BY <3>2, <3>4 DEF Stake, Claims
      <4>3. QED
        BY <1>0, <3>1, <4>1, <4>2 DEF Pays
    <3>5. QED
      BY <3>3, <3>4
  <2>3. QED
    BY <2>1, <2>2, AccountedKept
<1>3. ASSUME NEW h \in Handlers, Enqueue(h)
      PROVE  Accounted'
  <2>1. call[h].by \in {"hand", "chain"} /\ pc[h] = "enqueue"
    BY <1>3 DEF Typed, Calls, Enqueue, At, Accounted, Placed
  <2>2. OthersStay(h)
    BY <1>0, <1>3 DEF Typed, OthersStay, page, Enqueue, Goto
  <2>3. Placed(h)'
    BY <1>3, <2>1, NoCallType DEF Typed, Placed, Enqueue, Goto
  <2>4. ASSUME NEW r \in Requests PROVE Pays(h, r)
    <3>1. invoices'[r] = invoices[r] /\ grants'[r] = grants[r]
      BY <1>3 DEF Enqueue, window
    <3>2. Owed(r)' \in 0..1 /\ Owed(r) \in 0..1 /\ Stake(h, r)' \in 0..1 /\ Stake(h, r) \in 0..1
      BY DEF Owed, Stake
    <3>3. CASE ~redis
      <4>1. Owed(r)' = Owed(r) /\ Claims(h, r)' = Claims(h, r)
        BY <1>3, <2>1, <3>3 DEF Typed, Enqueue, Queued, Goto, Owed, Claims, Billed, page
      <4>2. QED
        BY <1>0, <3>1, <3>2, <4>1 DEF Pays, Stake
    <3>4. CASE redis /\ r = call[h].req
      <4>1. Stake(h, r)' = 0
        BY <1>3, <3>4 DEF Typed, Enqueue, Queued, Goto, Stake, Claims
      <4>2. Stake(h, r) = 1
        BY <2>1, <3>4 DEF Stake, Claims
      <4>3. QED
        BY <1>0, <3>1, <3>2, <4>1, <4>2 DEF Pays
    <3>5. CASE redis /\ r # call[h].req
      <4>1. Stake(h, r)' = 0
        BY <1>3, <3>5 DEF Typed, Enqueue, Queued, Goto, Stake, Claims
      <4>2. Owed(r)' = Owed(r)
        BY <1>3, <3>1, <3>5 DEF Enqueue, Owed, Billed, page
      <4>3. QED
        BY <1>0, <3>1, <3>2, <4>1, <4>2 DEF Pays
    <3>6. QED
      BY <3>3, <3>4, <3>5
  <2>5. WorkersStay(h)
    <3>1. call'[h].by # "worker"
      BY <1>3, <2>1, NoCallType DEF Typed, Enqueue, Goto
    <3>2. ASSUME NEW g \in Handlers \ {h}, call[g].by = "worker"
          PROVE  job'[call[g].req] = job[call[g].req]
      <4>1. job[call[g].req] = "running"
        BY <3>2 DEF Accounted, Placed
      <4>2. QED
        BY <1>3, <4>1 DEF Enqueue, Typed
    <3>3. QED
      BY <3>1, <3>2 DEF WorkersStay
  <2>6. QED
    BY <2>2, <2>3, <2>4, <2>5, AccountedKept
<1>4. ASSUME NEW h \in Handlers, NEW q \in Requests, Work(h, q)
      PROVE  Accounted'
  <2>1. pc'[h] = "find" /\ call'[h] = About(q, "worker") /\ pc[h] = "idle" /\ UNCHANGED <<invoices, grants>>
        /\ job[q] = "queued" /\ job' = [job EXCEPT ![q] = "running"] /\ beyond' = beyond
    BY <1>4 DEF Typed, Work, Start, window, page
  <2>2. OthersStay(h)
    BY <1>0, <1>4 DEF Typed, OthersStay, page, Work, Start
  <2>3. call'[h].by = "worker" /\ call'[h].req = q
    BY <2>1, AboutType
  <2>4. ASSUME NEW r \in Requests PROVE Pays(h, r)
    <3>1. Stake(h, r) = 0
      BY <2>1 DEF Stake, Claims
    <3>2. Owed(r) \in 0..1 /\ Owed(r)' \in 0..1 /\ Stake(h, r)' \in 0..1
      BY DEF Owed, Stake
    <3>3. r # q => Owed(r)' = Owed(r) /\ Stake(h, r)' = 0
      BY <2>1, <2>3 DEF Owed, Stake, Claims, Billed
    <3>4. r = q => Owed(r)' = 0 /\ Stake(h, r)' <= Owed(r)
      BY <2>1, <2>3 DEF Owed, Stake, Claims, Billed, Typed
    <3>5. invoices'[r] = invoices[r] /\ grants'[r] = grants[r]
      BY <2>1
    <3>6. QED
      BY <1>0, <3>1, <3>2, <3>3, <3>4, <3>5 DEF Pays
  <2>5. WorkersStay(h)
    <3>1. ASSUME NEW g \in Handlers \ {h}, call[g].by = "worker"
          PROVE  call[g].req # q
      BY <2>1, <3>1 DEF Accounted, Placed
    <3>2. QED
      BY <2>1, <2>3, <3>1 DEF WorkersStay
  <2>6. Placed(h)'
    BY <2>1, <2>3 DEF Placed, Typed
  <2>7. QED
    BY <2>2, <2>4, <2>5, <2>6, AccountedKept
<1>5. ASSUME NEW h \in Handlers, Find(h)
      PROVE  Accounted'
  <2>1. pc[h] = "find" /\ call[h].req \in Requests /\ call[h].by # "poster" /\ UNCHANGED <<window, billing>>
    BY <1>5 DEF Typed, Calls, Find, At, Accounted, Placed
  <2>2. OthersStay(h)
    BY <1>0, <1>5 DEF Typed, OthersStay, page, Find, Goto, billing
  <2>3. Placed(h)'
    BY <1>0, <1>5, <2>1, NoCallType DEF Typed, Placed, Find, Goto, Billed, billing, Accounted
  <2>4. \A r \in Requests : Claims(h, r)' => Claims(h, r)
    BY <1>0, <1>5, <2>1 DEF Typed, Claims, Find, Goto, Billed, billing, page
  <2>5. WorkersStay(h)
    BY <1>5, <2>1, NoCallType, QuietStep DEF Typed, Find, Goto, billing
  <2>6. QED
    BY <2>1, <2>2, <2>3, <2>4, <2>5, NothingToPay, AccountedKept
<1>6. ASSUME NEW h \in Handlers, Bill(h)
      PROVE  Accounted'
  <2> DEFINE q == call[h].req
  <2>1. pc[h] = "bill" /\ q \in Requests /\ call[h].by # "poster"
        /\ invoices' = [invoices EXCEPT ![q] = @ + 1] /\ UNCHANGED <<job, grants>>
        /\ pc'[h] \in {"ack", "idle"} /\ beyond' = beyond \ {q}
    BY <1>6 DEF Typed, Calls, Bill, At, Accounted, Placed, Goto, window
  <2>2. OthersStay(h)
    BY <1>0, <1>6, <2>1 DEF Typed, OthersStay, Bill, Goto
  <2>3. Placed(h)'
    <3>1. invoices'[q] > 0
      BY <1>0, <2>1 DEF Typed
    <3>2. QED
      BY <1>6, <2>1, <3>1, NoCallType DEF Typed, Placed, Bill, Goto, Accounted
  <2>4. ASSUME NEW r \in Requests PROVE Pays(h, r)
    <3>0. r = q => Billed(r)'
      BY <1>0, <2>1 DEF Billed, Typed
    <3>1. Stake(h, r)' = 0
      <4>1. pc'[h] = "ack" => call'[h] = call[h]
        BY <1>6 DEF Typed, Bill, Goto
      <4>2. QED
        BY <2>1, <3>0, <4>1 DEF Stake, Claims
    <3>2. Owed(r) \in 0..1 /\ Owed(r)' \in 0..1 /\ grants'[r] = grants[r]
      BY <2>1 DEF Owed
    <3>3. r # q => Owed(r)' = Owed(r) /\ invoices'[r] = invoices[r] /\ Stake(h, r) = 0
      BY <2>1 DEF Owed, Stake, Claims, Billed, Typed
    <3>4. r = q => invoices'[r] = invoices[r] + 1 /\ Stake(h, r) = 1
      BY <2>1 DEF Owed, Stake, Claims, Typed
    <3>5. r = q => Owed(r)' = 0
      BY <3>0 DEF Owed
    <3>6. QED
      BY <1>0, <3>1, <3>2, <3>3, <3>4, <3>5 DEF Pays
  <2>5. WorkersStay(h)
    BY <1>6, <2>1, NoCallType, QuietStep DEF Typed, Bill, Goto
  <2>6. QED
    BY <2>2, <2>3, <2>4, <2>5, AccountedKept
<1>7. ASSUME NEW h \in Handlers, Ack(h) \/ Fail(h)
      PROVE  Accounted'
  <2> DEFINE q == call[h].req
  <2>1. pc'[h] = "idle" /\ call'[h] = NoCall /\ UNCHANGED <<invoices, grants, beyond>>
    BY <1>7 DEF Typed, Ack, Fail, Goto, window, page
  <2>2. OthersStay(h)
    BY <1>0, <1>7 DEF Typed, OthersStay, page, Ack, Fail, Goto
  <2>3. Placed(h)'
    BY <2>1, NoCallType DEF Placed
  <2>4. ASSUME NEW r \in Requests PROVE Pays(h, r)
    <3>1. Stake(h, r)' = 0 /\ invoices'[r] = invoices[r] /\ grants'[r] = grants[r]
      BY <2>1 DEF Stake, Claims
    <3>2. Owed(r) \in 0..1 /\ Owed(r)' \in 0..1 /\ Stake(h, r) \in 0..1
      BY DEF Owed, Stake
    <3>3. CASE r # q \/ ~(Fail(h) /\ call[h].by = "worker")
      <4>1. Owed(r)' <= Owed(r)
        BY <1>7, <2>1, <3>3 DEF Owed, Billed, Typed, Ack, Fail
      <4>2. QED
        BY <1>0, <3>1, <3>2, <4>1 DEF Pays
    <3>4. CASE r = q /\ Fail(h) /\ call[h].by = "worker"
      <4>1. Billed(r) => Owed(r)' = 0
        BY <2>1 DEF Owed, Billed
      <4>2. ~Billed(r) => Stake(h, r) = 1
        BY <1>7, <3>4 DEF Accounted, Placed, Stake, Claims
      <4>3. QED
        BY <1>0, <3>1, <3>2, <4>1, <4>2 DEF Pays
    <3>5. QED
      BY <3>3, <3>4
  <2>5. WorkersStay(h)
    <3>1. call'[h].by # "worker"
      BY <2>1, NoCallType
    <3>2. ASSUME NEW g \in Handlers \ {h}, call[g].by = "worker"
          PROVE  job'[call[g].req] = job[call[g].req]
      <4>1. call[h].by = "worker" => call[g].req # q
        BY <3>2 DEF Accounted, OneWorker
      <4>2. Ack(h) => call[h].by = "worker"
        BY DEF Ack, At, Accounted, Placed
      <4> DEFINE s == call[g].req
      <4>0. s \in Requests /\ job \in [Requests -> {"none", "queued", "running", "done", "failed"}]
        BY DEF Typed, Calls
      <4> HIDE DEF s
      <4>3. s # q => job'[s] = job[s]
        BY <1>7, <4>0 DEF Ack, Fail
      <4>4. call[h].by # "worker" => UNCHANGED job
        BY <1>7, <4>2 DEF Fail
      <4>5. QED
        BY <4>1, <4>3, <4>4 DEF s
    <3>3. QED
      BY <3>1, <3>2 DEF WorkersStay
  <2>6. QED
    BY <2>2, <2>3, <2>4, <2>5, AccountedKept
<1>8. ASSUME NEW h \in Handlers, NEW place, NEW what, Begin(h, place, what),
             what.by = "hand" \/ what.by = "chain" \/ (what.by = "poster" /\ place = "write"),
             place \notin {"enqueue", "find", "bill", "ack"}
      PROVE  Accounted'
  <2>1. pc'[h] = place /\ call'[h] = what /\ UNCHANGED <<window, billing>>
    BY <1>8 DEF Typed, Begin, Start
  <2>2. OthersStay(h)
    BY <1>0, <1>8 DEF Typed, OthersStay, page, Begin, Start, billing
  <2>3. Placed(h)' /\ \A r \in Requests : ~Claims(h, r)'
    BY <1>8, <2>1 DEF Placed, Claims
  <2>4. WorkersStay(h)
    BY <1>8, <2>1, QuietStep DEF billing
  <2>5. QED
    BY <2>1, <2>2, <2>3, <2>4, NothingToPay, AccountedKept
<1>9. ASSUME NEW h \in Handlers, NEW r \in Requests,
             Submit(h, r) \/ Approve(h, r) \/ Reject(h, r) \/ Decide(h, r)
      PROVE  Accounted'
  BY <1>8, <1>9, AboutType DEF Submit, Approve, Reject, Decide
<1>10. ASSUME NEW h \in Handlers, NEW d \in Days, Post(h, d)
       PROVE  Accounted'
  <2>1. PICK r \in Usable(d) :
            Begin(h, "write", [NoCall EXCEPT !.by = "poster", !.day = d, !.via = {r}])
    BY <1>10 DEF Post
  <2> DEFINE what == [NoCall EXCEPT !.by = "poster", !.day = d, !.via = {r}]
  <2>2. r \in Requests
    BY <2>1 DEF Usable, Typed, Windows
  <2>3. what.by = "poster" /\ Begin(h, "write", what)
    BY <2>1, <2>2, PosterType
  <2> HIDE DEF what
  <2>4. QED
    BY <1>8, <2>3
<1>11. CASE UNCHANGED vars
  <2>1. \A r : Claimants(r)' = Claimants(r) /\ Owed(r)' = Owed(r)
    BY <1>11 DEF vars, Claimants, Claims, Owed, Billed, billing, page
  <2>2. UNCHANGED <<pc, call, invoices, grants, job, pushes>>
    BY <1>11 DEF vars, billing, window, page
  <2>3. QED
    BY <2>1, <2>2 DEF Accounted, Placed, OneWorker
<1>12. ASSUME NEW q \in Requests, PushOut(q)
       PROVE  Accounted'
  <2>1. UNCHANGED <<pc, call, job, invoices, grants>> /\ Billed(q)
    BY <1>12 DEF PushOut, Billed, window
  <2>2. pushes'[q] = pushes[q] + 1 /\ \A r \in Requests \ {q} : pushes'[r] = pushes[r]
    BY <1>12 DEF PushOut, Typed
  <2>3. \A r \in Requests \ {q} : Billed(r)' = Billed(r)
    BY <1>12 DEF PushOut, Billed
  <2>4. (\A h \in Handlers : Placed(h)') /\ OneWorker'
    BY <2>1 DEF Accounted, Placed, OneWorker
  <2>5. ASSUME NEW r \in Requests
        PROVE  invoices'[r] + Cardinality(Claimants(r)') + Owed(r)' <= grants'[r] + pushes'[r]
    <3>0. /\ invoices[r] + Cardinality(Claimants(r)) + Owed(r) <= grants[r] + pushes[r]
          /\ invoices[r] \in Nat /\ grants[r] \in Nat /\ pushes[r] \in Nat
          /\ IsFiniteSet(Claimants(r)) /\ Cardinality(Claimants(r)) \in Nat
          /\ Owed(r) \in 0..1 /\ Owed(r)' \in 0..1
      BY <1>0, ClaimantsFinite DEF Accounted, Typed, Owed
    <3>1. CASE r # q
      <4>1. Claimants(r)' = Claimants(r) /\ Owed(r)' = Owed(r)
        BY <2>1, <2>3, <3>1 DEF Claimants, Claims, Owed
      <4>2. QED
        BY <2>1, <2>2, <3>0, <3>1, <4>1
    <3>2. CASE r = q /\ \E h \in Handlers : call[h].by = "worker" /\ call[h].req = q
      <4>1. PICK h \in Handlers : call[h].by = "worker" /\ call[h].req = q
        BY <3>2
      <4>2. job[q] = "running"
        BY <4>1 DEF Accounted, Placed
      <4>3. Owed(r)' = 0
        BY <2>1, <3>2, <4>2 DEF Owed
      <4>4. Claimants(r)' \subseteq Claimants(r) \cup {h}
        <5>1. ASSUME NEW g \in Handlers \ {h}, Claims(g, r)' PROVE Claims(g, r)
          <6>1. call[g].req = q /\ pc'[g] = pc[g] /\ call'[g] = call[g]
            BY <2>1, <3>2, <5>1 DEF Claims
          <6>2. call[g].by # "worker"
            BY <4>1, <6>1 DEF Accounted, OneWorker
          <6>3. pc[g] # "ack"
            BY <6>2 DEF Accounted, Placed
          <6>4. QED
            BY <3>2, <5>1, <6>1, <6>2, <6>3 DEF Claims
        <5>2. QED
          BY <5>1 DEF Claimants
      <4>5. Cardinality(Claimants(r)') <= Cardinality(Claimants(r)) + 1 /\ IsFiniteSet(Claimants(r)')
        BY <3>0, <4>4, OneElement
      <4>6. Cardinality(Claimants(r)') \in Nat
        BY <4>5, FS_CardinalityType
      <4>7. QED
        BY <2>1, <2>2, <3>0, <3>2, <4>3, <4>5, <4>6
    <3>3. CASE r = q /\ ~\E h \in Handlers : call[h].by = "worker" /\ call[h].req = q
      <4>1. Claimants(r)' = Claimants(r)
        <5>1. ASSUME NEW g \in Handlers PROVE Claims(g, r)' <=> Claims(g, r)
          <6>1. CASE call[g].req = q
            <7>1. call[g].by # "worker"
              BY <3>3, <6>1
            <7>2. pc[g] # "ack"
              BY <7>1 DEF Accounted, Placed
            <7>3. QED
              BY <2>1, <3>3, <6>1, <7>1, <7>2 DEF Claims
          <6>2. CASE call[g].req # q
            BY <2>1, <3>3, <6>2 DEF Claims
          <6>3. QED
            BY <6>1, <6>2
        <5>2. QED
          BY <5>1 DEF Claimants
      <4>2. QED
        BY <2>1, <2>2, <3>0, <3>3, <4>1
    <3>4. QED
      BY <3>1, <3>2, <3>3
  <2>6. QED
    BY <2>4, <2>5 DEF Accounted
<1>13. QED
  BY <1>1, <1>2, <1>3, <1>4, <1>5, <1>6, <1>7, <1>9, <1>10, <1>11, <1>12 DEF Next

LEMMA AccountedAlways == Spec => [](Typed /\ Accounted)
<1>1. Typed /\ Accounted /\ [Next]_vars => (Typed /\ Accounted)'
  BY TypedStep, AccountedStep
<1>2. QED
  BY <1>1, TypedInit, AccountedInit, PTL DEF Spec

-----------------------------------------------------------------------------
(* While calls do not overlap *)

\* The handlers but h stay idle.
OthersIdle(h) == \A g \in Handlers \ {h} : pc[g] = "idle" /\ pc'[g] = "idle"

\* A handler at work is the only one.
LEMMA OnlyOne ==
    ASSUME Typed, Serial, mode = "serial", NEW h \in Handlers, pc[h] # "idle",
           \A g \in Handlers \ {h} : pc'[g] = pc[g]
    PROVE  OthersIdle(h)
BY DEF Serial, Alone, OthersIdle

\* A handler begins only when nobody is at work.
LEMMA FreeIdle ==
    ASSUME mode = "serial", Free
    PROVE  \A g \in Handlers : pc[g] = "idle"
<1> DEFINE busy == {h \in Handlers : pc[h] # "idle"}
<1>1. IsFiniteSet(busy) /\ Cardinality(busy) \in Nat
  BY BackfillAssumption, FS_Subset, FS_CardinalityType
<1>2. Cardinality(busy) < 1
  BY DEF Free, Limit
<1>3. busy = {}
  <2> HIDE DEF busy
  <2>1. Cardinality(busy) = 0
    BY <1>1, <1>2
  <2>2. QED
    BY <1>1, <2>1, FS_EmptySet
<1>4. QED
  BY <1>3

LEMMA StartsAlone ==
    ASSUME Typed, mode = "serial", NEW h \in Handlers, NEW place, NEW what, Start(h, place, what)
    PROVE  OthersIdle(h) /\ pc'[h] = place /\ call'[h] = what
BY FreeIdle DEF Typed, Start, OthersIdle

LEMMA SerialKept ==
    ASSUME mode' = mode, NEW h \in Handlers, OthersIdle(h),
           Knows(h)', GrantedStands', Apart'
    PROVE  Serial'
<1>1. Alone'
  BY DEF Alone, OthersIdle
<1>2. \A g \in Handlers : Knows(g)'
  BY DEF Knows, OthersIdle
<1>3. QED
  BY <1>1, <1>2 DEF Serial

\* Where windows, statuses and chains stay, nothing else is to be shown.
LEMMA StandsStill ==
    ASSUME Serial, mode = "serial", UNCHANGED <<request, window>>
    PROVE  GrantedStands' /\ Apart'
BY DEF Serial, GrantedStands, Apart, request, window

LEMMA SerialInit == Init => Serial
BY DEF Init, Serial, Alone, Knows, GrantedStands, Apart

LEMMA SerialStep == Typed /\ Typed' /\ Accounted /\ Serial /\ [Next]_vars => Serial'
<1> SUFFICES ASSUME Typed, Typed', Accounted, Serial, [Next]_vars, mode' = "serial" PROVE Serial'
  BY DEF Serial
<1>0. mode = "serial" /\ mode' = mode
  BY DEF Next, vars, setting, Create, Initiate, EndChain, Refuse, Load, Select, Grant, Enqueue,
         Find, Bill, Ack, Fail, Write, Submit, Approve, Reject, Decide, Work, Post, Begin, PushOut
<1>a. Alone /\ (\A h \in Handlers : Knows(h)) /\ GrantedStands /\ Apart
  BY <1>0 DEF Serial
<1>b. \A r \in Requests : grants[r] \in Nat
  BY DEF Typed
<1>1. ASSUME NEW h \in Handlers, Create(h)
      PROVE  Serial'
  <2> DEFINE q == call[h].req
  <2>1. OthersIdle(h)
    BY <1>0, <1>1, OnlyOne DEF Typed, Create, Goto, At
  <2>2. q \in Requests /\ status[q] = "none" /\ pc'[h] = "initiate" /\ call'[h] = call[h]
        /\ status' = [status EXCEPT ![q] = "UNDER_REVIEW"] /\ UNCHANGED <<chain, grants, open>>
    BY <1>1, <1>a DEF Typed, Calls, Create, Goto, At, Knows, window
  <2>3. Knows(h)'
    BY <2>2 DEF Knows, Typed, Undecided
  <2>4. GrantedStands' /\ Apart'
    BY <1>a, <1>b, <2>2 DEF GrantedStands, Apart, Typed
  <2>5. QED
    BY <1>0, <2>1, <2>3, <2>4, SerialKept
<1>2. ASSUME NEW h \in Handlers, Initiate(h)
      PROVE  Serial'
  <2> DEFINE q == call[h].req
  <2>1. OthersIdle(h)
    BY <1>0, <1>2, OnlyOne DEF Typed, Initiate, Goto, At
  <2>2. q \in Requests /\ status[q] \in Undecided /\ pc'[h] = "idle"
        /\ chain' = [chain EXCEPT ![q] = "open"] /\ UNCHANGED <<status, grants, open>>
    BY <1>2, <1>a DEF Typed, Calls, Initiate, Goto, At, Knows, window
  <2>3. Knows(h)'
    BY <2>2 DEF Knows
  <2>4. GrantedStands' /\ Apart'
    BY <1>a, <1>b, <2>2 DEF GrantedStands, Apart, Typed, Undecided
  <2>5. QED
    BY <1>0, <2>1, <2>3, <2>4, SerialKept
<1>3. ASSUME NEW h \in Handlers, EndChain(h)
      PROVE  Serial'
  <2> DEFINE q == call[h].req
  <2>1. OthersIdle(h)
    BY <1>0, <1>3, OnlyOne DEF Typed, EndChain, Goto, At
  <2>2. q \in Requests /\ chain[q] = "open" /\ pc'[h] \in {"load", "refuse"} /\ call'[h] = call[h]
        /\ chain' = [chain EXCEPT ![q] = "over"] /\ UNCHANGED <<status, grants, open>>
    BY <1>3, <1>a DEF Typed, Calls, EndChain, Goto, At, Knows, window
  <2>3. Knows(h)'
    BY <1>a, <1>b, <2>2 DEF Knows, Typed, GrantedStands
  <2>4. GrantedStands' /\ Apart'
    BY <1>a, <1>b, <2>2 DEF GrantedStands, Apart, Typed
  <2>5. QED
    BY <1>0, <2>1, <2>3, <2>4, SerialKept
<1>4. ASSUME NEW h \in Handlers, Refuse(h)
      PROVE  Serial'
  <2> DEFINE q == call[h].req
  <2>1. OthersIdle(h)
    BY <1>0, <1>4, OnlyOne DEF Typed, Refuse, Goto, At
  <2>2. q \in Requests /\ (grants[q] = 0 \/ chain[q] = "over") /\ pc'[h] = "idle"
        /\ status' = [status EXCEPT ![q] = "REJECTED"] /\ UNCHANGED <<chain, grants, open>>
    BY <1>4, <1>a DEF Typed, Calls, Refuse, Goto, At, Knows, window
  <2>3. Knows(h)'
    BY <2>2 DEF Knows
  <2>4. GrantedStands' /\ Apart'
    BY <1>a, <1>b, <2>2 DEF GrantedStands, Apart, Typed
  <2>5. QED
    BY <1>0, <2>1, <2>3, <2>4, SerialKept
<1>5. ASSUME NEW h \in Handlers, Load(h)
      PROVE  Serial'
  <2>1. OthersIdle(h)
    BY <1>0, <1>5, OnlyOne DEF Typed, Load, Goto, At
  <2>2. Knows(h)'
    BY <1>5, <1>a DEF Typed, Load, Settled, Goto, At, Knows, window
  <2>3. QED
    BY <1>0, <1>5, <2>1, <2>2, StandsStill, SerialKept DEF Load
<1>6. ASSUME NEW h \in Handlers, Select(h)
      PROVE  Serial'
  <2> DEFINE s == {w \in open : GivesWay(w, call[h].req)}
  <2>1. OthersIdle(h)
    BY <1>0, <1>6, OnlyOne DEF Typed, Select, At
  <2>2. call' = [call EXCEPT ![h] = [call[h] EXCEPT !.seen = s]] /\ pc'[h] = "grant"
        /\ UNCHANGED <<grants, open>> /\ grants[call[h].req] = 0
    BY <1>6, <1>a DEF Typed, Select, window, At, Knows
  <2>3. call'[h].seen = s /\ call'[h].req = call[h].req
    BY <2>2 DEF Typed, Calls
  <2>4. Knows(h)'
    BY <2>2, <2>3 DEF Knows, GivesWay
  <2>5. QED
    BY <1>0, <1>6, <2>1, <2>4, StandsStill, SerialKept DEF Select
<1>7. ASSUME NEW h \in Handlers, Grant(h)
      PROVE  Serial'
  <2> DEFINE q == call[h].req
  <2>1. OthersIdle(h)
    BY <1>0, <1>7, OnlyOne DEF Typed, Grant, At
  <2>2. q \in Requests /\ grants[q] = 0 /\ call[h].seen = {w \in open : GivesWay(w, q)}
        /\ open' = (open \ call[h].seen) \cup {NewWindow(q)} /\ NewWindow(q)[1] = q
        /\ grants' = [grants EXCEPT ![q] = @ + 1] /\ status' = [status EXCEPT ![q] = "APPROVED"]
        /\ UNCHANGED chain /\ pc'[h] \in {"enqueue", "find"}
    BY <1>7, <1>a DEF Typed, Calls, Grant, At, Knows, NewWindow
  <2>3. Knows(h)'
    BY <2>2 DEF Knows
  <2>4. GrantedStands'
    BY <1>a, <1>b, <2>2 DEF GrantedStands, Typed
  <2>5. Apart'
    BY <1>a, <2>2 DEF Apart, GivesWay
  <2>6. QED
    BY <1>0, <2>1, <2>3, <2>4, <2>5, SerialKept
<1>8. ASSUME NEW h \in Handlers, Enqueue(h) \/ Find(h) \/ Bill(h) \/ Ack(h) \/ Fail(h) \/ Write(h)
      PROVE  Serial'
  <2>1. OthersIdle(h)
    BY <1>0, <1>8, OnlyOne DEF Typed, Enqueue, Find, Bill, Ack, Fail, Write, Goto, At
  <2>2. UNCHANGED <<request, window>> /\ pc'[h] \in {"idle", "find", "bill", "ack"}
    BY <1>8 DEF Typed, Enqueue, Find, Bill, Ack, Fail, Write, Goto
  <2>3. Knows(h)'
    BY <2>2 DEF Knows
  <2>4. QED
    BY <1>0, <2>1, <2>2, <2>3, StandsStill, SerialKept
<1>9. ASSUME NEW h \in Handlers, NEW r \in Requests,
             Submit(h, r) \/ Approve(h, r) \/ Reject(h, r) \/ Decide(h, r)
      PROVE  Serial'
  <2>1. PICK place \in Places, who \in {"hand", "chain"} :
            /\ Begin(h, place, About(r, who))
            /\ \/ place = "create" /\ status[r] = "none"
               \/ place \in {"select", "refuse"} /\ status[r] \in Undecided
               \/ place \in {"approved", "rejected"} /\ chain[r] = "open"
    <3>1. CASE Submit(h, r)
      BY <3>1 DEF Submit, Places
    <3>2. CASE Approve(h, r)
      BY <3>2 DEF Approve, Places
    <3>3. CASE Reject(h, r)
      BY <3>3 DEF Reject, Places
    <3>4. CASE Decide(h, r)
      BY <3>4 DEF Decide, Places
    <3>5. QED
      BY <1>9, <3>1, <3>2, <3>3, <3>4
  <2>2. UNCHANGED <<request, window>> /\ Start(h, place, About(r, who)) /\ UNCHANGED <<status, chain, grants>>
    BY <2>1 DEF Begin, request, window
  <2>3. OthersIdle(h) /\ pc'[h] = place /\ call'[h].req = r
    BY <1>0, <2>2, StartsAlone, AboutType
  <2>4. Knows(h)'
    BY <1>a, <1>b, <2>1, <2>2, <2>3 DEF Knows, GrantedStands, Undecided
  <2>5. QED
    BY <1>0, <2>2, <2>3, <2>4, StandsStill, SerialKept
<1>10. ASSUME NEW h \in Handlers, NEW place \in {"find", "write"}, NEW what, Start(h, place, what),
              UNCHANGED <<request, window>>
       PROVE  Serial'
  <2>1. OthersIdle(h) /\ pc'[h] = place
    BY <1>0, <1>10, StartsAlone
  <2>2. Knows(h)'
    BY <2>1 DEF Knows
  <2>3. QED
    BY <1>0, <1>10, <2>1, <2>2, StandsStill, SerialKept
<1>11. ASSUME NEW h \in Handlers, \/ \E r \in Requests : Work(h, r)
                                  \/ \E d \in Days : Post(h, d)
       PROVE  Serial'
  BY <1>10, <1>11 DEF Work, Post, Begin
<1>12. CASE UNCHANGED vars
  BY <1>12 DEF vars, setting, request, window, Serial, Alone, Knows, GrantedStands, Apart
<1>13. ASSUME NEW r \in Requests, PushOut(r)
       PROVE  Serial'
  BY <1>a, <1>13 DEF PushOut, setting, request, window, Serial, Alone, Knows, GrantedStands, Apart
<1>14. QED
  BY <1>1, <1>2, <1>3, <1>4, <1>5, <1>6, <1>7, <1>8, <1>9, <1>11, <1>12, <1>13 DEF Next

-----------------------------------------------------------------------------
(* Approved requests are attended to *)

\* Where nothing that is owed to an approved request is taken away, it stays owed.
LEMMA AttendedKept ==
    ASSUME Attended, faults' = faults, NEW h \in Handlers,
           \A g \in Handlers \ {h} : pc'[g] = pc[g] /\ call'[g] = call[g],
           ~faults => \A r \in Requests :
               /\ invoices[r] > 0 => invoices'[r] > 0
               /\ job'[r] # "failed"
               /\ job'[r] = "done" => invoices'[r] > 0
               /\ job[r] \in {"queued", "running"} => job'[r] \in {"queued", "running"} \/ invoices'[r] > 0
               /\ status'[r] = "APPROVED" =>
                     \/ status[r] = "APPROVED"
                     \/ call'[h].req = r /\ pc'[h] \in {"enqueue", "find", "bill"}
               /\ call[h].req = r /\ pc[h] \in {"enqueue", "find", "bill"} =>
                     \/ invoices'[r] > 0
                     \/ job'[r] \in {"queued", "running"}
                     \/ call'[h].req = r /\ pc'[h] \in {"enqueue", "find", "bill"}
    PROVE  Attended'
<1>1. SUFFICES ASSUME ~faults, NEW r \in Requests, status'[r] = "APPROVED"
               PROVE  \/ invoices'[r] > 0
                      \/ job'[r] \in {"queued", "running"}
                      \/ \E g \in Handlers : call'[g].req = r /\ pc'[g] \in {"enqueue", "find", "bill"}
  BY DEF Attended
<1>2. CASE status[r] = "APPROVED"
  <2>1. CASE invoices[r] > 0 \/ job[r] \in {"queued", "running"}
    BY <1>1, <2>1
  <2>2. CASE \E g \in Handlers : call[g].req = r /\ pc[g] \in {"enqueue", "find", "bill"}
    BY <1>1, <2>2
  <2>3. QED
    BY <1>1, <1>2, <2>1, <2>2 DEF Attended
<1>3. CASE status[r] # "APPROVED"
  BY <1>1, <1>3
<1>4. QED
  BY <1>2, <1>3

LEMMA AttendedInit == Init => Attended
BY DEF Init, Attended

LEMMA AttendedStep == Typed /\ Typed' /\ Accounted /\ Accounted' /\ Attended /\ [Next]_vars => Attended'
<1> SUFFICES ASSUME Typed, Typed', Accounted, Accounted', Attended, [Next]_vars PROVE Attended'
  OBVIOUS
<1>a. \A r \in Requests : invoices[r] \in Nat
  BY DEF Typed
<1>1. ASSUME NEW h \in Handlers, \/ Create(h) \/ Initiate(h) \/ EndChain(h) \/ Refuse(h)
                                 \/ Load(h) \/ Select(h) \/ Write(h)
      PROVE  Attended'
  <2>1. pc[h] \notin {"enqueue", "find", "bill"} /\ faults' = faults /\ UNCHANGED <<invoices, job>>
        /\ \A g \in Handlers \ {h} : pc'[g] = pc[g] /\ call'[g] = call[g]
    BY <1>1 DEF Typed, Create, Initiate, EndChain, Refuse, Load, Select, Write, Goto, At, setting, billing
  <2>2. \A r \in Requests : status'[r] = "APPROVED" => status[r] = "APPROVED"
    BY <1>1 DEF Typed, Create, Initiate, EndChain, Refuse, Load, Select, Write, request
  <2>3. QED
    BY <2>1, <2>2, AttendedKept DEF Attended
<1>2. ASSUME NEW h \in Handlers, Grant(h)
      PROVE  Attended'
  <2>1. /\ pc[h] = "grant" /\ pc'[h] \in {"enqueue", "find"} /\ faults' = faults
        /\ UNCHANGED <<invoices, job>>
        /\ \A g \in Handlers \ {h} : pc'[g] = pc[g] /\ call'[g] = call[g]
    BY <1>2 DEF Typed, Grant, At, setting, billing
  <2>2. call'[h].req = call[h].req
    BY <1>2 DEF Typed, Calls, Grant
  <2>3. \A r \in Requests : status'[r] = "APPROVED" => status[r] = "APPROVED" \/ r = call[h].req
    BY <1>2 DEF Typed, Grant
  <2>4. QED
    BY <2>1, <2>2, <2>3, AttendedKept DEF Attended
<1>3. ASSUME NEW h \in Handlers, Enqueue(h)
      PROVE  Attended'
  <2>1. /\ pc[h] = "enqueue" /\ faults' = faults /\ UNCHANGED <<invoices, status>>
        /\ \A g \in Handlers \ {h} : pc'[g] = pc[g] /\ call'[g] = call[g]
    BY <1>3 DEF Typed, Enqueue, Goto, At, setting, request
  <2>2. ~redis => pc'[h] = "find" /\ call'[h] = call[h] /\ job' = job
    BY <1>3 DEF Typed, Enqueue, Goto, Queued
  <2>3. redis => job'[call[h].req] # "none"
    BY <1>3 DEF Typed, Calls, Enqueue
  <2>4. \A r \in Requests : job'[r] = job[r] \/ job'[r] = "queued"
    BY <1>3 DEF Typed, Enqueue
  <2>5. ~faults => \A r \in Requests : job'[r] # "failed" /\ (job'[r] = "done" => invoices'[r] > 0)
    BY <2>1, <2>4 DEF Attended
  <2>6. call[h].req \in Requests
    BY DEF Typed, Calls
  <2>7. job'[call[h].req] \in {"none", "queued", "running", "done", "failed"}
    BY <2>6 DEF Typed
  <2>8. QED
    BY <2>1, <2>2, <2>3, <2>4, <2>5, <2>6, <2>7, AttendedKept
<1>4. ASSUME NEW h \in Handlers, NEW q \in Requests, Work(h, q)
      PROVE  Attended'
  <2>1. /\ pc[h] = "idle" /\ faults' = faults /\ UNCHANGED <<invoices, status>>
        /\ \A g \in Handlers \ {h} : pc'[g] = pc[g] /\ call'[g] = call[g]
        /\ \A r \in Requests : job'[r] = job[r] \/ job'[r] = "running"
    BY <1>4 DEF Typed, Work, Start, setting, request
  <2>2. QED
    BY <2>1, AttendedKept DEF Attended
<1>5. ASSUME NEW h \in Handlers, Find(h)
      PROVE  Attended'
  <2>1. /\ faults' = faults /\ UNCHANGED <<invoices, status, job>> /\ pc[h] = "find"
        /\ \A g \in Handlers \ {h} : pc'[g] = pc[g] /\ call'[g] = call[g]
    BY <1>5 DEF Typed, Find, Goto, setting, request, billing, At
  <2>2. invoices[call[h].req] > 0 \/ (pc'[h] = "bill" /\ call'[h] = call[h])
    BY <1>5 DEF Typed, Find, Goto, Billed
  <2>3. ~faults => \A r \in Requests :
            /\ job'[r] # "failed" /\ (job'[r] = "done" => invoices'[r] > 0)
            /\ call[h].req = r => invoices'[r] > 0 \/ (call'[h].req = r /\ pc'[h] = "bill")
    BY <2>1, <2>2 DEF Attended
  <2>4. QED
    BY <2>1, <2>3, AttendedKept
<1>6. ASSUME NEW h \in Handlers, Bill(h)
      PROVE  Attended'
  <2>1. /\ faults' = faults /\ UNCHANGED <<status, job>> /\ call[h].req \in Requests
        /\ \A g \in Handlers \ {h} : pc'[g] = pc[g] /\ call'[g] = call[g]
        /\ invoices' = [invoices EXCEPT ![call[h].req] = @ + 1]
    BY <1>6 DEF Typed, Calls, Bill, Goto, setting, request
  <2>2. \A r \in Requests : (invoices[r] > 0 \/ r = call[h].req) => invoices'[r] > 0
    BY <1>a, <2>1 DEF Typed
  <2>3. QED
    BY <2>1, <2>2, AttendedKept DEF Attended
<1>7. ASSUME NEW h \in Handlers, Ack(h)
      PROVE  Attended'
  <2>1. /\ faults' = faults /\ UNCHANGED <<status, invoices>> /\ pc[h] = "ack"
        /\ \A g \in Handlers \ {h} : pc'[g] = pc[g] /\ call'[g] = call[g]
        /\ \A r \in Requests : job'[r] = job[r] \/ (job'[r] = "done" /\ r = call[h].req)
    BY <1>7 DEF Typed, Ack, Goto, setting, request, At
  <2>2. invoices[call[h].req] > 0
    BY <2>1 DEF Accounted, Placed
  <2>3. QED
    BY <2>1, <2>2, AttendedKept DEF Attended
<1>8. ASSUME NEW h \in Handlers, Fail(h)
      PROVE  Attended'
  BY <1>8 DEF Fail, Attended, setting
<1>9. ASSUME NEW h \in Handlers, NEW place, NEW what, Begin(h, place, what)
      PROVE  Attended'
  <2>1. /\ pc[h] = "idle" /\ faults' = faults /\ UNCHANGED <<invoices, status, job>>
        /\ \A g \in Handlers \ {h} : pc'[g] = pc[g] /\ call'[g] = call[g]
    BY <1>9 DEF Typed, Begin, Start, setting, request, billing
  <2>2. QED
    BY <2>1, AttendedKept DEF Attended
<1>10. ASSUME NEW h \in Handlers,
              \/ \E r \in Requests : Submit(h, r) \/ Approve(h, r) \/ Reject(h, r) \/ Decide(h, r)
              \/ \E d \in Days : Post(h, d)
       PROVE  Attended'
  <2>1. \E place, what : Begin(h, place, what)
    <3>1. ASSUME NEW r \in Requests, Submit(h, r) \/ Approve(h, r) \/ Reject(h, r) \/ Decide(h, r)
          PROVE  \E place, what : Begin(h, place, what)
      BY <3>1, Zenon DEF Submit, Approve, Reject, Decide
    <3>2. ASSUME NEW d \in Days, Post(h, d)
          PROVE  \E place, what : Begin(h, place, what)
      BY <3>2, Zenon DEF Post
    <3>3. QED
      BY <1>10, <3>1, <3>2
  <2>2. QED
    BY <1>9, <2>1
<1>11. CASE UNCHANGED vars
  BY <1>11 DEF vars, setting, request, billing, Attended
<1>12. ASSUME NEW r \in Requests, PushOut(r)
       PROVE  Attended'
  BY <1>12 DEF PushOut, setting, request, Attended
<1>13. QED
  BY <1>1, <1>2, <1>3, <1>4, <1>5, <1>6, <1>7, <1>8, <1>10, <1>11, <1>12 DEF Next

-----------------------------------------------------------------------------
(* Records are posted where a window allows it *)

LEMMA CoveredInit == Init => Covered
BY DEF Init, Covered

\* A window found by the guard belongs to a granted request whose days include the day.
LEMMA FoundWindow ==
    ASSUME Typed, NEW d \in Days, NEW r \in Usable(d)
    PROVE  /\ r \in Requests /\ grants[r] > 0 /\ d \in RangeOf[r]
           /\ \E w \in open : d \in RangeOf[w[1]]
BY DEF Usable, Typed, Windows

LEMMA CoveredStep == Typed /\ Typed' /\ Serial /\ Serial' /\ Covered /\ [Next]_vars => Covered'
<1> SUFFICES ASSUME Typed, Typed', Serial, Serial', Covered, [Next]_vars PROVE Covered'
  OBVIOUS
<1>a. \A r \in Requests : grants[r] \in Nat
  BY DEF Typed
<1>b. mode' = mode
  BY DEF Next, vars, setting, Create, Initiate, EndChain, Refuse, Load, Select, Grant, Enqueue,
         Find, Bill, Ack, Fail, Write, Submit, Approve, Reject, Decide, Work, Post, Begin, PushOut
<1>1. ASSUME NEW h \in Handlers, NEW d \in Days, Post(h, d)
      PROVE  Covered'
  <2> DEFINE what(r) == [NoCall EXCEPT !.by = "poster", !.day = d, !.via = {r}]
  <2>1. PICK r \in Usable(d) : Begin(h, "write", what(r))
    BY <1>1 DEF Post
  <2>2. r \in Requests /\ grants[r] > 0 /\ d \in RangeOf[r] /\ \E w \in open : d \in RangeOf[w[1]]
    BY FoundWindow
  <2>3. what(r).day = d /\ what(r).via = {r}
    BY <2>2, PosterType
  <2> HIDE DEF what
  <2>4. /\ call'[h] = what(r) /\ UNCHANGED <<grants, open>>
        /\ \A g \in Handlers \ {h} : pc'[g] = pc[g] /\ call'[g] = call[g]
    BY <2>1 DEF Typed, Begin, Start, window
  <2>5. QED
    BY <1>b, <2>2, <2>3, <2>4 DEF Covered
<1>2. ASSUME NEW h \in Handlers, Grant(h)
      PROVE  Covered'
  <2>0. call[h].req \in Requests
    BY DEF Typed, Calls
  <2>1. /\ pc'[h] # "write" /\ pc'[h] # "idle"
        /\ \A g \in Handlers \ {h} : pc'[g] = pc[g] /\ call'[g] = call[g]
        /\ grants' = [grants EXCEPT ![call[h].req] = @ + 1]
    BY <1>2 DEF Typed, Grant
  <2>2. \A r \in Requests : grants[r] > 0 => grants'[r] > 0
    BY <1>a, <2>0, <2>1 DEF Typed
  <2>3. \A g \in Handlers : call[g].via \subseteq Requests
    BY DEF Typed, Calls
  <2>4. mode = "serial" => \A g \in Handlers : pc'[g] # "write"
    BY <1>b, <2>1 DEF Serial, Alone
  <2>5. QED
    BY <1>b, <2>1, <2>2, <2>3, <2>4 DEF Covered
<1>3. ASSUME NEW h \in Handlers, pc'[h] # "write", UNCHANGED <<grants, open>>,
             \A g \in Handlers \ {h} : pc'[g] = pc[g] /\ call'[g] = call[g]
      PROVE  Covered'
  BY <1>b, <1>3 DEF Covered
<1>4. ASSUME NEW h \in Handlers, \/ Create(h) \/ Initiate(h) \/ EndChain(h) \/ Refuse(h)
                                 \/ Load(h) \/ Select(h) \/ Enqueue(h) \/ Find(h) \/ Bill(h)
                                 \/ Ack(h) \/ Fail(h) \/ Write(h)
      PROVE  Covered'
  <2>1. UNCHANGED <<grants, open>> /\ pc'[h] # "write"
        /\ \A g \in Handlers \ {h} : pc'[g] = pc[g] /\ call'[g] = call[g]
    BY <1>4 DEF Typed, window, Goto, Create, Initiate, EndChain, Refuse, Load, Select, Enqueue,
                Find, Bill, Ack, Fail, Write
  <2>2. QED
    BY <1>3, <2>1
<1>5. ASSUME NEW h \in Handlers, NEW r \in Requests,
             Submit(h, r) \/ Approve(h, r) \/ Reject(h, r) \/ Decide(h, r) \/ Work(h, r)
      PROVE  Covered'
  <2>1. UNCHANGED <<grants, open>> /\ pc'[h] # "write"
        /\ \A g \in Handlers \ {h} : pc'[g] = pc[g] /\ call'[g] = call[g]
    BY <1>5 DEF Typed, window, Begin, Start, Submit, Approve, Reject, Decide, Work
  <2>2. QED
    BY <1>3, <2>1
<1>6. CASE UNCHANGED vars
  BY <1>6 DEF vars, setting, window, Covered
<1>7. ASSUME NEW r \in Requests, PushOut(r)
      PROVE  Covered'
  BY <1>7 DEF PushOut, setting, window, Covered
<1>8. QED
  BY <1>1, <1>2, <1>4, <1>5, <1>6, <1>7 DEF Next

\* What a step posts is what a writer has found a window for, and while calls do
\* not overlap no other window covers the day.
LEMMA PostedStep == Typed /\ Serial /\ Covered /\ [Next]_vars =>
    (posted' # posted =>
         /\ \A r \in posted'.via : grants[r] > 0 /\ posted'.day \in RangeOf[r]
         /\ mode = "serial" =>
               Cardinality({w \in open : posted'.day \in RangeOf[w[1]]}) = 1)
<1> SUFFICES ASSUME Typed, Serial, Covered, [Next]_vars, posted' # posted
             PROVE  /\ \A r \in posted'.via : grants[r] > 0 /\ posted'.day \in RangeOf[r]
                    /\ mode = "serial" =>
                          Cardinality({w \in open : posted'.day \in RangeOf[w[1]]}) = 1
  OBVIOUS
<1>1. PICK h \in Handlers : Write(h)
  BY DEF Next, vars, Create, Initiate, EndChain, Refuse, Load, Select, Grant, Enqueue,
         Find, Bill, Ack, Fail, Submit, Approve, Reject, Decide, Work, Post, Begin, PushOut
<1>2. posted'.day = call[h].day /\ posted'.via = call[h].via /\ pc[h] = "write"
  BY <1>1 DEF Write, At
<1>3. \A r \in posted'.via : grants[r] > 0 /\ posted'.day \in RangeOf[r]
  BY <1>2 DEF Covered
<1>4. ASSUME mode = "serial"
      PROVE  Cardinality({w \in open : posted'.day \in RangeOf[w[1]]}) = 1
  <2>1. PICK w \in open : posted'.day \in RangeOf[w[1]]
    BY <1>2, <1>4 DEF Covered
  <2>2. \A v \in open : posted'.day \in RangeOf[v[1]] => v = w
    BY <1>4, <2>1 DEF Serial, Apart
  <2>3. {v \in open : posted'.day \in RangeOf[v[1]]} = {w}
    BY <2>1, <2>2
  <2>4. QED
    BY <2>3, FS_Singleton
<1>5. QED
  BY <1>3, <1>4

-----------------------------------------------------------------------------
(* Theorems *)

Inv == Typed /\ Accounted /\ Serial /\ Attended /\ Covered

LEMMA InvAlways == Spec => []Inv
<1>1. Init => Inv
  BY TypedInit, AccountedInit, SerialInit, AttendedInit, CoveredInit DEF Inv
<1>2. Inv /\ [Next]_vars => Inv'
  BY TypedStep, AccountedStep, SerialStep, AttendedStep, CoveredStep DEF Inv
<1>3. QED
  BY <1>1, <1>2, PTL DEF Spec

\* However approvals by hand, workflows, queued jobs, retries and deaths overlap, a
\* student is billed for a request no more often than it was granted, and once more
\* only each time its last invoice came to lie beyond the rows a retried job reads;
\* while calls do not overlap a request is granted once.
THEOREM BilledPerGrant == Spec => []BilledOnce
<1>1. Inv => BilledOnce
  <2>1. SUFFICES ASSUME Inv, NEW r \in Requests
                 PROVE  invoices[r] <= grants[r] + pushes[r] /\ (mode = "serial" => grants[r] <= 1)
    BY DEF BilledOnce
  <2>2. invoices[r] \in Nat /\ grants[r] \in Nat /\ Cardinality(Claimants(r)) \in Nat /\ Owed(r) \in Nat
        /\ pushes[r] \in Nat
        /\ invoices[r] + Cardinality(Claimants(r)) + Owed(r) <= grants[r] + pushes[r]
    BY <2>1, ClaimantsFinite DEF Inv, Typed, Accounted, Owed
  <2>3. mode = "serial" => (grants[r] > 0 => grants[r] = 1)
    BY <2>1 DEF Inv, Serial, GrantedStands
  <2>4. QED
    BY <2>2, <2>3
<1>2. QED
  BY <1>1, InvAlways, PTL

\* Where nothing fails, an approved request nobody works on has its invoice, or a
\* job that will make it, whoever approved it and whether there is a queue or not.
THEOREM ApprovedAttended == Spec => []ApprovedIsBilled
<1>1. Inv => ApprovedIsBilled
  <2>1. SUFFICES ASSUME Inv, NEW r \in Requests, ~faults, status[r] = "APPROVED", ~Busy(r)
                 PROVE  invoices[r] > 0 \/ job[r] \in {"queued", "running"}
    BY DEF ApprovedIsBilled
  <2>2. ASSUME NEW h \in Handlers, call[h].req = r, pc[h] \in {"enqueue", "find", "bill"}
        PROVE  FALSE
    BY <2>1, <2>2 DEF Busy, Inv, Accounted, Placed
  <2>3. QED
    BY <2>1, <2>2 DEF Inv, Attended
<1>2. QED
  BY <1>1, InvAlways, PTL

\* Every record posted as backfilled names a request that was granted and whose days
\* include the record's; and while calls do not overlap exactly one active window
\* covers the day.
THEOREM PostedInsideWindow == Spec => PostedWhereAllowed
BY InvAlways, PostedStep, PTL DEF Spec, Inv, PostedWhereAllowed
=============================================================================
