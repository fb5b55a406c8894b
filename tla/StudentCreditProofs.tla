------------------------- MODULE StudentCreditProofs ------------------------
(***************************************************************************)
(* Proofs about StudentCredit: a student's refunds, transfers, charges and *)
(* awards on one ledger, for any amounts, any numbers of requests, awards  *)
(* and handlers, any overlap and any number of completions of a chain.     *)
(***************************************************************************)
EXTENDS StudentCredit, SumTheorems, TLAPS

-----------------------------------------------------------------------------
(* The ledger and what may be refunded. *)

\* What may be refunded is never more than the credit, whatever the totals are.
LEMMA RefundableLemma ==
    ASSUME NEW l \in Totals, NEW unpaid \in Nat, NEW pending \in Nat
    PROVE  MaxRefundable(l, unpaid, pending) <= CreditBalance(l)
BY DEF Totals, MaxRefundable, CreditBalance, Balance, CashTransferable, CashApplied,
       ChargesAfterScholarship, ScholarshipApplied, NetCharges, AtLeast0, Lesser

\* A refund within that bound leaves a credit, not a debt.
LEMMA RefundKeepsCredit ==
    ASSUME NEW l \in Totals, NEW unpaid \in Nat, NEW pending \in Nat,
           NEW amount \in Nat, amount <= MaxRefundable(l, unpaid, pending),
           CreditBalance(l) > 0
    PROVE  Balance(l) + amount <= 0
<1>1. amount <= CreditBalance(l)
  BY RefundableLemma DEF MaxRefundable, CreditBalance, Balance, CashTransferable, CashApplied,
       ChargesAfterScholarship, ScholarshipApplied, NetCharges, AtLeast0, Lesser, Totals
<1>2. QED
  BY <1>1 DEF CreditBalance, Balance, AtLeast0, Totals

\* The totals of the ledger stay amounts, and every handler works on a request.
Amounts == ledger \in Totals /\ job \in [Procs -> Requests]

LEMMA AmountsInit == Init => Amounts
<1>1. (CHOOSE r \in Requests : TRUE) \in Requests
  BY ExcessAssumption
<1>2. QED
  BY <1>1, ExcessAssumption DEF Init, Amounts

LEMMA AmountsStep == Amounts /\ [Next]_vars => Amounts'
<1>1. SUFFICES ASSUME Amounts, [Next]_vars PROVE Amounts'
  OBVIOUS
<1> USE DEF Amounts
<1>2. ASSUME NEW p \in Procs, NEW r \in Requests, Ask(p, r) \/ Approved(p, r)
      PROVE  Amounts'
  BY <1>1, <1>2 DEF Ask, Approved
<1>3. ASSUME NEW r \in Requests, Rejected(r)
      PROVE  Amounts'
  BY <1>1, <1>3 DEF Rejected
<1>4. ASSUME NEW p \in Procs, Create(p) \/ Validate(p) \/ Die(p)
      PROVE  Amounts'
  BY <1>1, <1>4 DEF Create, Validate, Die
<1>5. ASSUME NEW p \in Procs, Refund(p)
      PROVE  Amounts'
  BY <1>1, <1>5, ExcessAssumption DEF Refund, RefundOut, Totals
<1>6. ASSUME NEW p \in Procs, TransferPair(p)
      PROVE  Amounts'
  BY <1>1, <1>6, ExcessAssumption DEF TransferPair, Totals
<1>7. CASE PostCharge
  BY <1>1, <1>7, ExcessAssumption DEF PostCharge, Totals
<1>8. CASE UNCHANGED vars
  BY <1>1, <1>8 DEF vars
<1>9. QED
  BY <1>1, <1>2, <1>3, <1>4, <1>5, <1>6, <1>7, <1>8 DEF Next, Step

-----------------------------------------------------------------------------
(* What is free, and what the requests under way may still take. *)

\* What is free on a ledger: cash that pays no charge, has not left the account and
\* is not reserved for a payment plan; a debt where that is negative.
Free(l) == l.cash - CashApplied(l) - l.refunds - l.transfers - Unpaid

\* A request passes a validation exactly when it is free beside what waits.
LEMMA AllowedIsFree ==
    ASSUME NEW l \in Totals, NEW amount \in Nat \ {0}, NEW pending \in Nat
    PROVE  amount <= MaxRefundable(l, Unpaid, pending) <=> amount + pending <= Free(l)
BY ExcessAssumption DEF Totals, MaxRefundable, Free, CashTransferable, CashApplied,
       ChargesAfterScholarship, ScholarshipApplied, NetCharges, AtLeast0, Lesser

\* What is free is a number, and an award credited makes it no smaller.
LEMMA AwardFrees ==
    ASSUME NEW l \in Totals, NEW amount \in Nat
    PROVE  /\ Free(l) \in Int
           /\ Free(l) <= Free([l EXCEPT !.scholarship = @ + amount])
<1> DEFINE m == [l EXCEPT !.scholarship = @ + amount]
<1>1. /\ m \in Totals /\ m.charges = l.charges /\ m.cash = l.cash /\ m.waivers = l.waivers
      /\ m.refunds = l.refunds /\ m.transfers = l.transfers
      /\ m.scholarship = l.scholarship + amount
  BY DEF Totals
<1> HIDE DEF m
<1>2. Free(l) \in Int /\ Free(l) <= Free(m)
  BY <1>1, ExcessAssumption DEF Totals, Free, CashApplied,
       ChargesAfterScholarship, ScholarshipApplied, NetCharges, AtLeast0, Lesser
<1>3. QED
  BY <1>2 DEF m

\* A refund takes what it is worth from what is free.
LEMMA RefundTakes ==
    ASSUME NEW l \in Totals, NEW amount \in Nat
    PROVE  Free([l EXCEPT !.refunds = @ + amount]) = Free(l) - amount
<1> DEFINE m == [l EXCEPT !.refunds = @ + amount]
<1>1. /\ m.charges = l.charges /\ m.cash = l.cash /\ m.waivers = l.waivers
      /\ m.refunds = l.refunds + amount /\ m.transfers = l.transfers
      /\ m.scholarship = l.scholarship
  BY DEF Totals
<1> HIDE DEF m
<1>2. Free(m) = Free(l) - amount
  BY <1>1, ExcessAssumption DEF Totals, Free, CashApplied,
       ChargesAfterScholarship, ScholarshipApplied, NetCharges, AtLeast0, Lesser
<1>3. QED
  BY <1>2 DEF m

\* Sums of requested amounts are amounts, and a part sums up to no more.
LEMMA Sums ==
    ASSUME NEW S \in SUBSET Requests
    PROVE  /\ IsFiniteSet(S) /\ SumFunctionOnSet(Amount, S) \in Nat
           /\ \A T \in SUBSET S : SumFunctionOnSet(Amount, T) <= SumFunctionOnSet(Amount, S)
           /\ \A r \in S : SumFunctionOnSet(Amount, S)
                                = Amount[r] + SumFunctionOnSet(Amount, S \ {r})
<1>1. IsFiniteSet(S) /\ \A r \in S : Amount[r] \in Nat
  BY ExcessAssumption, FS_Subset
<1>2. SumFunctionOnSet(Amount, S) \in Nat
  BY <1>1, SumNat
<1>3. ASSUME NEW T \in SUBSET S
      PROVE  SumFunctionOnSet(Amount, T) <= SumFunctionOnSet(Amount, S)
  BY <1>1, SumSubset
<1>4. ASSUME NEW r \in S
      PROVE  SumFunctionOnSet(Amount, S) = Amount[r] + SumFunctionOnSet(Amount, S \ {r})
  <2>1. \A y \in S : Amount[y] \in Int
    BY <1>1
  <2>2. QED
    BY <1>1, <2>1, SumSplit
<1>5. QED
  BY <1>1, <1>2, <1>3, <1>4

\* Requests that wait for their chain or for their refund, and those among them that
\* passed the second validation.
Pending(R) == {r \in Requests \ R : status[r] = "PENDING"}
Validated == {r \in Pending({}) : \E p \in Procs : pc[p] = "execute" /\ job[p] = r}

\* Where requests and handlers stand.  Every request is asked for once, so nobody else
\* works on one that is about to be stored; no transfer is ever posted, as the
\* reference of a stored request is taken.
Stages ==
    /\ pc \in [Procs -> Idle \cup {"create", "validate", "execute"}]
    /\ DOMAIN status = Requests /\ DOMAIN chain = Requests
    /\ \A p \in Procs : pc[p] = "create" =>
          /\ status[job[p]] = "ABSENT" /\ chain[job[p]] = "none"
          /\ \A q \in Procs \ {p} : pc[q] # "idle" => job[q] # job[p]
    /\ \A p \in Procs : pc[p] \in {"validate", "execute"} =>
          status[job[p]] # "ABSENT" /\ chain[job[p]] = "approved"
    /\ \A r \in Requests : chain[r] = "open" => status[r] = "PENDING"
    /\ \A r \in Requests : status[r] = "ABSENT" => chain[r] = "none"
    /\ posted = {}

LEMMA StagesInit == Init => Stages
BY DEF Init, Stages, Idle

LEMMA StagesStep == Amounts /\ Stages /\ [Next]_vars => Stages'
<1>1. SUFFICES ASSUME Amounts, Stages, [Next]_vars PROVE Stages'
  OBVIOUS
<1> USE DEF Amounts, Stages
<1>2. ASSUME NEW p \in Procs, NEW r \in Requests, Ask(p, r)
      PROVE  Stages'
  BY <1>1, <1>2 DEF Ask, May, Goto, Idle
<1>3. ASSUME NEW p \in Procs, NEW r \in Requests, Approved(p, r)
      PROVE  Stages'
  BY <1>1, <1>3 DEF Approved, May, Goto, Idle
<1>4. ASSUME NEW r \in Requests, Rejected(r)
      PROVE  Stages'
  BY <1>1, <1>4 DEF Rejected
<1>5. ASSUME NEW p \in Procs, Create(p)
      PROVE  Stages'
  BY <1>1, <1>5 DEF Create, Goto, Idle
<1>6. ASSUME NEW p \in Procs, Validate(p)
      PROVE  Stages'
  BY <1>1, <1>6 DEF Validate, Goto, Idle
<1>7. ASSUME NEW p \in Procs, Refund(p)
      PROVE  Stages'
  BY <1>1, <1>7 DEF Refund, Goto, Idle
<1>8. ASSUME NEW p \in Procs, TransferPair(p)
      PROVE  Stages'
  BY <1>1, <1>8 DEF TransferPair, ReferenceTaken, Goto, Idle
<1>9. ASSUME NEW p \in Procs, Die(p)
      PROVE  Stages'
  BY <1>1, <1>9 DEF Die, Goto, Idle
<1>10. CASE PostCharge
  BY <1>1, <1>10 DEF PostCharge
<1>11. CASE UNCHANGED vars
  BY <1>1, <1>11 DEF vars
<1>12. QED
  BY <1>1, <1>2, <1>3, <1>4, <1>5, <1>6, <1>7, <1>8, <1>9, <1>10, <1>11 DEF Next, Step

\* While nothing is charged meanwhile, what was validated is still free; what left the
\* account was.
ValidatedIsFree ==
    NoCharge =>
        /\ Validated # {} => SumFunctionOnSet(Amount, Validated) <= Free(ledger)
        /\ \/ ledger.refunds = Opening.refunds /\ ledger.transfers = Opening.transfers
           \/ Free(ledger) >= 0 /\ ledger.refunds >= Opening.refunds
                                /\ ledger.transfers = Opening.transfers

\* It stays where nothing is taken and no request passes a validation.
LEMMA ValidatedKept ==
    ASSUME Amounts, Amounts', ValidatedIsFree, NoCharge' => NoCharge,
           Validated' \subseteq Validated, Free(ledger) <= Free(ledger'),
           ledger'.refunds = ledger.refunds, ledger'.transfers = ledger.transfers
    PROVE  ValidatedIsFree'
<1>1. SUFFICES ASSUME NoCharge' PROVE ValidatedIsFree'
  BY DEF ValidatedIsFree
<1>2. Free(ledger) \in Int /\ Free(ledger') \in Int
  BY AwardFrees DEF Amounts
<1>3. Validated \in SUBSET Requests
  BY DEF Validated, Pending
<1>4. /\ SumFunctionOnSet(Amount, Validated) \in Nat /\ SumFunctionOnSet(Amount, Validated') \in Nat
      /\ SumFunctionOnSet(Amount, Validated') <= SumFunctionOnSet(Amount, Validated)
  BY <1>3, Sums
<1>5. Validated' # {} => SumFunctionOnSet(Amount, Validated') <= Free(ledger')
  BY <1>1, <1>2, <1>4 DEF ValidatedIsFree
<1>6. QED
  BY <1>1, <1>2, <1>5 DEF ValidatedIsFree

LEMMA ValidatedInit == Init => ValidatedIsFree
BY ExcessAssumption DEF Init, ValidatedIsFree, Validated, Pending

LEMMA ValidatedStep == Amounts /\ Stages /\ ValidatedIsFree /\ [Next]_vars => ValidatedIsFree'
<1>1. SUFFICES ASSUME Amounts, Stages, ValidatedIsFree, [Next]_vars PROVE ValidatedIsFree'
  OBVIOUS
<1>2. Amounts' /\ Free(ledger) \in Int
  BY <1>1, AmountsStep, AwardFrees DEF Amounts
<1>3. ASSUME UNCHANGED ledger, Validated' \subseteq Validated
      PROVE  ValidatedIsFree'
  <2>1. Free(ledger) <= Free(ledger')
    BY <1>2, <1>3
  <2>2. NoCharge' => NoCharge
    BY <1>3 DEF NoCharge
  <2>3. QED
    BY <1>1, <1>2, <1>3, <2>1, <2>2, ValidatedKept
<1>4. ASSUME NEW p \in Procs, NEW r \in Requests, Ask(p, r) \/ Approved(p, r)
      PROVE  ValidatedIsFree'
  <2>1. Validated' \subseteq Validated
    BY <1>1, <1>4 DEF Ask, Approved, May, Goto, Validated, Pending, Stages, Amounts
  <2>2. QED
    BY <1>3, <1>4, <2>1 DEF Ask, Approved
<1>5. ASSUME NEW r \in Requests, Rejected(r)
      PROVE  ValidatedIsFree'
  <2>1. Validated' \subseteq Validated
    BY <1>1, <1>5 DEF Rejected, Validated, Pending, Stages
  <2>2. QED
    BY <1>3, <1>5, <2>1 DEF Rejected
<1>6. ASSUME NEW p \in Procs, Create(p)
      PROVE  ValidatedIsFree'
  <2>1. Validated' \subseteq Validated
    BY <1>1, <1>6 DEF Create, Goto, Validated, Pending, Stages, Amounts
  <2>2. QED
    BY <1>3, <1>6, <2>1 DEF Create
<1>7. ASSUME NEW p \in Procs, Validate(p)
      PROVE  ValidatedIsFree'
  <2> DEFINE r == job[p]
  <2>1. r \in Requests /\ UNCHANGED <<status, ledger, job>>
    BY <1>1, <1>7 DEF Validate, Amounts
  <2>2. Validated' \subseteq Validated \cup {r} /\ Validated' \subseteq Pending({})
    BY <1>1, <1>7 DEF Validate, Goto, Validated, Pending, Stages
  <2>3. CASE r \notin Validated'
    BY <1>3, <2>1, <2>2, <2>3
  <2>4. CASE r \in Validated'
    <3>1. r \in Pending({}) /\ Pending({}) \ {r} = Pending({r}) /\ Pending({}) \in SUBSET Requests
      BY <2>2, <2>4 DEF Pending
    <3>2. CASE r \in Validated
      BY <1>3, <2>1, <2>2, <3>2
    <3>3. CASE r \notin Validated
      <4>1. Allowed(r, {r})
        BY <1>1, <1>7, <2>1, <2>4, <3>3 DEF Validate, Goto, Validated, Pending, Stages
      <4>2. PendingExcept({r}) = SumFunctionOnSet(Amount, Pending({r}))
        BY DEF PendingExcept, Pending
      <4>3. /\ SumFunctionOnSet(Amount, Pending({r})) \in Nat
            /\ SumFunctionOnSet(Amount, Pending({})) = Amount[r] + SumFunctionOnSet(Amount, Pending({r}))
            /\ SumFunctionOnSet(Amount, Validated') <= SumFunctionOnSet(Amount, Pending({}))
            /\ SumFunctionOnSet(Amount, Validated') \in Nat
            /\ SumFunctionOnSet(Amount, Pending({})) \in Nat
        BY <2>2, <3>1, Sums
      <4>4. Amount[r] \in Nat \ {0} /\ ledger \in Totals
        BY <1>1, <2>1, ExcessAssumption DEF Amounts
      <4>5. Amount[r] + SumFunctionOnSet(Amount, Pending({r})) <= Free(ledger)
        BY <4>1, <4>2, <4>3, <4>4, AllowedIsFree DEF Allowed
      <4>6. SumFunctionOnSet(Amount, Validated') <= Free(ledger)
        BY <1>2, <4>3, <4>5
      <4>7. QED
        BY <1>1, <2>1, <4>6 DEF ValidatedIsFree, NoCharge
    <3>4. QED
      BY <3>2, <3>3
  <2>5. QED
    BY <2>3, <2>4
<1>8. ASSUME NEW p \in Procs, Refund(p)
      PROVE  ValidatedIsFree'
  <2> DEFINE r == job[p]
  <2>1. CASE status[r] # "PENDING"
    <3>1. Validated' \subseteq Validated
      BY <1>1, <1>8, <2>1 DEF Refund, Goto, Validated, Pending, Stages
    <3>2. QED
      BY <1>3, <1>8, <2>1, <3>1 DEF Refund
  <2>2. CASE status[r] = "PENDING"
    <3>1. /\ r \in Requests /\ pc[p] = "execute" /\ job' = job
          /\ status' = [status EXCEPT ![r] = "COMPLETED"]
          /\ ledger' = [ledger EXCEPT !.refunds = @ + Amount[r]]
      BY <1>1, <1>8, <2>2 DEF Refund, RefundOut, Amounts
    <3>2. r \in Validated /\ Validated \in SUBSET Requests
      BY <2>2, <3>1 DEF Validated, Pending
    <3>3. Validated' \subseteq Validated \ {r}
      BY <1>1, <1>8, <3>1 DEF Refund, Goto, Validated, Pending, Stages
    <3>4. /\ SumFunctionOnSet(Amount, Validated) = Amount[r] + SumFunctionOnSet(Amount, Validated \ {r})
          /\ SumFunctionOnSet(Amount, Validated \ {r}) \in Nat
          /\ SumFunctionOnSet(Amount, Validated') \in Nat
          /\ SumFunctionOnSet(Amount, Validated') <= SumFunctionOnSet(Amount, Validated \ {r})
      <4>1. Validated \ {r} \in SUBSET Requests
        BY <3>2
      <4>2. QED
        BY <3>2, <3>3, <4>1, Sums
    <3>5. Amount[r] \in Nat /\ ledger \in Totals /\ Opening \in Totals
      BY <1>1, <3>1, ExcessAssumption DEF Amounts
    <3>6. Free(ledger') = Free(ledger) - Amount[r]
      BY <3>1, <3>5, RefundTakes
    <3>7. /\ ledger'.refunds = ledger.refunds + Amount[r]
          /\ ledger'.transfers = ledger.transfers /\ ledger'.charges = ledger.charges
          /\ ledger.refunds \in Nat /\ Opening.refunds \in Nat
      BY <3>1, <3>5 DEF Totals
    <3>8. SUFFICES ASSUME NoCharge' PROVE ValidatedIsFree'
      BY DEF ValidatedIsFree
    <3>9. NoCharge
      BY <3>7, <3>8 DEF NoCharge
    <3>10. SumFunctionOnSet(Amount, Validated) <= Free(ledger)
      BY <1>1, <3>2, <3>9 DEF ValidatedIsFree
    <3>11. ledger.refunds >= Opening.refunds /\ ledger.transfers = Opening.transfers
      BY <1>1, <3>7, <3>9 DEF ValidatedIsFree
    <3>12. SumFunctionOnSet(Amount, Validated') <= Free(ledger') /\ Free(ledger') >= 0
      BY <1>2, <3>4, <3>5, <3>6, <3>10
    <3>13. ledger'.refunds >= Opening.refunds /\ ledger'.transfers = Opening.transfers
      BY <3>5, <3>7, <3>11
    <3>14. QED
      BY <3>12, <3>13 DEF ValidatedIsFree
  <2>3. QED
    BY <2>1, <2>2
<1>9. ASSUME NEW p \in Procs, TransferPair(p)
      PROVE  ValidatedIsFree'
  <2>1. UNCHANGED <<status, ledger>>
    BY <1>1, <1>9 DEF TransferPair, ReferenceTaken, Stages
  <2>2. Validated' \subseteq Validated
    BY <1>1, <1>9, <2>1 DEF TransferPair, Goto, Validated, Pending, Stages
  <2>3. QED
    BY <1>3, <2>1, <2>2
<1>10. ASSUME NEW p \in Procs, Die(p)
      PROVE  ValidatedIsFree'
  <2>1. Validated' \subseteq Validated
    BY <1>1, <1>10 DEF Die, Goto, Validated, Pending, Stages
  <2>2. QED
    BY <1>3, <1>10, <2>1 DEF Die
<1>11. CASE PostCharge
  <2>1. ~NoCharge'
    BY <1>1, <1>11, ExcessAssumption DEF PostCharge, NoCharge, Amounts, Totals
  <2>2. QED
    BY <2>1 DEF ValidatedIsFree
<1>12. CASE UNCHANGED vars
  <2>1. Validated' \subseteq Validated
    BY <1>12 DEF vars, Validated, Pending
  <2>2. QED
    BY <1>3, <1>12, <2>1 DEF vars
<1>13. QED
  BY <1>1, <1>4, <1>5, <1>6, <1>7, <1>8, <1>9, <1>10, <1>11, <1>12 DEF Next, Step

\* Requests that are about to be stored.
Asked == {job[p] : p \in {q \in Procs : pc[q] = "create"}}

\* Waiting, and about to wait.
Waiting == Pending({}) \cup Asked

\* Without overlap, whatever waits is free together with what is about to be stored;
\* an approved refund was posted, or its handler is at work.
SerialCredit ==
    mode = "serial" =>
        /\ \A p, q \in Procs : pc[p] \notin Idle /\ pc[q] \notin Idle => p = q
        /\ NoCharge =>
             /\ Waiting # {} =>
                    SumFunctionOnSet(Amount, Waiting) <= Free(ledger)
             /\ \A p \in Procs : pc[p] \in {"validate", "execute"} => status[job[p]] = "PENDING"
             /\ \A r \in Requests \ Transfers : chain[r] = "approved" =>
                   \/ status[r] = "COMPLETED"
                   \/ \E p \in Procs : job[p] = r /\ pc[p] \in {"validate", "execute"}

LEMMA WaitingIsKnown == Amounts => Waiting \in SUBSET Requests
BY DEF Amounts, Waiting, Asked, Pending

LEMMA SerialInit == Init => SerialCredit
BY DEF Init, SerialCredit, Waiting, Pending, Asked, Idle

\* The part of it that is about sums, where no more waits and no less is free.
LEMMA WaitingKept ==
    ASSUME Amounts, Amounts', Waiting' \subseteq Waiting, Free(ledger) <= Free(ledger'),
           Waiting # {} => SumFunctionOnSet(Amount, Waiting) <= Free(ledger)
    PROVE  Waiting' # {} => SumFunctionOnSet(Amount, Waiting') <= Free(ledger')
<1>1. Free(ledger) \in Int /\ Free(ledger') \in Int
  BY AwardFrees DEF Amounts
<1>2. /\ SumFunctionOnSet(Amount, Waiting) \in Nat /\ SumFunctionOnSet(Amount, Waiting') \in Nat
      /\ SumFunctionOnSet(Amount, Waiting') <= SumFunctionOnSet(Amount, Waiting)
  BY WaitingIsKnown, Sums
<1>3. QED
  BY <1>1, <1>2

LEMMA SerialStep == Amounts /\ Stages /\ SerialCredit /\ [Next]_vars => SerialCredit'
<1>1. SUFFICES ASSUME Amounts, Stages, SerialCredit, [Next]_vars, mode' = "serial"
               PROVE  SerialCredit'
  BY DEF SerialCredit
<1>2. /\ Amounts' /\ Stages' /\ Free(ledger) \in Int /\ Free(ledger') \in Int
      /\ Waiting \in SUBSET Requests
  BY <1>1, AmountsStep, StagesStep, AwardFrees, WaitingIsKnown DEF Amounts
<1>3. mode = "serial"
  BY <1>1 DEF Next, Step, Ask, Approved, Rejected, Create, Validate, Refund, TransferPair, PostCharge,
         Die, vars
<1> DEFINE One == \A p, q \in Procs : pc[p] \notin Idle /\ pc[q] \notin Idle => p = q
           Enough == Waiting # {} => SumFunctionOnSet(Amount, Waiting) <= Free(ledger)
           AtWork == \A p \in Procs : pc[p] \in {"validate", "execute"} => status[job[p]] = "PENDING"
           Posted == \A r \in Requests \ Transfers : chain[r] = "approved" =>
                        \/ status[r] = "COMPLETED"
                        \/ \E p \in Procs : job[p] = r /\ pc[p] \in {"validate", "execute"}
<1>4. One /\ (NoCharge => Enough /\ AtWork /\ Posted)
  BY <1>1, <1>3 DEF SerialCredit, Waiting
<1>5. SUFFICES One' /\ (NoCharge' => Enough' /\ AtWork' /\ Posted')
  BY DEF SerialCredit, Waiting
<1>6. ASSUME UNCHANGED ledger, Waiting' \subseteq Waiting, NoCharge'
      PROVE  NoCharge /\ Enough'
  <2>1. NoCharge /\ Free(ledger) <= Free(ledger')
    BY <1>2, <1>6 DEF NoCharge
  <2>2. QED
    BY <1>1, <1>2, <1>4, <1>6, <2>1, WaitingKept
<1>7. ASSUME NEW p \in Procs, NEW r \in Requests, Ask(p, r)
      PROVE  One' /\ (NoCharge' => Enough' /\ AtWork' /\ Posted')
  <2>1. /\ \A q \in Procs : pc[q] \in Idle
        /\ UNCHANGED <<mode, status, ledger, posted, chain>>
        /\ job' = [job EXCEPT ![p] = r] /\ pc[p] = "idle" /\ status[r] = "ABSENT"
        /\ pc' = [pc EXCEPT ![p] = IF Allowed(r, {}) THEN "create" ELSE "refused"]
    BY <1>3, <1>7 DEF Ask, May, Working, Goto
  <2>2. One' /\ AtWork'
    BY <1>1, <2>1 DEF Stages, Amounts, Idle
  <2>3. Asked = {}
    BY <2>1 DEF Asked, Idle
  <2>4. NoCharge' => NoCharge
    BY <2>1 DEF NoCharge
  <2>5. NoCharge' => Posted'
    <3>1. \A q \in Procs : pc[q] \notin {"validate", "execute"}
      BY <2>1 DEF Idle
    <3>2. QED
      BY <1>4, <2>1, <2>4, <3>1
  <2>6. NoCharge' => Enough'
    <3>1. CASE ~Allowed(r, {})
      <4>1. Waiting' \subseteq Waiting
        BY <1>1, <2>1, <2>3, <3>1 DEF Waiting, Asked, Pending, Stages, Amounts, Idle
      <4>2. QED
        BY <1>6, <2>1, <4>1
    <3>2. CASE Allowed(r, {})
      <4>1. Waiting' = Pending({}) \cup {r} /\ r \notin Pending({})
        BY <1>1, <2>1, <2>3, <3>2 DEF Waiting, Asked, Pending, Stages, Amounts, Idle
      <4>2. PendingExcept({}) = SumFunctionOnSet(Amount, Pending({}))
        BY DEF PendingExcept, Pending
      <4>3. (Pending({}) \cup {r}) \ {r} = Pending({}) /\ Pending({}) \cup {r} \in SUBSET Requests
        BY <4>1 DEF Pending
      <4>4. /\ SumFunctionOnSet(Amount, Waiting') = Amount[r] + SumFunctionOnSet(Amount, Pending({}))
            /\ SumFunctionOnSet(Amount, Pending({})) \in Nat
        BY <4>1, <4>3, Sums
      <4>5. Amount[r] \in Nat \ {0} /\ ledger \in Totals
        BY <1>1, ExcessAssumption DEF Amounts
      <4>6. Amount[r] + SumFunctionOnSet(Amount, Pending({})) <= Free(ledger)
        BY <3>2, <4>2, <4>4, <4>5, AllowedIsFree DEF Allowed
      <4>7. QED
        BY <2>1, <4>4, <4>6
    <3>3. QED
      BY <3>1, <3>2
  <2>7. QED
    BY <2>2, <2>5, <2>6
<1>8. ASSUME NEW p \in Procs, NEW r \in Requests, Approved(p, r)
      PROVE  One' /\ (NoCharge' => Enough' /\ AtWork' /\ Posted')
  <2>1. /\ \A q \in Procs : pc[q] \in Idle
        /\ UNCHANGED <<mode, status, ledger, posted>>
        /\ job' = [job EXCEPT ![p] = r] /\ pc[p] = "idle" /\ status[r] = "PENDING"
        /\ pc' = [pc EXCEPT ![p] = "validate"]
        /\ chain' = [chain EXCEPT ![r] = "approved"]
    BY <1>1, <1>3, <1>8 DEF Approved, May, Working, Goto, Stages
  <2>2. One' /\ AtWork'
    BY <1>1, <2>1 DEF Stages, Amounts, Idle
  <2>3. Waiting' \subseteq Waiting
    BY <1>1, <2>1 DEF Waiting, Asked, Pending, Stages, Amounts, Idle
  <2>4. NoCharge' => Enough' /\ NoCharge
    BY <1>6, <2>1, <2>3
  <2>5. job'[p] = r /\ pc'[p] = "validate" /\ \A x \in Requests \ {r} : chain'[x] = chain[x]
    BY <1>1, <2>1 DEF Stages, Amounts
  <2>6. \A q \in Procs : pc[q] \notin {"validate", "execute"}
    BY <2>1 DEF Idle
  <2>7. NoCharge' => Posted'
    BY <1>4, <2>1, <2>4, <2>5, <2>6
  <2>8. QED
    BY <2>2, <2>4, <2>7
<1>9. ASSUME NEW r \in Requests, Rejected(r)
      PROVE  One' /\ (NoCharge' => Enough' /\ AtWork' /\ Posted')
  <2>1. /\ \A q \in Procs : pc[q] \in Idle
        /\ UNCHANGED <<mode, ledger, posted, pc, job>>
        /\ chain' = [chain EXCEPT ![r] = "rejected"] /\ status[r] = "PENDING"
        /\ \A x \in Requests \ {r} : status'[x] = status[x]
        /\ status'[r] # "PENDING"
    BY <1>1, <1>3, <1>9 DEF Rejected, Working, Stages
  <2>2. One' /\ AtWork'
    BY <1>4, <2>1 DEF Idle
  <2>3. Waiting' \subseteq Waiting
    BY <2>1 DEF Waiting, Asked, Pending
  <2>4. NoCharge' => Enough' /\ NoCharge
    BY <1>6, <2>1, <2>3
  <2>5. \A x \in Requests : chain'[x] = "approved" => x # r /\ chain[x] = "approved"
    BY <1>1, <2>1 DEF Stages
  <2>6. NoCharge' => Posted'
    BY <1>4, <2>1, <2>4, <2>5
  <2>7. QED
    BY <2>2, <2>4, <2>6
<1>10. ASSUME NEW p \in Procs, Create(p)
      PROVE  One' /\ (NoCharge' => Enough' /\ AtWork' /\ Posted')
  <2>1. /\ UNCHANGED <<mode, ledger, posted, job>> /\ pc[p] = "create"
        /\ pc' = [pc EXCEPT ![p] = "done"]
        /\ status' = [status EXCEPT ![job[p]] = "PENDING"]
        /\ chain' = [chain EXCEPT ![job[p]] = "open"]
    BY <1>10 DEF Create, Goto
  <2>2. One' /\ \A q \in Procs : pc'[q] \notin {"validate", "execute"}
    BY <1>1, <1>4, <2>1 DEF Stages, Idle
  <2>3. \A q \in Procs : pc[q] \notin {"validate", "execute"}
    BY <1>1, <1>4, <2>1 DEF Stages, Idle
  <2>4. Waiting' \subseteq Waiting
    BY <1>1, <2>1 DEF Waiting, Asked, Pending, Stages, Amounts
  <2>5. NoCharge' => Enough' /\ NoCharge
    BY <1>6, <2>1, <2>4
  <2>6. \A x \in Requests : chain'[x] = "approved" => x # job[p] /\ chain[x] = "approved"
    BY <1>1, <2>1 DEF Stages, Amounts
  <2>7. \A x \in Requests : x # job[p] => status'[x] = status[x]
    BY <1>1, <2>1 DEF Stages, Amounts
  <2>8. NoCharge' => Posted'
    BY <1>4, <2>3, <2>5, <2>6, <2>7
  <2>9. QED
    BY <2>2, <2>5, <2>8
<1>11. ASSUME NEW p \in Procs, Validate(p)
      PROVE  One' /\ (NoCharge' => Enough' /\ AtWork' /\ Posted')
  <2> DEFINE r == job[p]
  <2>1. /\ UNCHANGED <<mode, status, ledger, posted, chain, job>> /\ pc[p] = "validate"
        /\ pc' = [pc EXCEPT ![p] = IF Allowed(r, {r}) THEN "execute" ELSE "refused"]
    BY <1>11 DEF Validate, Goto
  <2>2. One'
    BY <1>1, <1>4, <2>1 DEF Stages, Idle
  <2>3. Waiting' \subseteq Waiting
    BY <1>1, <2>1 DEF Waiting, Asked, Pending, Stages
  <2>4. NoCharge' => Enough' /\ NoCharge
    BY <1>6, <2>1, <2>3
  <2>5. NoCharge => Allowed(r, {r})
    <3>1. SUFFICES ASSUME NoCharge PROVE Allowed(r, {r})
      OBVIOUS
    <3>2. r \in Requests /\ status[r] = "PENDING"
      BY <1>1, <1>4, <2>1, <3>1 DEF Amounts
    <3>3. /\ r \in Pending({}) /\ Pending({}) \ {r} = Pending({r}) /\ Pending({}) \in SUBSET Waiting
          /\ Pending({}) \in SUBSET Requests /\ Waiting # {}
      BY <3>2 DEF Pending, Waiting
    <3>4. /\ SumFunctionOnSet(Amount, Pending({})) = Amount[r] + SumFunctionOnSet(Amount, Pending({r}))
          /\ SumFunctionOnSet(Amount, Pending({})) <= SumFunctionOnSet(Amount, Waiting)
          /\ SumFunctionOnSet(Amount, Pending({})) \in Nat
          /\ SumFunctionOnSet(Amount, Waiting) \in Nat
      BY <1>2, <3>3, Sums
    <3>5. SumFunctionOnSet(Amount, Pending({r})) \in Nat
      <4>1. Pending({r}) \in SUBSET Requests
        BY DEF Pending
      <4>2. QED
        BY <4>1, Sums
    <3>6. SumFunctionOnSet(Amount, Waiting) <= Free(ledger)
      BY <1>4, <3>1, <3>3
    <3>7. Amount[r] + SumFunctionOnSet(Amount, Pending({r})) <= Free(ledger)
      BY <1>2, <3>4, <3>6
    <3>8. Amount[r] \in Nat \ {0} /\ ledger \in Totals
      BY <1>1, <3>2, ExcessAssumption DEF Amounts
    <3>9. PendingExcept({r}) = SumFunctionOnSet(Amount, Pending({r}))
      BY DEF PendingExcept, Pending
    <3>10. QED
      BY <3>5, <3>7, <3>8, <3>9, AllowedIsFree DEF Allowed
  <2>6. NoCharge => \A q \in Procs : pc'[q] \in {"validate", "execute"}
                                     <=> pc[q] \in {"validate", "execute"}
    BY <1>1, <2>1, <2>5 DEF Stages
  <2>7. NoCharge' => AtWork' /\ Posted'
    BY <1>4, <2>1, <2>4, <2>6
  <2>8. QED
    BY <2>2, <2>4, <2>7
<1>12. ASSUME NEW p \in Procs, Refund(p)
      PROVE  One' /\ (NoCharge' => Enough' /\ AtWork' /\ Posted')
  <2> DEFINE r == job[p]
  <2>1. /\ UNCHANGED <<mode, posted, chain, job>> /\ pc[p] = "execute" /\ r \in Requests
        /\ \E place \in {"done", "refused"} : pc' = [pc EXCEPT ![p] = place]
    BY <1>1, <1>12 DEF Refund, Goto, Amounts
  <2>2. One' /\ \A q \in Procs : pc'[q] \notin {"validate", "execute"}
    BY <1>1, <1>4, <2>1 DEF Stages, Idle
  <2>3. NoCharge' => NoCharge
    BY <1>1, <1>12 DEF Refund, NoCharge, Amounts, Totals
  <2>4. SUFFICES ASSUME NoCharge' PROVE Enough' /\ Posted'
    BY <2>2
  <2>5. status[r] = "PENDING"
    BY <1>4, <2>1, <2>3, <2>4
  <2>6. /\ status' = [status EXCEPT ![r] = "COMPLETED"]
        /\ ledger' = [ledger EXCEPT !.refunds = @ + Amount[r]]
    BY <1>12, <2>5 DEF Refund, RefundOut
  <2>7. Posted'
    <3>1. status'[r] = "COMPLETED" /\ \A x \in Requests \ {r} : status'[x] = status[x]
      BY <1>1, <2>1, <2>6 DEF Stages
    <3>2. ASSUME NEW x \in Requests \ Transfers, chain'[x] = "approved", x # r
          PROVE  status'[x] = "COMPLETED"
      <4>1. \A q \in Procs : pc[q] \in {"validate", "execute"} => job[q] # x
        BY <1>4, <2>1, <3>2 DEF Idle
      <4>2. QED
        BY <1>4, <2>1, <2>3, <2>4, <3>1, <3>2, <4>1
    <3>3. QED
      BY <3>1, <3>2
  <2>8. r \in Waiting /\ Waiting' \subseteq Waiting \ {r}
    <3>1. Asked = {} /\ Asked' = {}
      BY <1>1, <1>4, <2>1 DEF Asked, Stages, Idle
    <3>2. QED
      BY <1>1, <2>1, <2>5, <2>6, <3>1 DEF Waiting, Pending, Stages
  <2>9. Free(ledger') = Free(ledger) - Amount[r] /\ Amount[r] \in Nat
    BY <1>1, <2>1, <2>6, RefundTakes, ExcessAssumption DEF Amounts
  <2>10. /\ SumFunctionOnSet(Amount, Waiting) = Amount[r] + SumFunctionOnSet(Amount, Waiting \ {r})
         /\ SumFunctionOnSet(Amount, Waiting \ {r}) \in Nat
         /\ SumFunctionOnSet(Amount, Waiting') \in Nat
         /\ SumFunctionOnSet(Amount, Waiting') <= SumFunctionOnSet(Amount, Waiting \ {r})
    <3>1. Waiting \ {r} \in SUBSET Requests
      BY <1>2
    <3>2. QED
      BY <1>2, <2>8, <3>1, Sums
  <2>11. SumFunctionOnSet(Amount, Waiting) <= Free(ledger)
    BY <1>4, <2>3, <2>4, <2>8
  <2>12. Enough'
    BY <1>2, <2>9, <2>10, <2>11
  <2>13. QED
    BY <2>7, <2>12
<1>13. ASSUME NEW p \in Procs, TransferPair(p)
      PROVE  One' /\ (NoCharge' => Enough' /\ AtWork' /\ Posted')
  <2>1. /\ UNCHANGED <<mode, status, ledger, chain, job>> /\ pc[p] = "execute"
        /\ job[p] \in Transfers /\ pc' = [pc EXCEPT ![p] = "already_posted"]
    BY <1>1, <1>13 DEF TransferPair, ReferenceTaken, Goto, Stages
  <2>2. One' /\ \A q \in Procs : pc'[q] \notin {"validate", "execute"}
    BY <1>1, <1>4, <2>1 DEF Stages, Idle
  <2>3. Waiting' \subseteq Waiting
    BY <1>1, <2>1 DEF Waiting, Asked, Pending, Stages
  <2>4. NoCharge' => Enough' /\ NoCharge
    BY <1>6, <2>1, <2>3
  <2>5. \A q \in Procs : pc[q] \in {"validate", "execute"} => job[q] \in Transfers
    BY <1>4, <2>1 DEF Idle
  <2>6. NoCharge' => Posted'
    BY <1>4, <2>1, <2>4, <2>5
  <2>7. QED
    BY <2>2, <2>4, <2>6
<1>14. CASE PostCharge
  <2>1. ~NoCharge'
    BY <1>1, <1>14, ExcessAssumption DEF PostCharge, NoCharge, Amounts, Totals
  <2>2. One'
    BY <1>4, <1>14 DEF PostCharge
  <2>3. QED
    BY <2>1, <2>2
<1>15. CASE UNCHANGED vars
  <2>1. Waiting' = Waiting /\ UNCHANGED <<pc, status, job, chain, ledger>>
    BY <1>15 DEF vars, Waiting, Asked, Pending
  <2>2. NoCharge' => Enough' /\ NoCharge
    BY <1>6, <2>1
  <2>3. QED
    BY <1>4, <2>1, <2>2
<1>16. ASSUME NEW p \in Procs PROVE ~Die(p)
  BY <1>3 DEF Die
<1>17. QED
  BY <1>1, <1>7, <1>8, <1>9, <1>10, <1>11, <1>12, <1>13, <1>14, <1>15, <1>16 DEF Next, Step

-----------------------------------------------------------------------------
(* Awards and their disbursement. *)

\* Every handler works on an award, and an award is credited at most once, before
\* it is marked as disbursed.
Credits ==
    /\ task \in [Payers -> Awards]
    /\ DOMAIN paying = Payers /\ DOMAIN award = Awards
    /\ credits \in [Awards -> {0, 1}]
    /\ \A p \in Payers : paying[p] = "mark" => credits[task[p]] = 1
    /\ \A a \in Awards : award[a] = "DISBURSED" => credits[a] = 1

LEMMA CreditsInit == Fund!ScholarshipConstants /\ Fund!Init => Credits
<1>1. Fund!ScholarshipConstants => (CHOOSE a \in Awards : TRUE) \in Awards
  BY DEF Fund!ScholarshipConstants
<1>2. QED
  BY <1>1 DEF Fund!Init, Credits

LEMMA CreditsStep == Credits /\ [Fund!Next]_(Fund!vars) => Credits'
<1>1. SUFFICES ASSUME Credits, [Fund!Next]_(Fund!vars) PROVE Credits'
  OBVIOUS
<1> USE DEF Credits
<1>2. ASSUME NEW a \in Awards, Fund!CreateLinked(a) \/ Fund!CreateUnlinked(a)
      PROVE  Credits'
  BY <1>1, <1>2 DEF Fund!CreateLinked, Fund!CreateUnlinked
<1>3. ASSUME NEW p \in Payers, NEW a \in Awards, Fund!DisburseByHand(p, a)
      PROVE  Credits'
  BY <1>1, <1>3 DEF Fund!DisburseByHand, Fund!Goto
<1>4. ASSUME NEW p \in Payers, NEW a \in Awards, Fund!ChainCompleted(p, a)
      PROVE  Credits'
  BY <1>1, <1>4 DEF Fund!ChainCompleted, Fund!Goto
<1>5. ASSUME NEW p \in Payers, Fund!CheckFund(p)
      PROVE  Credits'
  BY <1>1, <1>5 DEF Fund!CheckFund, Fund!Goto
<1>6. ASSUME NEW p \in Payers, Fund!Credit(p)
      PROVE  Credits'
  BY <1>1, <1>6 DEF Fund!Credit, Fund!ReferenceFree, Fund!Goto
<1>7. ASSUME NEW p \in Payers, Fund!MarkDisbursed(p)
      PROVE  Credits'
  BY <1>1, <1>7 DEF Fund!MarkDisbursed, Fund!Goto
<1>8. ASSUME NEW p \in Payers, Fund!Draw(p) \/ Fund!Die(p)
      PROVE  Credits'
  BY <1>1, <1>8 DEF Fund!Draw, Fund!Die, Fund!Goto
<1>9. CASE UNCHANGED Fund!vars
  BY <1>1, <1>9 DEF Fund!vars
<1>10. QED
  BY <1>1, <1>2, <1>3, <1>4, <1>5, <1>6, <1>7, <1>8, <1>9 DEF Fund!Next, Fund!Step

\* What a chain must have been approved for: to be on the way to a credit, to be
\* approved or disbursed, to be credited.
ChainFirst ==
    /\ approvals \in [Awards -> Nat] /\ linked \subseteq Awards
    /\ \A a \in linked : award[a] \in {"APPROVED", "DISBURSED"} => approvals[a] > 0
    /\ \A p \in Payers : paying[p] \in {"check", "credit", "mark", "draw"}
                        => award[task[p]] # "ABSENT" /\ (task[p] \in linked => approvals[task[p]] > 0)
    /\ \A a \in Awards : award[a] = "ABSENT" => credits[a] = 0 /\ a \notin linked
    /\ ChainBeforeCredit

LEMMA ChainFirstInit == Fund!Init => ChainFirst
<1>1. SUFFICES ASSUME Fund!Init PROVE ChainFirst
  OBVIOUS
<1>2. QED
  BY <1>1 DEF Fund!Init, ChainFirst, ChainBeforeCredit, Fund!ChainBeforeCredit

LEMMA ChainFirstStep == Credits /\ ChainFirst /\ [Fund!Next]_(Fund!vars) => ChainFirst'
<1>1. SUFFICES ASSUME Credits, ChainFirst, [Fund!Next]_(Fund!vars) PROVE ChainFirst'
  OBVIOUS
<1> USE DEF Credits, ChainFirst, ChainBeforeCredit, Fund!ChainBeforeCredit
<1>2. ASSUME NEW a \in Awards, Fund!CreateLinked(a) \/ Fund!CreateUnlinked(a)
      PROVE  ChainFirst'
  <2>1. /\ award[a] = "ABSENT" /\ award' = [award EXCEPT ![a] = "PENDING"]
        /\ linked' \in {linked, linked \cup {a}}
        /\ UNCHANGED <<approvals, credits, paying, task>>
    BY <1>2 DEF Fund!CreateLinked, Fund!CreateUnlinked
  <2>2. \A b \in Awards : b # a => award'[b] = award[b] /\ (b \in linked' <=> b \in linked)
    BY <1>1, <2>1
  <2>3. award'[a] = "PENDING" /\ credits[a] = 0
    BY <1>1, <2>1
  <2>4. \A b \in linked' : award'[b] \in {"APPROVED", "DISBURSED"} => approvals'[b] > 0
    BY <1>1, <2>1, <2>3
  <2>5. \A p \in Payers : paying'[p] \in {"check", "credit", "mark", "draw"}
            => award'[task'[p]] # "ABSENT" /\ (task'[p] \in linked' => approvals'[task'[p]] > 0)
    BY <1>1, <2>1, <2>2
  <2>6. \A b \in Awards : award'[b] = "ABSENT" => credits'[b] = 0 /\ b \notin linked'
    BY <1>1, <2>1, <2>2, <2>3
  <2>7. ChainBeforeCredit'
    BY <1>1, <2>1, <2>3
  <2>8. QED
    BY <1>1, <2>1, <2>4, <2>5, <2>6, <2>7
<1>3. ASSUME NEW p \in Payers, NEW a \in Awards, Fund!DisburseByHand(p, a)
      PROVE  ChainFirst'
  BY <1>1, <1>3 DEF Fund!DisburseByHand, Fund!Disbursable, Fund!Goto
<1>4. ASSUME NEW p \in Payers, NEW a \in Awards, Fund!ChainCompleted(p, a)
      PROVE  ChainFirst'
  BY <1>1, <1>4 DEF Fund!ChainCompleted, Fund!Goto
<1>5. ASSUME NEW p \in Payers, Fund!CheckFund(p)
      PROVE  ChainFirst'
  BY <1>1, <1>5 DEF Fund!CheckFund, Fund!Goto
<1>6. ASSUME NEW p \in Payers, Fund!Credit(p)
      PROVE  ChainFirst'
  <2>1. /\ paying[p] = "credit" /\ UNCHANGED <<award, linked, approvals, task>>
        /\ \E place : paying' = [paying EXCEPT ![p] = place]
    BY <1>6 DEF Fund!Credit, Fund!Goto
  <2>2. \A a \in Awards : credits'[a] # credits[a] => a = task[p]
    BY <1>1, <1>6 DEF Fund!Credit
  <2>3. award[task[p]] # "ABSENT" /\ (task[p] \in linked => approvals[task[p]] > 0)
    BY <1>1, <2>1
  <2>4. ChainBeforeCredit'
    BY <1>1, <2>1, <2>2, <2>3
  <2>5. \A a \in Awards : award'[a] = "ABSENT" => credits'[a] = 0 /\ a \notin linked'
    BY <1>1, <2>1, <2>2, <2>3
  <2>6. \A q \in Payers : paying'[q] \in {"check", "credit", "mark", "draw"}
            => award'[task'[q]] # "ABSENT" /\ (task'[q] \in linked' => approvals'[task'[q]] > 0)
    BY <1>1, <2>1, <2>3
  <2>7. QED
    BY <1>1, <2>1, <2>4, <2>5, <2>6
<1>7. ASSUME NEW p \in Payers, Fund!MarkDisbursed(p)
      PROVE  ChainFirst'
  BY <1>1, <1>7 DEF Fund!MarkDisbursed, Fund!Goto
<1>8. ASSUME NEW p \in Payers, Fund!Draw(p) \/ Fund!Die(p)
      PROVE  ChainFirst'
  BY <1>1, <1>8 DEF Fund!Draw, Fund!Die, Fund!Goto, Fund!Idle
<1>9. CASE UNCHANGED Fund!vars
  BY <1>1, <1>9 DEF Fund!vars
<1>10. QED
  BY <1>1, <1>2, <1>3, <1>4, <1>5, <1>6, <1>7, <1>8, <1>9 DEF Fund!Next, Fund!Step

\* Where disbursements stand.  Without overlap, the fund's total tells the credits but
\* for the award at work.
SerialFund ==
    /\ paying \in [Payers -> Fund!Idle \cup {"check", "credit", "mark", "draw"}]
    /\ disbursed \in Nat
    /\ mode = "serial" =>
        /\ \A p, q \in Payers : paying[p] \notin Fund!Idle /\ paying[q] \notin Fund!Idle => p = q
        /\ \A p \in Payers : paying[p] = "credit" => AwardAmount[task[p]] <= TotalFund - disbursed
        /\ \A p \in Payers : paying[p] \in {"mark", "draw"} =>
              Fund!Credited = disbursed + AwardAmount[task[p]]
        /\ (\A p \in Payers : paying[p] \notin {"mark", "draw"}) => Fund!Credited = disbursed
        /\ Fund!Credited <= TotalFund

\* The awards that are credited, summed up.
CreditedAwards == {a \in Awards : credits[a] > 0}

LEMMA CreditedSum ==
    /\ Fund!Credited = SumFunctionOnSet(AwardAmount, CreditedAwards)
    /\ Fund!Credited' = SumFunctionOnSet(AwardAmount, CreditedAwards')
BY Zenon DEF Fund!Credited, CreditedAwards, Fund!SumFunctionOnSet, SumFunctionOnSet,
       Fund!FoldFunctionOnSet, FoldFunctionOnSet, Fund!MapThenFoldSet, MapThenFoldSet

LEMMA AwardsFinite == Fund!ScholarshipConstants => IsFiniteSet(Awards)
<1>1. Fund!IsFiniteSet(Awards) <=> IsFiniteSet(Awards)
  BY Zenon DEF Fund!IsFiniteSet, IsFiniteSet
<1>2. QED
  BY <1>1 DEF Fund!ScholarshipConstants

LEMMA SerialFundInit == Fund!ScholarshipConstants /\ Fund!Init => SerialFund
<1>1. SUFFICES ASSUME Fund!ScholarshipConstants, Fund!Init PROVE SerialFund
  OBVIOUS
<1>2. CreditedAwards = {} /\ \A p \in Payers : paying[p] = "idle"
  BY <1>1 DEF Fund!Init, CreditedAwards
<1>3. Fund!Credited = 0
  BY <1>2, CreditedSum, SumEmpty
<1>4. QED
  BY <1>1, <1>2, <1>3 DEF Fund!Init, Fund!Idle, SerialFund, Fund!ScholarshipConstants

\* Only a credit changes what is credited.
LEMMA CreditedKept == credits' = credits => Fund!Credited' = Fund!Credited
<1>1. credits' = credits => CreditedAwards' = CreditedAwards
  BY DEF CreditedAwards
<1>2. QED
  BY <1>1, CreditedSum

LEMMA SerialFundStep ==
    Fund!ScholarshipConstants /\ Credits /\ SerialFund /\ [Fund!Next]_(Fund!vars) => SerialFund'
<1>1. SUFFICES ASSUME Fund!ScholarshipConstants, Credits, SerialFund, [Fund!Next]_(Fund!vars)
               PROVE  SerialFund'
  OBVIOUS
<1> DEFINE Total == SumFunctionOnSet(AwardAmount, CreditedAwards)
           One == \A p, q \in Payers : paying[p] \notin Fund!Idle /\ paying[q] \notin Fund!Idle => p = q
           Room == \A p \in Payers : paying[p] = "credit" => AwardAmount[task[p]] <= TotalFund - disbursed
           Drawing == \A p \in Payers : paying[p] \in {"mark", "draw"} =>
                         Fund!Credited = disbursed + AwardAmount[task[p]]
           Drawn == (\A p \in Payers : paying[p] \notin {"mark", "draw"}) => Fund!Credited = disbursed
           Rules == One /\ Room /\ Drawing /\ Drawn /\ Fund!Credited <= TotalFund
           Typed == /\ paying \in [Payers -> Fund!Idle \cup {"check", "credit", "mark", "draw"}]
                    /\ disbursed \in Nat
<1>2. Typed /\ (mode = "serial" => Rules)
  BY <1>1 DEF SerialFund
<1>3. SUFFICES Typed' /\ (mode' = "serial" => Rules')
  BY DEF SerialFund
<1>4. mode' = mode
  BY <1>1, Zenon DEF Fund!Next, Fund!Step, Fund!CreateLinked, Fund!CreateUnlinked,
         Fund!DisburseByHand, Fund!ChainCompleted, Fund!CheckFund, Fund!Credit,
         Fund!MarkDisbursed, Fund!Draw, Fund!Die, Fund!vars
<1>5. /\ AwardAmount \in [Awards -> Nat \ {0}] /\ TotalFund \in Nat /\ IsFiniteSet(CreditedAwards)
      /\ task \in [Payers -> Awards]
  BY <1>1, AwardsFinite, FS_Subset DEF Fund!ScholarshipConstants, CreditedAwards, Credits
<1>6. ASSUME UNCHANGED <<paying, task, credits, disbursed>>
      PROVE  Typed' /\ (mode' = "serial" => Rules')
  BY <1>2, <1>4, <1>6, CreditedKept
<1>7. ASSUME NEW p \in Payers, NEW a \in Awards, Fund!DisburseByHand(p, a) \/ Fund!ChainCompleted(p, a)
      PROVE  Typed' /\ (mode' = "serial" => Rules')
  <2>1. /\ UNCHANGED <<credits, disbursed>> /\ paying' = [paying EXCEPT ![p] = "check"]
        /\ mode = "overlap" \/ \A q \in Payers : paying[q] \in Fund!Idle
        /\ task' = [task EXCEPT ![p] = a]
    BY <1>7 DEF Fund!DisburseByHand, Fund!ChainCompleted, Fund!May, Fund!Working, Fund!Goto
  <2>2. Typed'
    BY <1>2, <2>1
  <2>3. SUFFICES ASSUME mode = "serial" PROVE Rules'
    BY <1>4, <2>2
  <2>4. /\ \A q \in Payers : paying'[q] \notin Fund!Idle => q = p
        /\ \A q \in Payers : paying'[q] \notin {"credit", "mark", "draw"}
        /\ \A q \in Payers : paying[q] \notin {"mark", "draw"}
    BY <1>2, <2>1, <2>3 DEF Fund!Idle
  <2>5. QED
    BY <1>2, <2>1, <2>3, <2>4, CreditedKept
<1>8. ASSUME NEW p \in Payers, Fund!CheckFund(p)
      PROVE  Typed' /\ (mode' = "serial" => Rules')
  <2>1. /\ UNCHANGED <<credits, disbursed, task>> /\ paying[p] = "check"
        /\ \/ paying' = [paying EXCEPT ![p] = "credit"]
              /\ AwardAmount[task[p]] <= TotalFund - disbursed
           \/ paying' = [paying EXCEPT ![p] = "refused"]
    BY <1>8 DEF Fund!CheckFund, Fund!FundAllows, Fund!Goto
  <2>2. Typed'
    BY <1>2, <2>1 DEF Fund!Idle
  <2>3. SUFFICES ASSUME mode = "serial" PROVE Rules'
    BY <1>4, <2>2
  <2>4. /\ \A q \in Payers : paying'[q] \notin {"mark", "draw"} /\ paying[q] \notin {"mark", "draw"}
        /\ One' /\ Room'
    BY <1>2, <2>1, <2>3 DEF Fund!Idle
  <2>5. QED
    BY <1>2, <2>1, <2>3, <2>4, CreditedKept
<1>9. ASSUME NEW p \in Payers, Fund!Credit(p)
      PROVE  Typed' /\ (mode' = "serial" => Rules')
  <2>1. CASE credits[task[p]] # 0
    <3>1. /\ UNCHANGED <<credits, disbursed, task>> /\ paying[p] = "credit"
          /\ paying' = [paying EXCEPT ![p] = "refused"]
      BY <1>9, <2>1 DEF Fund!Credit, Fund!ReferenceFree, Fund!Goto
    <3>2. Typed'
      BY <1>2, <3>1 DEF Fund!Idle
    <3>3. SUFFICES ASSUME mode = "serial" PROVE Rules'
      BY <1>4, <3>2
    <3>4. /\ \A q \in Payers : paying'[q] \notin {"mark", "draw"} /\ paying[q] \notin {"mark", "draw"}
          /\ One' /\ Room'
      BY <1>2, <3>1, <3>3 DEF Fund!Idle
    <3>5. QED
      BY <1>2, <3>1, <3>3, <3>4, CreditedKept
  <2>2. CASE credits[task[p]] = 0
    <3>1. /\ UNCHANGED <<disbursed, task>> /\ paying[p] = "credit"
          /\ paying' = [paying EXCEPT ![p] = "mark"]
          /\ credits' = [credits EXCEPT ![task[p]] = @ + 1]
      BY <1>9, <2>2 DEF Fund!Credit, Fund!ReferenceFree, Fund!Goto
    <3>2. Typed'
      BY <1>2, <3>1 DEF Fund!Idle
    <3>3. SUFFICES ASSUME mode = "serial" PROVE Rules'
      BY <1>4, <3>2
    <3>4. /\ \A q \in Payers : q # p => paying'[q] \in Fund!Idle /\ paying[q] \in Fund!Idle
          /\ paying'[p] = "mark"
      BY <1>2, <3>1, <3>3 DEF Fund!Idle
    <3>5. One' /\ Room' /\ Fund!Credited = disbursed
      BY <1>2, <3>1, <3>3, <3>4 DEF Fund!Idle
    <3>6. task[p] \in Awards /\ task[p] \notin CreditedAwards
          /\ CreditedAwards' = CreditedAwards \cup {task[p]}
      BY <1>1, <1>5, <2>2, <3>1 DEF Credits, CreditedAwards
    <3>7. \A y \in CreditedAwards \cup {task[p]} : AwardAmount[y] \in Int
      BY <1>5, <3>6 DEF CreditedAwards
    <3>8. SumFunctionOnSet(AwardAmount, CreditedAwards') = AwardAmount[task[p]] + Total
      BY <1>5, <3>6, <3>7, SumAdd
    <3>9. Fund!Credited' = AwardAmount[task[p]] + disbursed
      BY <3>5, <3>8, CreditedSum
    <3>10. AwardAmount[task[p]] <= TotalFund - disbursed /\ AwardAmount[task[p]] \in Nat /\ disbursed \in Nat
      BY <1>2, <1>5, <3>1, <3>3, <3>6
    <3>11. Drawing' /\ Drawn'
      BY <3>1, <3>4, <3>9, <3>10 DEF Fund!Idle
    <3>12. Fund!Credited' <= TotalFund
      BY <1>5, <3>9, <3>10
    <3>13. QED
      BY <3>5, <3>11, <3>12
  <2>3. QED
    BY <2>1, <2>2
<1>10. ASSUME NEW p \in Payers, Fund!MarkDisbursed(p)
      PROVE  Typed' /\ (mode' = "serial" => Rules')
  <2>1. /\ UNCHANGED <<credits, disbursed, task>> /\ paying[p] = "mark"
        /\ paying' = [paying EXCEPT ![p] = "draw"]
    BY <1>10 DEF Fund!MarkDisbursed, Fund!Goto
  <2>2. Typed'
    BY <1>2, <2>1 DEF Fund!Idle
  <2>3. SUFFICES ASSUME mode = "serial" PROVE Rules'
    BY <1>4, <2>2
  <2>4. /\ \A q \in Payers : q # p => paying'[q] = paying[q]
        /\ paying'[p] = "draw" /\ One'
    BY <1>2, <2>1, <2>3 DEF Fund!Idle
  <2>5. QED
    BY <1>2, <2>1, <2>3, <2>4, CreditedKept
<1>11. ASSUME NEW p \in Payers, Fund!Draw(p)
      PROVE  Typed' /\ (mode' = "serial" => Rules')
  <2>1. /\ UNCHANGED <<credits, task>> /\ paying[p] = "draw"
        /\ paying' = [paying EXCEPT ![p] = "done"]
        /\ disbursed' = disbursed + AwardAmount[task[p]]
    BY <1>11 DEF Fund!Draw, Fund!Drawn, Fund!Goto
  <2>2. Typed'
    BY <1>2, <1>5, <2>1 DEF Fund!Idle
  <2>3. SUFFICES ASSUME mode = "serial" PROVE Rules'
    BY <1>4, <2>2
  <2>4. \A q \in Payers : paying'[q] \in Fund!Idle
    BY <1>2, <2>1, <2>3 DEF Fund!Idle
  <2>5. Fund!Credited' = disbursed'
    BY <1>2, <2>1, <2>3, CreditedKept
  <2>6. QED
    BY <1>2, <2>1, <2>3, <2>4, <2>5, CreditedKept DEF Fund!Idle
<1>12. ASSUME NEW p \in Payers, Fund!Die(p)
      PROVE  Typed' /\ (mode' = "serial" => Rules')
  <2>1. mode = "overlap" /\ UNCHANGED disbursed /\ paying' = [paying EXCEPT ![p] = "died"]
    BY <1>12 DEF Fund!Die, Fund!Goto
  <2>2. QED
    BY <1>2, <1>4, <2>1 DEF Fund!Idle
<1>13. QED
  BY <1>1, <1>6, <1>7, <1>8, <1>9, <1>10, <1>11, <1>12
     DEF Fund!Next, Fund!Step, Fund!CreateLinked, Fund!CreateUnlinked, Fund!vars

-----------------------------------------------------------------------------
(* The two parts together. *)

\* What a credit adds to the ledger is an amount; it frees more and moves no request.
LEMMA Credited ==
    ASSUME Amounts, AwardStep
    PROVE  /\ Amounts' /\ Free(ledger) <= Free(ledger')
           /\ UNCHANGED <<mode, status, posted, chain, pc, job>>
           /\ ledger'.charges = ledger.charges
           /\ ledger'.refunds = ledger.refunds /\ ledger'.transfers = ledger.transfers
<1>1. UNCHANGED <<mode, status, posted, chain, pc, job>>
  <2>1. mode' = mode
    BY Zenon DEF AwardStep, Fund!Next, Fund!Step, Fund!CreateLinked, Fund!CreateUnlinked,
         Fund!DisburseByHand, Fund!ChainCompleted, Fund!CheckFund, Fund!Credit,
         Fund!MarkDisbursed, Fund!Draw, Fund!Die
  <2>2. QED
    BY <2>1 DEF AwardStep
<1>2. CASE UNCHANGED ledger
  <2>1. Free(ledger) \in Int
    BY AwardFrees DEF Amounts
  <2>2. QED
    BY <1>1, <1>2, <2>1 DEF Amounts
<1>3. ASSUME NEW a \in Awards, ledger' = [ledger EXCEPT !.scholarship = @ + AwardAmount[a]]
      PROVE  /\ Amounts' /\ Free(ledger) <= Free(ledger')
             /\ ledger'.charges = ledger.charges
             /\ ledger'.refunds = ledger.refunds /\ ledger'.transfers = ledger.transfers
  <2>1. AwardAmount[a] \in Nat /\ ledger \in Totals
    BY CreditAssumption DEF Fund!ScholarshipConstants, Amounts
  <2>2. Free(ledger) <= Free(ledger')
    BY <1>3, <2>1, AwardFrees
  <2>3. QED
    BY <1>1, <1>3, <2>1, <2>2 DEF Amounts, Totals
<1>4. QED
  BY <1>1, <1>2, <1>3 DEF AwardStep

\* So it leaves what was said about requests as it was.
LEMMA ExcessKept ==
    ASSUME Amounts, Stages, ValidatedIsFree, SerialCredit, AwardStep
    PROVE  Stages' /\ ValidatedIsFree' /\ SerialCredit'
<1>1. /\ Amounts' /\ Free(ledger) <= Free(ledger')
      /\ UNCHANGED <<mode, status, posted, chain, pc, job>>
      /\ ledger'.charges = ledger.charges
      /\ ledger'.refunds = ledger.refunds /\ ledger'.transfers = ledger.transfers
  BY Credited
<1>2. Stages'
  BY <1>1 DEF Stages
<1>3. (NoCharge' <=> NoCharge) /\ Validated' = Validated /\ Waiting' = Waiting
  BY <1>1 DEF NoCharge, Validated, Waiting, Pending, Asked
<1>4. ValidatedIsFree'
  BY <1>1, <1>3, ValidatedKept
<1>5. SerialCredit'
  <2>1. SUFFICES ASSUME mode = "serial" PROVE SerialCredit'
    BY <1>1 DEF SerialCredit
  <2>2. NoCharge => (Waiting' # {} => SumFunctionOnSet(Amount, Waiting') <= Free(ledger'))
    <3>1. SUFFICES ASSUME NoCharge
                   PROVE  Waiting' # {} => SumFunctionOnSet(Amount, Waiting') <= Free(ledger')
      OBVIOUS
    <3>2. Waiting # {} => SumFunctionOnSet(Amount, Waiting) <= Free(ledger)
      BY <2>1, <3>1 DEF SerialCredit
    <3>3. QED
      BY <1>1, <1>3, <3>2, WaitingKept
  <2>3. QED
    BY <1>1, <1>3, <2>1, <2>2 DEF SerialCredit
<1>6. QED
  BY <1>2, <1>4, <1>5

Requested == Amounts /\ Stages /\ ValidatedIsFree /\ SerialCredit
Disbursing == Credits /\ ChainFirst /\ SerialFund

CreditInv == Requested /\ Disbursing

LEMMA CreditInvInit == CreditInit => CreditInv
BY AmountsInit, StagesInit, ValidatedInit, SerialInit, CreditsInit, ChainFirstInit, SerialFundInit,
   CreditAssumption DEF CreditInit, CreditInv, Requested, Disbursing

LEMMA CreditInvStep == CreditInv /\ [CreditNext]_<<vars, awardVars>> => CreditInv'
<1>1. SUFFICES ASSUME CreditInv, [CreditNext]_<<vars, awardVars>> PROVE CreditInv'
  OBVIOUS
<1>2. Fund!ScholarshipConstants
  BY CreditAssumption
<1>3. ASSUME [Next]_vars, UNCHANGED awardVars
      PROVE  CreditInv'
  <2>1. Requested'
    BY <1>1, <1>3, AmountsStep, StagesStep, ValidatedStep, SerialStep DEF CreditInv, Requested
  <2>2. mode' = mode
    BY <1>3, Zenon DEF Next, Step, Ask, Approved, Rejected, Create, Validate, Refund, TransferPair,
         PostCharge, Die, vars
  <2>3. [Fund!Next]_(Fund!vars)
    BY <1>3, <2>2 DEF awardVars, Fund!vars
  <2>4. Disbursing'
    BY <1>1, <1>2, <2>3, CreditsStep, ChainFirstStep, SerialFundStep DEF CreditInv, Disbursing
  <2>5. QED
    BY <2>1, <2>4 DEF CreditInv
<1>4. CASE ExcessStep
  BY <1>3, <1>4 DEF ExcessStep
<1>5. CASE AwardStep
  <2>1. Requested'
    BY <1>1, <1>5, Credited, ExcessKept DEF CreditInv, Requested
  <2>2. Disbursing'
    BY <1>1, <1>2, <1>5, CreditsStep, ChainFirstStep, SerialFundStep
       DEF AwardStep, CreditInv, Disbursing
  <2>3. QED
    BY <2>1, <2>2 DEF CreditInv
<1>6. CASE UNCHANGED <<vars, awardVars>>
  BY <1>3, <1>6
<1>7. QED
  BY <1>1, <1>4, <1>5, <1>6 DEF CreditNext

LEMMA CreditInvAlways == CreditSpec => []CreditInv
BY CreditInvInit, CreditInvStep, PTL DEF CreditSpec

\* However refunds, transfers, charges and awards overlap, what may be refunded is
\* never more than the credit on the account.
THEOREM RefundsLeaveCredit == CreditSpec => []RefundableWithinCredit
<1>1. CreditInv => RefundableWithinCredit
  BY RefundableLemma, ExcessAssumption DEF CreditInv, Requested, Amounts, RefundableWithinCredit
<1>2. QED
  BY <1>1, CreditInvAlways, PTL

\* However disbursements overlap, are repeated or die, an award is credited at
\* most once, and one marked as disbursed was credited.
THEOREM NeverCreditedTwice == CreditSpec => []CreditedOnce
<1>1. CreditInv => CreditedOnce
  BY DEF CreditInv, Disbursing, Credits, CreditedOnce, Fund!CreditedOnce
<1>2. QED
  BY <1>1, CreditInvAlways, PTL

\* An award with a chain is not credited before the chain is approved.
THEOREM ApprovedBeforeCredit == CreditSpec => []ChainBeforeCredit
<1>1. CreditInv => ChainBeforeCredit
  BY DEF CreditInv, Disbursing, ChainFirst
<1>2. QED
  BY <1>1, CreditInvAlways, PTL

\* However requests, approvals, refusals, disbursements and dying handlers overlap, no
\* more left the account than was free above the charges and the plan reserve; what
\* may be refunded stays within the credit; and where disbursements neither overlap
\* nor die, the credits of a fund stay within the fund.
THEOREM NothingIsOverdrawn == CreditSpec => []NothingOverdrawn
<1>1. Requested => RefundsCovered
  <2>1. SUFFICES ASSUME Requested, NoCharge PROVE RefundsCovered
    BY DEF RefundsCovered
  <2> DEFINE before == [ledger EXCEPT !.refunds = Opening.refunds, !.transfers = Opening.transfers]
             out == ledger.refunds - Opening.refunds
  <2>2. /\ ledger \in Totals /\ Opening \in Totals /\ Unpaid \in Nat
        /\ \/ ledger.refunds = Opening.refunds /\ ledger.transfers = Opening.transfers
           \/ Free(ledger) >= 0 /\ ledger.refunds >= Opening.refunds
                                /\ ledger.transfers = Opening.transfers
    BY <2>1, ExcessAssumption DEF Requested, Amounts, ValidatedIsFree
  <2>3. /\ before \in Totals /\ before.charges = ledger.charges /\ before.cash = ledger.cash
        /\ before.waivers = ledger.waivers /\ before.scholarship = ledger.scholarship
        /\ before.refunds = Opening.refunds /\ before.transfers = Opening.transfers
    BY <2>2 DEF Totals
  <2> HIDE DEF before
  <2>4. ledger.transfers = Opening.transfers /\ out \in Int /\ MaxRefundable(before, Unpaid, 0) \in Nat
    BY <2>2, <2>3 DEF Totals, MaxRefundable, CashTransferable, CashApplied,
       ChargesAfterScholarship, ScholarshipApplied, NetCharges, AtLeast0, Lesser
  <2>5. out <= MaxRefundable(before, Unpaid, 0)
    <3>1. CASE ledger.refunds = Opening.refunds
      BY <2>2, <2>4, <3>1 DEF Totals
    <3>2. CASE Free(ledger) >= 0
      BY <2>2, <2>3, <2>4, <3>2 DEF Free, Totals, MaxRefundable, CashTransferable, CashApplied,
         ChargesAfterScholarship, ScholarshipApplied, NetCharges, AtLeast0, Lesser
    <3>3. QED
      BY <2>2, <3>1, <3>2
  <2>6. out + (ledger.transfers - Opening.transfers) <= MaxRefundable(before, Unpaid, 0)
    BY <2>2, <2>4, <2>5 DEF Totals
  <2>7. QED
    BY <2>6 DEF before, RefundsCovered
<1>2. Requested => RefundableWithinCredit
  BY RefundableLemma, ExcessAssumption DEF Requested, Amounts, RefundableWithinCredit
<1>3. Disbursing => Fund!FundNotExceeded
  BY DEF Disbursing, SerialFund, Fund!FundNotExceeded
<1>4. CreditInv => NothingOverdrawn
  BY <1>1, <1>2, <1>3 DEF CreditInv, NothingOverdrawn
<1>5. QED
  BY <1>4, CreditInvAlways, PTL

\* Where handlers do not overlap and nothing was charged meanwhile, the second
\* validation of a refund agrees with the first: one whose chain was approved is
\* posted.
THEOREM ApprovedRefundPosted == CreditSpec => []ApprovedIsPosted
<1>1. CreditInv => ApprovedIsPosted
  BY DEF CreditInv, Requested, SerialCredit, ApprovedIsPosted, Working, Idle
<1>2. QED
  BY <1>1, CreditInvAlways, PTL

\* No transfer of excess credit is ever posted: the reference it would be posted
\* under is the one its own stored request carries.
THEOREM NoTransferPosted == CreditSpec => [](posted = {})
<1>1. CreditInv => posted = {}
  BY DEF CreditInv, Requested, Stages
<1>2. QED
  BY <1>1, CreditInvAlways, PTL
=============================================================================
