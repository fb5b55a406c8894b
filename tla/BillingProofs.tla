--------------------------- MODULE BillingProofs ----------------------------
(***************************************************************************)
(* What is proved of the enrollment status and of what it is billed as,    *)
(* for any students, requests, deletions, invoices, disputes and days, and *)
(* any number of calls at once.  Every step of StudentStatus is reduced to *)
(* what it does to the call that takes it and to the data (Does); each     *)
(* part of the invariant is kept by whatever does that.                    *)
(***************************************************************************)
EXTENDS Billing, SumTheorems, SequenceTheorems, TLAPS

(***************************************************************************)
(* The calls on students                                                   *)
(***************************************************************************)

\* An idle call has the item of NoCall, which is in Items even when nothing can be asked for.
Items == Requests \cup Deletions \cup {NoCall.item}
Known == [for : Purposes, student : Students, item : Items, to : Statuses,
          from : Statuses, known : Nat]

StatusTypes ==
    /\ mode \in {"serial", "overlap"}
    /\ status \in [Students -> Statuses \cup {"ABSENT"}]
    /\ changes \in [Students -> Seq(Entries)]
    /\ request \in [Requests -> {"none", "PENDING", "APPROVED", "REJECTED"}]
    /\ asked \in [Requests -> Nat]
    /\ chain \in [Requests -> {"none", "open", "over"}]
    /\ pc \in [Handlers -> Places]
    /\ call \in [Handlers -> Known]

\* The status of s is the one its log ends with.
Told(s) ==
    /\ status[s] = "ABSENT" => changes[s] = <<>>
    /\ status[s] # "ABSENT" =>
          status[s] = IF Len(changes[s]) = 0 THEN "ACTIVE" ELSE changes[s][Len(changes[s])].to

\* Change k of s made the student anything but ACTIVE.
Fixed(s, k) == k \in 1..Len(changes[s]) /\ changes[s][k].to # "ACTIVE"

OnRequest == {"ask", "initiate", "approved", "rejected", "load", "grant", "refuse"}

\* What is so of a call c that is at p: a call on a request works for the student of that
\* request, which exists unless the call is about to create it, and was asked for when the
\* student was not ACTIVE; a call that is to grant it has made the student ACTIVE since.
SoundAs(p, c) ==
    /\ p = "write" => status[c.student] # "ABSENT"
    /\ p \in {"execute_after", "execute", "change", "write"} => c.for # "none"
    /\ p \in OnRequest => c.for = "reactivate"
    /\ c.for = "reactivate" =>
          /\ c.item \in Requests /\ c.student = StudentOf[c.item] /\ c.to = "ACTIVE"
          /\ p = "ask" => request[c.item] = "none" /\ Fixed(c.student, c.known)
          /\ p # "ask" => request[c.item] # "none"
    /\ p = "grant" => ChangedTo(c.student, "ACTIVE", asked[c.item])

\* No two calls are about to create the same request.
Apart ==
    \A g, h \in Handlers :
        pc[g] = "ask" /\ pc[h] = "ask" /\ call[g].item = call[h].item => g = h

Recorded(r) ==
    /\ request[r] # "none" => Fixed(StudentOf[r], asked[r])
    /\ chain[r] # "none" => request[r] # "none"
    /\ request[r] = "APPROVED" => ChangedTo(StudentOf[r], "ACTIVE", asked[r])

StatusInv ==
    /\ StatusTypes
    /\ \A s \in Students : Told(s)
    /\ \A h \in Handlers : SoundAs(pc[h], call[h])
    /\ Apart
    /\ \A r \in Requests : Recorded(r)

\* When calls do not overlap there is one at most, and it writes over the status it read.
Serial ==
    mode = "serial" =>
        /\ \A g, h \in Handlers : pc[g] # "idle" /\ pc[h] # "idle" => g = h
        /\ \A h \in Handlers : pc[h] = "write" => call[h].from = status[call[h].student]

-----------------------------------------------------------------------------
(* What a step does *)

\* Call h goes on at p as c.
Moves(h, p, c) ==
    /\ pc' = [pc EXCEPT ![h] = p]
    /\ call' = [call EXCEPT ![h] = c]

Same == UNCHANGED <<status, changes, request, asked, chain>>

Logs(h) ==
    LET c == call[h] IN
    /\ pc[h] = "write"
    /\ changes' = [changes EXCEPT ![c.student] =
                     Append(@, [from |-> c.from, to |-> c.to,
                                billing |-> Implication(c.from, c.to)])]
    /\ status' = [status EXCEPT ![c.student] = c.to]
    /\ UNCHANGED <<request, asked, chain>>

Creates(h) ==
    /\ pc[h] = "ask"
    /\ request' = [request EXCEPT ![call[h].item] = "PENDING"]
    /\ asked' = [asked EXCEPT ![call[h].item] = call[h].known]
    /\ UNCHANGED <<status, changes, chain>>

Decides(h) ==
    /\ pc[h] \in {"grant", "refuse"}
    /\ request' = [request EXCEPT ![call[h].item] = IF pc[h] = "grant" THEN "APPROVED"
                                                    ELSE "REJECTED"]
    /\ UNCHANGED <<status, changes, asked, chain>>

Follows(h) ==
    /\ pc[h] \in {"initiate", "approved", "rejected"}
    /\ \E state \in {"open", "over"} : chain' = [chain EXCEPT ![call[h].item] = state]
    /\ UNCHANGED <<status, changes, request, asked>>

\* A step of call h: where it goes, and one of the effects above.  It begins only when it may,
\* and is about to write only what it has just read.
Does(h) ==
    \E p \in Places, c \in Known :
        /\ Moves(h, p, c)
        /\ SoundAs(p, c)'
        /\ mode' = mode
        /\ pc[h] = "idle" => (mode = "serial" => \A g \in Handlers : pc[g] = "idle")
        /\ p = "write" => c.from = status'[c.student]
        /\ p = "ask" => \A g \in Handlers : pc[g] = "ask" => call[g].item # c.item
        /\ Same \/ Logs(h) \/ Creates(h) \/ Decides(h) \/ Follows(h)

\* A step of no call.
Aside ==
    /\ UNCHANGED <<mode, pc, call, changes, request, asked, chain>>
    /\ \/ status' = status
       \/ /\ mode = "serial" => \A h \in Handlers : pc[h] = "idle"
          /\ \E s \in Students : status[s] = "ABSENT" /\ status' = [status EXCEPT ![s] = "ACTIVE"]

-----------------------------------------------------------------------------
(* Calls *)

LEMMA NoCallType == NoCall \in Known /\ NoCall.for = "none"
<1>1. AnyOf(Students) \in Students
  BY StudentAssumption DEF AnyOf
<1>2. NoCall.item \in Items
  BY DEF Items
<1>3. QED
  BY <1>1, <1>2 DEF NoCall, Known, Purposes, Statuses

\* The calls that handlers start with.
LEMMA ChangeType ==
    ASSUME NEW purpose \in Purposes, NEW s \in Students, NEW to \in Statuses
    PROVE  /\ Change(purpose, s, to) \in Known
           /\ Change(purpose, s, to).for = purpose
           /\ Change(purpose, s, to).student = s
           /\ Change(purpose, s, to).to = to
<1> DEFINE n == NoCall
<1>1. n \in Known
  BY NoCallType
<1> HIDE DEF n
<1>2. [n EXCEPT !.for = purpose, !.student = s, !.to = to] \in Known
  BY <1>1 DEF Known
<1>3. /\ [n EXCEPT !.for = purpose, !.student = s, !.to = to].for = purpose
      /\ [n EXCEPT !.for = purpose, !.student = s, !.to = to].student = s
      /\ [n EXCEPT !.for = purpose, !.student = s, !.to = to].to = to
  BY <1>1 DEF Known
<1>4. QED
  BY <1>2, <1>3 DEF Change, n

LEMMA ReactivationType ==
    ASSUME NEW r \in Requests
    PROVE  /\ Reactivation(r) \in Known
           /\ Reactivation(r).for = "reactivate"
           /\ Reactivation(r).student = StudentOf[r]
           /\ Reactivation(r).to = "ACTIVE"
           /\ Reactivation(r).item = r
<1> DEFINE n == Change("reactivate", StudentOf[r], "ACTIVE")
<1>1. StudentOf[r] \in Students
  BY StudentAssumption
<1>2. /\ n \in Known /\ n.for = "reactivate" /\ n.student = StudentOf[r] /\ n.to = "ACTIVE"
  BY <1>1, ChangeType DEF Purposes, Statuses
<1>3. r \in Items
  BY DEF Items
<1> HIDE DEF n
<1>4. [n EXCEPT !.item = r] \in Known
  BY <1>2, <1>3 DEF Known
<1>5. /\ [n EXCEPT !.item = r].for = "reactivate"
      /\ [n EXCEPT !.item = r].student = StudentOf[r]
      /\ [n EXCEPT !.item = r].to = "ACTIVE"
      /\ [n EXCEPT !.item = r].item = r
  BY <1>2, <1>3 DEF Known
<1>6. QED
  BY <1>4, <1>5 DEF Reactivation, n

LEMMA ErasureType ==
    ASSUME NEW w \in Deletions
    PROVE  Erasure(w) \in Known /\ Erasure(w).for = "delete"
<1> DEFINE n == Change("delete", StudentOf[w], "PERMANENTLY_DELETED")
<1>1. StudentOf[w] \in Students
  BY StudentAssumption
<1>2. n \in Known /\ n.for = "delete"
  BY <1>1, ChangeType DEF Purposes, Statuses
<1>3. w \in Items
  BY DEF Items
<1> HIDE DEF n
<1>4. [n EXCEPT !.item = w] \in Known /\ [n EXCEPT !.item = w].for = "delete"
  BY <1>2, <1>3 DEF Known
<1>5. QED
  BY <1>4 DEF Erasure, n

LEMMA KnownType ==
    ASSUME NEW k \in Known, NEW n \in Nat
    PROVE  LET c == [k EXCEPT !.known = n]
           IN  c \in Known /\ c.for = k.for /\ c.student = k.student /\ c.to = k.to
               /\ c.item = k.item /\ c.known = n
BY DEF Known

\* Sound calls stay what they are as long as the data is.
LEMMA SoundSame ==
    ASSUME NEW p, NEW c, SoundAs(p, c), Same
    PROVE  SoundAs(p, c)'
BY DEF SoundAs, Same, Fixed, ChangedTo

LEMMA SoundIdle ==
    SoundAs("idle", NoCall)'
BY NoCallType DEF SoundAs, OnRequest

\* A call that may begin begins alone when calls do not overlap.
LEMMA MayAlone ==
    ASSUME NEW h \in Handlers, May(h)
    PROVE  pc[h] = "idle" /\ (mode = "serial" => \A g \in Handlers : pc[g] = "idle")
<1> DEFINE busy == {g \in Handlers : pc[g] # "idle"}
<1>1. SUFFICES ASSUME mode = "serial" PROVE \A g \in Handlers : pc[g] = "idle"
  BY DEF May
<1>2. IsFiniteSet(busy)
  BY StudentAssumption, FS_Subset
<1>3. Cardinality(busy) < 1
  BY <1>1 DEF May, Limit
<1>4. busy = {}
  <2> HIDE DEF busy
  <2>1. Cardinality(busy) \in Nat
    BY <1>2, FS_CardinalityType
  <2>2. Cardinality(busy) = 0
    BY <1>3, <2>1
  <2>3. QED
    BY <1>2, <2>2, FS_EmptySet
<1>5. QED
  BY <1>4

\* What begins as a sound call is a step.
LEMMA StartDoes ==
    ASSUME StatusInv, NEW h \in Handlers, NEW p \in Places, NEW c \in Known, Start(h, p, c),
           SoundAs(p, c), p # "write",
           p = "ask" => \A g \in Handlers : pc[g] = "ask" => call[g].item # c.item
    PROVE  Does(h)
<1>1. Moves(h, p, c) /\ mode' = mode /\ Same
  BY DEF Start, Moves, Same, people, flows
<1>2. SoundAs(p, c)'
  BY <1>1, SoundSame
<1>3. pc[h] = "idle" => (mode = "serial" => \A g \in Handlers : pc[g] = "idle")
  BY MayAlone DEF Start
<1>4. QED
  BY <1>1, <1>2, <1>3 DEF Does

\* So is what ends a call.
LEMMA EndDoes ==
    ASSUME StatusInv, NEW h \in Handlers, Goto(h, "idle"), pc[h] # "idle", mode' = mode,
           Same \/ Logs(h) \/ Creates(h) \/ Decides(h) \/ Follows(h)
    PROVE  Does(h)
<1>1. Moves(h, "idle", NoCall)
  BY DEF Goto, Moves
<1>2. "idle" \in Places /\ NoCall \in Known
  BY NoCallType DEF Places
<1>3. SoundAs("idle", NoCall)'
  BY SoundIdle
<1>4. QED
  BY <1>1, <1>2, <1>3 DEF Does

\* And what goes on with the same call.
LEMMA GotoDoes ==
    ASSUME StatusInv, NEW h \in Handlers, NEW p \in Places \ {"idle", "write", "ask"},
           NEW c \in Known, c = call[h],
           Goto(h, p), pc[h] # "idle", mode' = mode, SoundAs(p, c)',
           Same \/ Logs(h) \/ Creates(h) \/ Decides(h) \/ Follows(h)
    PROVE  Does(h)
<1>1. pc' = [pc EXCEPT ![h] = p] /\ call' = call
  BY DEF Goto
<1>2. call = [call EXCEPT ![h] = c]
  BY DEF StatusInv, StatusTypes
<1>3. Moves(h, p, c)
  BY <1>1, <1>2 DEF Moves
<1>4. QED
  BY <1>3 DEF Does

-----------------------------------------------------------------------------
(* The transaction that changes a status *)

\* Where a call on a student may go once the status is what it asked for.
LEMMA ThenGoes ==
    ASSUME StatusInv, NEW h \in Handlers, pc[h] \in {"change", "write"}
    PROVE  /\ Then(h) \in {"idle", "stamp", "grant", "anonymise"}
           /\ Then(h) = "grant" => call[h].for = "reactivate"
<1>1. call[h].for \in {"patch", "graduate", "reactivate", "delete"}
  BY DEF StatusInv, StatusTypes, SoundAs, Known, Purposes
<1>2. QED
  BY <1>1 DEF Then

\* A student who is ACTIVE was made so after any change that was not to ACTIVE.
LEMMA ActiveSince ==
    ASSUME NEW s \in Students, NEW k \in Nat, changes[s] \in Seq(Entries),
           Told(s), Fixed(s, k), status[s] = "ACTIVE"
    PROVE  ChangedTo(s, "ACTIVE", k)
<1> DEFINE n == Len(changes[s])
<1>1. n \in Nat /\ DOMAIN changes[s] = 1..n
  OBVIOUS
<1>2. k \in 1..n /\ changes[s][k].to # "ACTIVE"
  BY DEF Fixed
<1>3. changes[s][n].to = "ACTIVE" /\ n \in 1..n
  BY <1>1, <1>2 DEF Told
<1> HIDE DEF n
<1>4. n > k
  <2>1. n # k
    BY <1>2, <1>3
  <2>2. QED
    BY <1>1, <1>2, <2>1
<1>5. QED
  BY <1>1, <1>3, <1>4 DEF ChangedTo

LEMMA FromType ==
    ASSUME NEW k \in Known, NEW x \in Statuses
    PROVE  LET c == [k EXCEPT !.from = x]
           IN  c \in Known /\ c.for = k.for /\ c.student = k.student /\ c.to = k.to
               /\ c.from = x /\ c.item = k.item /\ c.known = k.known
BY DEF Known

LEMMA ReadStatusDoes ==
    ASSUME StatusInv, NEW h \in Handlers, ReadStatus(h)
    PROVE  Does(h)
<1> DEFINE s == call[h].student
           c == [call[h] EXCEPT !.from = status[s]]
<1>1. /\ pc[h] = "change" /\ mode' = mode /\ Same /\ s \in Students /\ call[h] \in Known
      /\ SoundAs("change", call[h]) /\ Told(s) /\ changes[s] \in Seq(Entries)
  BY DEF ReadStatus, At, people, flows, Same, StatusInv, StatusTypes, Known
<1>2. /\ pc' = [pc EXCEPT ![h] = pc'[h]]
      /\ pc'[h] = IF ~Present(s) THEN "idle"
                    ELSE IF status[s] = call[h].to THEN Then(h) ELSE "write"
      /\ call' = [call EXCEPT ![h] = IF pc'[h] = "idle" THEN NoCall ELSE c]
  BY DEF ReadStatus, StatusInv, StatusTypes
<1>3. CASE pc'[h] = "idle"
  <2>1. Moves(h, "idle", NoCall)
    BY <1>2, <1>3 DEF Moves
  <2>2. QED
    BY <1>1, <2>1, SoundIdle, NoCallType DEF Does, Places
<1>4. ASSUME pc'[h] # "idle" PROVE Does(h)
  <2>1. Present(s) /\ status[s] \in Statuses
    <3> HIDE DEF c, s
    <3>1. Present(s)
      BY <1>2, <1>4
    <3>2. s \in Students
      BY <1>1
    <3>3. QED
      BY <3>1, <3>2 DEF Present, StatusInv, StatusTypes
  <2>2. c \in Known /\ c.for = call[h].for /\ c.student = s /\ c.to = call[h].to
        /\ c.from = status[s] /\ c.item = call[h].item /\ c.known = call[h].known
    BY <1>1, <2>1, FromType
  <2>3. call' = [call EXCEPT ![h] = c]
    BY <1>2, <1>4
  <2> HIDE DEF c
  <2>4. CASE status[s] = call[h].to
    <3>1. pc'[h] = Then(h) /\ pc'[h] \in {"stamp", "grant", "anonymise"}
      BY <1>1, <1>2, <1>4, <2>1, <2>4, ThenGoes
    <3>2. pc'[h] = "grant" => ChangedTo(c.student, "ACTIVE", asked[c.item])
      <4>1. SUFFICES ASSUME pc'[h] = "grant" PROVE ChangedTo(s, "ACTIVE", asked[call[h].item])
        BY <2>2
      <4>2. call[h].for = "reactivate"
        BY <1>1, <3>1, <4>1, ThenGoes
      <4>3. /\ call[h].item \in Requests /\ s = StudentOf[call[h].item]
            /\ call[h].to = "ACTIVE" /\ request[call[h].item] # "none"
        BY <1>1, <4>2 DEF SoundAs
      <4>4. Fixed(s, asked[call[h].item]) /\ asked[call[h].item] \in Nat
        BY <4>3 DEF StatusInv, StatusTypes, Recorded
      <4>5. QED
        BY <1>1, <2>4, <4>3, <4>4, ActiveSince
    <3>3. \A p \in {"stamp", "grant", "anonymise"} : p = pc'[h] => SoundAs(p, c)
      <4>1. call[h].for = "reactivate" =>
              /\ call[h].item \in Requests /\ s = StudentOf[call[h].item]
              /\ call[h].to = "ACTIVE" /\ request[call[h].item] # "none"
        BY <1>1 DEF SoundAs
      <4>2. pc'[h] = "grant" => c.for = "reactivate"
        BY <1>1, <2>2, <3>1, ThenGoes
      <4>3. QED
        BY <2>2, <3>2, <4>1, <4>2 DEF SoundAs, OnRequest
    <3>4. PICK p \in {"stamp", "grant", "anonymise"} : p = pc'[h]
      BY <3>1
    <3>5. SoundAs(p, c)
      BY <3>3, <3>4
    <3>6. PICK k \in Known : k = c
      BY <2>2
    <3>7. SoundAs(p, k)
      BY <3>5, <3>6
    <3>8. SoundAs(p, k)'
      BY <1>1, <3>7, SoundSame
    <3>9. Moves(h, p, k)
      BY <1>2, <2>3, <3>4, <3>6 DEF Moves
    <3>10. p \in Places /\ p # "write" /\ p # "ask"
      BY <3>4 DEF Places
    <3>11. QED
      BY <1>1, <3>8, <3>9, <3>10 DEF Does
  <2>5. CASE status[s] # call[h].to
    <3>1. pc'[h] = "write"
      BY <1>2, <2>1, <2>5
    <3>2. SoundAs("write", c)
      BY <1>1, <2>1, <2>2 DEF SoundAs, OnRequest, Statuses
    <3>3. PICK k \in Known : k = c
      BY <2>2
    <3>4. SoundAs("write", k)
      BY <3>2, <3>3
    <3>5. SoundAs("write", k)'
      BY <1>1, <3>4, SoundSame
    <3>6. Moves(h, "write", k)
      BY <1>2, <2>3, <3>1, <3>3 DEF Moves
    <3>7. k.from = status'[k.student]
      BY <1>1, <2>2, <3>3 DEF Same
    <3>8. QED
      BY <1>1, <3>5, <3>6, <3>7 DEF Does, Places
  <2>6. QED
    BY <2>4, <2>5
<1>5. QED
  BY <1>3, <1>4

\* A logged change stays where it is, and is the last one.
LEMMA LogGrows ==
    ASSUME StatusInv, NEW h \in Handlers, Logs(h)
    PROVE  LET s == call[h].student
               n == Len(changes[s])
               e == [from |-> call[h].from, to |-> call[h].to,
                     billing |-> Implication(call[h].from, call[h].to)]
           IN  /\ s \in Students /\ n \in Nat /\ e \in Entries
               /\ changes'[s] \in Seq(Entries) /\ Len(changes'[s]) = n + 1
               /\ changes'[s][n + 1] = e
               /\ \A i \in 1..n : changes'[s][i] = changes[s][i]
               /\ \A x \in Students : x # s => changes'[x] = changes[x]
<1> DEFINE s == call[h].student
           e == [from |-> call[h].from, to |-> call[h].to,
                 billing |-> Implication(call[h].from, call[h].to)]
<1>1. s \in Students /\ call[h].from \in Statuses /\ call[h].to \in Statuses
  BY DEF StatusInv, StatusTypes, Known
<1>2. e \in Entries
  BY <1>1 DEF Entries, Implication
<1>3. changes \in [Students -> Seq(Entries)]
  BY DEF StatusInv, StatusTypes
<1> HIDE DEF e
<1>4. changes' = [changes EXCEPT ![s] = Append(changes[s], e)]
  BY DEF Logs, e
<1>5. changes'[s] = Append(changes[s], e) /\ \A x \in Students : x # s => changes'[x] = changes[x]
  BY <1>1, <1>3, <1>4
<1>6. QED
  BY <1>1, <1>2, <1>3, <1>5 DEF e

LEMMA WriteStatusDoes ==
    ASSUME StatusInv, NEW h \in Handlers, WriteStatus(h)
    PROVE  Does(h)
<1> DEFINE s == call[h].student
<1>1. /\ pc[h] = "write" /\ mode' = mode /\ Logs(h) /\ s \in Students /\ call[h] \in Known
      /\ SoundAs("write", call[h]) /\ Goto(h, Then(h))
  BY DEF WriteStatus, At, flows, Logs, StatusInv, StatusTypes, Known
<1>2. CASE Then(h) = "idle"
  BY <1>1, <1>2, EndDoes
<1>3. ASSUME Then(h) # "idle" PROVE Does(h)
  <2>1. PICK p \in {"stamp", "grant", "anonymise"} : p = Then(h)
    BY <1>1, <1>3, ThenGoes
  <2>2. PICK c \in Known : c = call[h]
    BY <1>1
  <2>3. p = "grant" => c.for = "reactivate"
    BY <1>1, <2>1, <2>2, ThenGoes
  <2>4. c.for = "reactivate" =>
           /\ c.item \in Requests /\ c.student = StudentOf[c.item] /\ c.to = "ACTIVE"
           /\ request[c.item] # "none"
    BY <1>1, <2>2 DEF SoundAs
  <2>5. (p = "grant" => ChangedTo(c.student, "ACTIVE", asked[c.item]))'
    <3> DEFINE x == c.student
               k == c.item
               n == Len(changes[x])
    <3>1. SUFFICES ASSUME p = "grant" PROVE ChangedTo(x, "ACTIVE", asked[k])'
      OBVIOUS
    <3>2. k \in Requests /\ x = StudentOf[k] /\ c.to = "ACTIVE" /\ request[k] # "none"
      BY <2>3, <2>4, <3>1
    <3>3. Fixed(x, asked[k]) /\ asked[k] \in Nat /\ asked'[k] = asked[k]
      BY <1>1, <3>2 DEF StatusInv, StatusTypes, Recorded, Logs
    <3>4. n \in Nat /\ Len(changes'[x]) = n + 1 /\ changes'[x][n + 1].to = "ACTIVE"
          /\ changes'[x] \in Seq(Entries)
      <4>1. /\ n \in Nat /\ Len(changes'[x]) = n + 1 /\ changes'[x] \in Seq(Entries)
            /\ changes'[x][n + 1] = [from |-> c.from, to |-> c.to,
                                     billing |-> Implication(c.from, c.to)]
        BY <1>1, <2>2, LogGrows, Zenon
      <4>2. QED
        BY <3>2, <4>1
    <3>5. n + 1 > asked[k] /\ n + 1 \in DOMAIN changes'[x]
      BY <3>3, <3>4 DEF Fixed
    <3>6. \E i \in DOMAIN changes'[x] : i > asked'[k] /\ changes'[x][i].to = "ACTIVE"
      BY <3>3, <3>4, <3>5
    <3>7. QED
      BY <3>6 DEF ChangedTo
  <2>6. SoundAs(p, c)'
    <3>1. request' = request
      BY <1>1 DEF Logs
    <3>2. QED
      BY <2>1, <2>3, <2>4, <2>5, <3>1 DEF SoundAs, OnRequest
  <2>7. QED
    BY <1>1, <2>1, <2>2, <2>6, GotoDoes DEF Places
<1>4. QED
  BY <1>2, <1>3

-----------------------------------------------------------------------------
(* The other steps of a call *)

LEMMA PatchDoes ==
    ASSUME StatusInv, NEW h \in Handlers, NEW s \in Students, NEW to \in Statuses, Patch(h, s, to)
    PROVE  Does(h)
<1>1. PICK c \in Known : c = Change("patch", s, to) /\ c.for = "patch"
  BY ChangeType DEF Purposes
<1>2. Start(h, "change", c)
  BY <1>1 DEF Patch
<1>3. SoundAs("change", c)
  BY <1>1 DEF SoundAs, OnRequest
<1>4. QED
  BY <1>2, <1>3, StartDoes DEF Places

LEMMA GraduateDoes ==
    ASSUME StatusInv, NEW h \in Handlers, NEW s \in Students, Graduate(h, s)
    PROVE  Does(h)
<1>1. PICK c \in Known : c = Change("graduate", s, "GRADUATED") /\ c.for = "graduate"
  BY ChangeType DEF Purposes, Statuses
<1>2. Start(h, "change", c)
  BY <1>1 DEF Graduate
<1>3. SoundAs("change", c)
  BY <1>1 DEF SoundAs, OnRequest
<1>4. QED
  BY <1>2, <1>3, StartDoes DEF Places

LEMMA AskDoes ==
    ASSUME StatusInv, NEW h \in Handlers, NEW r \in Requests, Ask(h, r)
    PROVE  Does(h)
<1> DEFINE s == StudentOf[r]
           n == Len(changes[s])
<1>1. s \in Students /\ changes[s] \in Seq(Entries) /\ n \in Nat
  BY StudentAssumption DEF StatusInv, StatusTypes
<1>2. PICK k \in Known : k = Reactivation(r) /\ k.for = "reactivate" /\ k.student = s
                         /\ k.to = "ACTIVE" /\ k.item = r
  BY ReactivationType
<1>3. PICK c \in Known : c = [k EXCEPT !.known = n]
  BY <1>1, KnownType
<1>4. c.for = "reactivate" /\ c.student = s /\ c.to = "ACTIVE" /\ c.item = r /\ c.known = n
  BY <1>1, <1>2, <1>3, KnownType
<1>5. Start(h, "ask", c)
  BY <1>2, <1>3 DEF Ask
<1>6. Fixed(s, n)
  <2>1. status[s] # "ACTIVE" /\ status[s] # "ABSENT" /\ Told(s)
    BY <1>1 DEF Ask, Present, StatusInv
  <2>2. n # 0 /\ changes[s][n].to = status[s]
    BY <2>1 DEF Told
  <2>3. QED
    BY <1>1, <2>1, <2>2 DEF Fixed
<1>7. SoundAs("ask", c)
  BY <1>4, <1>6 DEF SoundAs, OnRequest, Ask
<1>8. \A g \in Handlers : pc[g] = "ask" => call[g].item # c.item
  <2>1. SUFFICES ASSUME NEW g \in Handlers, pc[g] = "ask", call[g].item = r PROVE FALSE
    BY <1>4
  <2>2. call[g].for = "reactivate"
    BY <2>1 DEF StatusInv, SoundAs, OnRequest
  <2>3. Busy(r)
    BY <2>1, <2>2 DEF Busy
  <2>4. QED
    BY <2>3 DEF Ask
<1>9. QED
  BY <1>5, <1>7, <1>8, StartDoes DEF Places

\* A call on a request that exists is sound wherever it begins.
LEMMA ReactivationDoes ==
    ASSUME StatusInv, NEW h \in Handlers, NEW r \in Requests, request[r] # "none",
           NEW p \in {"change", "refuse", "approved", "rejected"}, Start(h, p, Reactivation(r))
    PROVE  Does(h)
<1>1. PICK c \in Known :
         /\ c = Reactivation(r)
         /\ c.for = "reactivate" /\ c.student = StudentOf[r] /\ c.to = "ACTIVE" /\ c.item = r
  BY ReactivationType
<1>2. SoundAs(p, c)
  BY <1>1 DEF SoundAs, OnRequest
<1>3. QED
  BY <1>1, <1>2, StartDoes DEF Places

LEMMA DecisionDoes ==
    ASSUME StatusInv, NEW h \in Handlers, NEW r \in Requests,
           Approve(h, r) \/ Reject(h, r) \/ Decide(h, r)
    PROVE  Does(h)
<1>1. CASE Approve(h, r)
  BY <1>1, ReactivationDoes DEF Approve, FirstGranted
<1>2. CASE Reject(h, r)
  BY <1>2, ReactivationDoes DEF Reject
<1>3. CASE Decide(h, r)
  <2>1. request[r] # "none"
    BY <1>3 DEF Decide, StatusInv, Recorded
  <2>2. PICK p \in {"approved", "rejected"} : Start(h, p, Reactivation(r))
    BY <1>3 DEF Decide
  <2>3. QED
    BY <2>1, <2>2, ReactivationDoes
<1>4. QED
  BY <1>1, <1>2, <1>3

\* Calls that are on a request, and the request they are on.
LEMMA OnRequestSound ==
    ASSUME StatusInv, NEW h \in Handlers, pc[h] \in OnRequest
    PROVE  /\ call[h] \in Known /\ call[h].for = "reactivate" /\ call[h].item \in Requests
           /\ call[h].student = StudentOf[call[h].item] /\ call[h].to = "ACTIVE"
           /\ pc[h] = "ask" => request[call[h].item] = "none"
           /\ pc[h] = "ask" => Fixed(call[h].student, call[h].known)
           /\ pc[h] # "ask" => request[call[h].item] # "none"
BY DEF StatusInv, StatusTypes, SoundAs

LEMMA CreateRequestDoes ==
    ASSUME StatusInv, NEW h \in Handlers, CreateRequest(h)
    PROVE  Does(h)
<1>1. pc[h] = "ask" /\ Goto(h, "initiate") /\ mode' = mode /\ Creates(h)
  BY DEF CreateRequest, At, people, Creates
<1>2. PICK c \in Known : c = call[h]
  BY <1>1, OnRequestSound DEF OnRequest
<1>3. c.for = "reactivate" /\ c.item \in Requests /\ c.student = StudentOf[c.item]
      /\ c.to = "ACTIVE"
  BY <1>1, <1>2, OnRequestSound DEF OnRequest
<1>4. request'[c.item] = "PENDING"
  BY <1>1, <1>2, <1>3 DEF Creates, StatusInv, StatusTypes
<1>5. SoundAs("initiate", c)'
  BY <1>3, <1>4 DEF SoundAs, OnRequest
<1>6. QED
  BY <1>1, <1>2, <1>5, GotoDoes DEF Places

LEMMA EndChainDoes ==
    ASSUME StatusInv, NEW h \in Handlers, EndChain(h)
    PROVE  Does(h)
<1>1. pc[h] \in {"approved", "rejected"} /\ mode' = mode
      /\ UNCHANGED <<status, changes, request, asked>>
      /\ chain' = [chain EXCEPT ![call[h].item] = "over"]
  BY DEF EndChain, people
<1>2. PICK p \in {"load", "refuse"} : Goto(h, p)
  BY DEF EndChain
<1>3. PICK c \in Known : c = call[h]
  BY <1>1, OnRequestSound DEF OnRequest
<1>4. /\ c.for = "reactivate" /\ c.item \in Requests /\ c.student = StudentOf[c.item]
      /\ c.to = "ACTIVE" /\ request'[c.item] # "none"
  BY <1>1, <1>3, OnRequestSound DEF OnRequest
<1>5. SoundAs(p, c)'
  BY <1>4, <1>2 DEF SoundAs, OnRequest
<1>6. Follows(h)
  BY <1>1 DEF Follows
<1>7. p \in Places \ {"idle", "write", "ask"} /\ pc[h] # "idle"
  BY <1>1, <1>2 DEF Places
<1>8. QED
  BY <1>1, <1>2, <1>3, <1>5, <1>6, <1>7, GotoDoes

LEMMA LoadDoes ==
    ASSUME StatusInv, NEW h \in Handlers, Load(h)
    PROVE  Does(h)
<1>1. pc[h] = "load" /\ mode' = mode /\ Same
  BY DEF Load, At, people, flows, Same
<1>2. CASE Goto(h, "idle")
  BY <1>1, <1>2, EndDoes
<1>3. CASE Goto(h, "change")
  <2>1. PICK c \in Known : c = call[h]
    BY <1>1, OnRequestSound DEF OnRequest
  <2>2. /\ c.for = "reactivate" /\ c.item \in Requests /\ c.student = StudentOf[c.item]
        /\ c.to = "ACTIVE" /\ request'[c.item] # "none"
    BY <1>1, <2>1, OnRequestSound DEF OnRequest, Same
  <2>3. SoundAs("change", c)'
    BY <2>2 DEF SoundAs, OnRequest
  <2>4. QED
    BY <1>1, <1>3, <2>1, <2>3, GotoDoes DEF Places
<1>4. QED
  BY <1>2, <1>3 DEF Load, FirstGranted

LEMMA DeletionDoes ==
    ASSUME StatusInv, NEW h \in Handlers, NEW w \in Deletions,
           AskDeletion(h, w) \/ DecideDeletion(h, w)
    PROVE  Does(h)
<1>1. PICK p \in {"initiate_deletion", "execute_after", "drop"} : Start(h, p, Erasure(w))
  BY DEF AskDeletion, DecideDeletion
<1>2. PICK c \in Known : c = Erasure(w) /\ c.for = "delete"
  BY ErasureType
<1>3. SoundAs(p, c)
  BY <1>1, <1>2 DEF SoundAs, OnRequest
<1>4. p \in Places /\ p # "write" /\ p # "ask" /\ Start(h, p, c)
  BY <1>1, <1>2 DEF Places
<1>5. QED
  BY <1>3, <1>4, StartDoes

\* The steps of a deletion, in which nothing but the call matters here.
LEMMA ErasingDoes ==
    ASSUME StatusInv, NEW h \in Handlers,
           InitiateDeletion(h) \/ EndDeletion(h) \/ Execute(h) \/ Anonymise(h)
    PROVE  Does(h)
<1>1. /\ pc[h] \in {"initiate_deletion", "execute_after", "drop", "execute", "anonymise"}
      /\ mode' = mode /\ Same
  BY Zenon DEF InitiateDeletion, EndDeletion, Execute, Anonymise, At, people, flows, Same
<1>2. CASE Goto(h, "idle")
  BY <1>1, <1>2, EndDoes
<1>3. ASSUME NEW p \in {"execute", "change"}, Goto(h, p), pc[h] \in {"execute_after", "execute"}
      PROVE  Does(h)
  <2>1. PICK c \in Known : c = call[h]
    BY DEF StatusInv, StatusTypes
  <2>2. SoundAs(pc[h], c)
    BY <2>1 DEF StatusInv
  <2>3. c.for # "none"
    BY <1>1, <1>3, <2>2 DEF SoundAs
  <2>4. SoundAs(p, c)
    BY <1>1, <1>3, <2>2, <2>3 DEF SoundAs, OnRequest
  <2>5. SoundAs(p, c)'
    BY <1>1, <2>4, SoundSame
  <2>6. p \in Places \ {"idle", "write", "ask"} /\ pc[h] # "idle"
    BY <1>1, <1>3 DEF Places
  <2>7. QED
    BY <1>1, <1>3, <2>1, <2>5, <2>6, GotoDoes
<1>4. QED
  BY <1>1, <1>2, <1>3 DEF InitiateDeletion, EndDeletion, Execute, Anonymise, At

\* The steps that end a call.
LEMMA EndingDoes ==
    ASSUME StatusInv, NEW h \in Handlers,
           Stamp(h) \/ Initiate(h) \/ Grant(h) \/ Refuse(h) \/ Die(h)
    PROVE  Does(h)
<1>1. pc[h] # "idle" /\ Goto(h, "idle") /\ mode' = mode
  BY DEF Stamp, Initiate, Grant, Refuse, Die, At
<1>2. Same \/ Decides(h) \/ Follows(h)
  BY DEF Stamp, Initiate, Grant, Refuse, Die, At, people, flows, Same, Decides, Follows
<1>3. QED
  BY <1>1, <1>2, EndDoes

\* Every step is one of a call or of none.
LEMMA StatusStep ==
    ASSUME StatusInv, [Next]_vars
    PROVE  Aside \/ \E h \in Handlers : Does(h)
<1>1. CASE UNCHANGED vars
  BY <1>1 DEF vars, people, flows, Aside
<1>2. ASSUME NEW s \in Students, Admit(s) \/ SoftDelete(s) PROVE Aside
  BY <1>2 DEF Admit, SoftDelete, Aside, At, flows
<1>3. ASSUME NEW w \in Deletions, Escalate(w) PROVE Aside
  BY <1>3 DEF Escalate, people, Aside
<1>4. ASSUME NEW h \in Handlers, Step(h) \/ Die(h) PROVE Does(h)
  BY <1>4, ReadStatusDoes, WriteStatusDoes, EndingDoes, CreateRequestDoes, EndChainDoes,
     LoadDoes, ErasingDoes, Zenon DEF Step, ChangeStep
<1>5. ASSUME NEW h \in Handlers, NEW s \in Students,
             Graduate(h, s) \/ \E to \in Statuses : Patch(h, s, to)
      PROVE  Does(h)
  BY <1>5, GraduateDoes, PatchDoes
<1>6. ASSUME NEW h \in Handlers, NEW r \in Requests,
             Ask(h, r) \/ Approve(h, r) \/ Reject(h, r) \/ Decide(h, r)
      PROVE  Does(h)
  BY <1>6, AskDoes, DecisionDoes
<1>7. ASSUME NEW h \in Handlers, NEW w \in Deletions, AskDeletion(h, w) \/ DecideDeletion(h, w)
      PROVE  Does(h)
  BY <1>7, DeletionDoes
<1>8. QED
  BY <1>1, <1>2, <1>3, <1>4, <1>5, <1>6, <1>7, Zenon DEF Next

-----------------------------------------------------------------------------
(* What every step keeps *)

\* Logs only grow, and a student who is admitted stays so.
LEMMA Grows ==
    ASSUME StatusInv, Aside \/ \E h \in Handlers : Does(h), NEW s \in Students
    PROVE  /\ Len(changes[s]) \in Nat /\ Len(changes'[s]) \in Nat
           /\ Len(changes[s]) <= Len(changes'[s])
           /\ \A i \in 1..Len(changes[s]) : changes'[s][i] = changes[s][i]
           /\ DOMAIN changes[s] = 1..Len(changes[s]) /\ DOMAIN changes'[s] = 1..Len(changes'[s])
           /\ status[s] # "ABSENT" => status'[s] # "ABSENT"
<1>1. changes[s] \in Seq(Entries) /\ status \in [Students -> Statuses \cup {"ABSENT"}]
  BY DEF StatusInv, StatusTypes
<1>2. CASE changes' = changes /\ status' = status
  BY <1>1, <1>2
<1>3. CASE Aside
  BY <1>1, <1>3 DEF Aside
<1>4. ASSUME NEW h \in Handlers, Logs(h)
      PROVE  /\ Len(changes[s]) \in Nat /\ Len(changes'[s]) \in Nat
             /\ Len(changes[s]) <= Len(changes'[s])
             /\ \A i \in 1..Len(changes[s]) : changes'[s][i] = changes[s][i]
             /\ DOMAIN changes[s] = 1..Len(changes[s])
             /\ DOMAIN changes'[s] = 1..Len(changes'[s])
             /\ status[s] # "ABSENT" => status'[s] # "ABSENT"
  <2> DEFINE x == call[h].student
  <2>1. /\ x \in Students /\ Len(changes[x]) \in Nat /\ changes'[x] \in Seq(Entries)
        /\ Len(changes'[x]) = Len(changes[x]) + 1
        /\ \A i \in 1..Len(changes[x]) : changes'[x][i] = changes[x][i]
        /\ \A z \in Students : z # x => changes'[z] = changes[z]
    BY <1>4, LogGrows, Zenon
  <2>2. status' = [status EXCEPT ![x] = call[h].to] /\ call[h].to \in Statuses
    BY <1>4 DEF Logs, StatusInv, StatusTypes, Known
  <2>3. status[s] # "ABSENT" => status'[s] # "ABSENT"
    BY <1>1, <2>2 DEF Statuses
  <2> HIDE DEF x
  <2>4. CASE s = x
    BY <1>1, <2>1, <2>3, <2>4
  <2>5. CASE s # x
    BY <1>1, <2>1, <2>3, <2>5
  <2>6. QED
    BY <2>4, <2>5
<1>5. QED
  BY <1>2, <1>3, <1>4 DEF Does, Same, Creates, Decides, Follows

LEMMA FixedStays ==
    ASSUME StatusInv, Aside \/ \E h \in Handlers : Does(h), NEW s \in Students, NEW k,
           Fixed(s, k)
    PROVE  Fixed(s, k)'
BY Grows DEF Fixed

LEMMA ChangedStays ==
    ASSUME StatusInv, Aside \/ \E h \in Handlers : Does(h), NEW s \in Students,
           NEW to, NEW k, ChangedTo(s, to, k)
    PROVE  ChangedTo(s, to, k)'
<1>1. PICK i \in DOMAIN changes[s] : i > k /\ changes[s][i].to = to
  BY DEF ChangedTo
<1>2. i \in DOMAIN changes'[s] /\ changes'[s][i] = changes[s][i]
  BY <1>1, Grows
<1>3. QED
  BY <1>1, <1>2 DEF ChangedTo

\* Calls and data keep their types.
LEMMA StatusTypesKept ==
    ASSUME StatusInv, Aside \/ \E h \in Handlers : Does(h)
    PROVE  StatusTypes'
<1>1. CASE Aside
  BY <1>1 DEF Aside, StatusInv, StatusTypes, Statuses
<1>2. ASSUME NEW h \in Handlers, Does(h) PROVE StatusTypes'
  <2>1. mode' = mode /\ pc' \in [Handlers -> Places] /\ call' \in [Handlers -> Known]
    BY <1>2 DEF Does, Moves, StatusInv, StatusTypes
  <2>2. CASE Same
    BY <2>1, <2>2 DEF Same, StatusInv, StatusTypes
  <2>3. CASE Logs(h)
    <3> DEFINE s == call[h].student
    <3>1. /\ s \in Students /\ changes'[s] \in Seq(Entries)
          /\ \A x \in Students : x # s => changes'[x] = changes[x]
      BY <2>3, LogGrows, Zenon
    <3>2. changes \in [Students -> Seq(Entries)] /\ DOMAIN changes' = Students
      BY <2>3 DEF Logs, StatusInv, StatusTypes
    <3>3. call[h].to \in Statuses
      BY DEF StatusInv, StatusTypes, Known
    <3> HIDE DEF s
    <3>4. \A x \in Students : changes'[x] \in Seq(Entries)
      BY <3>1, <3>2
    <3>5. changes' \in [Students -> Seq(Entries)]
      <4>1. changes' = [x \in Students |-> changes'[x]]
        BY <2>3, <3>2 DEF Logs
      <4>2. QED
        BY <3>4, <4>1
    <3>6. status' \in [Students -> Statuses \cup {"ABSENT"}]
      BY <2>3, <3>3 DEF Logs, StatusInv, StatusTypes
    <3>7. QED
      BY <2>1, <2>3, <3>5, <3>6 DEF Logs, StatusInv, StatusTypes
  <2>4. CASE Creates(h)
    <3>1. call[h].known \in Nat
      BY DEF StatusInv, StatusTypes, Known
    <3>2. QED
      BY <2>1, <2>4, <3>1 DEF Creates, StatusInv, StatusTypes
  <2>5. CASE Decides(h)
    BY <2>1, <2>5 DEF Decides, StatusInv, StatusTypes
  <2>6. CASE Follows(h)
    BY <2>1, <2>6 DEF Follows, StatusInv, StatusTypes
  <2>7. QED
    BY <1>2, <2>2, <2>3, <2>4, <2>5, <2>6 DEF Does
<1>3. QED
  BY <1>1, <1>2

LEMMA ToldKept ==
    ASSUME StatusInv, Aside \/ \E h \in Handlers : Does(h), NEW s \in Students
    PROVE  Told(s)'
<1>1. Told(s) /\ status \in [Students -> Statuses \cup {"ABSENT"}] /\ changes[s] \in Seq(Entries)
  BY DEF StatusInv, StatusTypes
<1>2. CASE changes' = changes /\ status' = status
  BY <1>1, <1>2 DEF Told
<1>3. CASE Aside
  <2>1. SUFFICES ASSUME NEW x \in Students, status[x] = "ABSENT",
                        status' = [status EXCEPT ![x] = "ACTIVE"], changes' = changes
                 PROVE  Told(s)'
    BY <1>2, <1>3 DEF Aside
  <2>2. CASE s = x
    BY <1>1, <2>1, <2>2 DEF Told
  <2>3. CASE s # x
    BY <1>1, <2>1, <2>3 DEF Told
  <2>4. QED
    BY <2>2, <2>3
<1>4. ASSUME NEW h \in Handlers, Logs(h) PROVE Told(s)'
  <2> DEFINE x == call[h].student
             n == Len(changes[x])
  <2>1. /\ x \in Students /\ n \in Nat /\ changes'[x] \in Seq(Entries)
        /\ Len(changes'[x]) = n + 1
        /\ changes'[x][n + 1] = [from |-> call[h].from, to |-> call[h].to,
                                 billing |-> Implication(call[h].from, call[h].to)]
        /\ \A z \in Students : z # x => changes'[z] = changes[z]
    BY <1>4, LogGrows, Zenon
  <2>2. status' = [status EXCEPT ![x] = call[h].to] /\ call[h].to \in Statuses
    BY <1>4 DEF Logs, StatusInv, StatusTypes, Known
  <2>3. changes'[x][n + 1].to = call[h].to
    BY <2>1
  <2> HIDE DEF x, n
  <2>4. CASE s = x
    <3>1. status'[s] = call[h].to /\ status'[s] # "ABSENT"
      BY <1>1, <2>2, <2>4 DEF Statuses
    <3>2. Len(changes'[s]) # 0 /\ changes'[s][Len(changes'[s])].to = call[h].to
      BY <2>1, <2>3, <2>4
    <3>3. QED
      BY <3>1, <3>2 DEF Told
  <2>5. CASE s # x
    BY <1>1, <2>1, <2>2, <2>5 DEF Told
  <2>6. QED
    BY <2>4, <2>5
<1>5. QED
  BY <1>2, <1>3, <1>4 DEF Does, Same, Creates, Decides, Follows

\* A call that is not the one that moves sees no change that matters to it.
LEMMA OthersSound ==
    ASSUME StatusInv, Aside \/ \E h \in Handlers : Does(h), NEW p \in Places, NEW c \in Known,
           SoundAs(p, c),
           c.for = "reactivate" => /\ p = "ask" => request'[c.item] = "none"
                                   /\ p # "ask" => request'[c.item] # "none"
                                   /\ p = "grant" => asked'[c.item] = asked[c.item]
    PROVE  SoundAs(p, c)'
<1>1. c.student \in Students
  BY DEF Known
<1>2. (p = "write" => status[c.student] # "ABSENT")'
  BY <1>1, Grows DEF SoundAs
<1>3. ASSUME p = "grant" PROVE ChangedTo(c.student, "ACTIVE", asked[c.item])'
  <2>1. ChangedTo(c.student, "ACTIVE", asked[c.item]) /\ c.for = "reactivate"
    BY <1>3 DEF SoundAs, OnRequest
  <2>2. PICK k : k = asked[c.item]
    OBVIOUS
  <2>3. ChangedTo(c.student, "ACTIVE", k)'
    BY <1>1, <2>1, <2>2, ChangedStays
  <2>4. k = asked'[c.item]
    BY <1>3, <2>1, <2>2
  <2>5. QED
    BY <2>3, <2>4 DEF ChangedTo
<1>4. ASSUME c.for = "reactivate", p = "ask"
      PROVE  Fixed(c.student, c.known)'
  <2>1. Fixed(c.student, c.known)
    BY <1>4 DEF SoundAs
  <2>2. QED
    BY <1>1, <2>1, FixedStays
<1>5. QED
  BY <1>2, <1>3, <1>4 DEF SoundAs

LEMMA SoundKept ==
    ASSUME StatusInv, Aside \/ \E h \in Handlers : Does(h), NEW g \in Handlers
    PROVE  SoundAs(pc[g], call[g])'
<1>1. PICK p \in Places, c \in Known : p = pc[g] /\ c = call[g]
  BY DEF StatusInv, StatusTypes
<1>2. SoundAs(p, c)
  BY <1>1 DEF StatusInv
<1>3. CASE Aside
  <2>1. SoundAs(p, c)'
    BY <1>2, <1>3, OthersSound DEF Aside, SoundAs
  <2>2. QED
    BY <1>1, <1>3, <2>1 DEF Aside
<1>4. ASSUME NEW h \in Handlers, Does(h) PROVE SoundAs(pc[g], call[g])'
  <2>1. CASE g = h
    <3>1. PICK q \in Places, d \in Known : Moves(h, q, d) /\ SoundAs(q, d)'
      BY <1>4 DEF Does
    <3>2. pc'[g] = q /\ call'[g] = d
      BY <2>1, <3>1 DEF Moves, StatusInv, StatusTypes
    <3>3. QED
      BY <3>1, <3>2
  <2>2. CASE g # h
    <3>1. pc'[g] = p /\ call'[g] = c
      BY <1>1, <1>4, <2>2 DEF Does, Moves, StatusInv, StatusTypes
    <3>2. ASSUME c.for = "reactivate"
          PROVE  /\ p = "ask" => request'[c.item] = "none"
                 /\ p # "ask" => request'[c.item] # "none"
                 /\ p = "grant" => asked'[c.item] = asked[c.item]
      <4>1. /\ c.item \in Requests
            /\ p = "ask" => request[c.item] = "none"
            /\ p # "ask" => request[c.item] # "none"
        BY <1>2, <3>2 DEF SoundAs
      <4>2. CASE Same \/ Logs(h) \/ Follows(h)
        BY <4>1, <4>2 DEF Same, Logs, Follows
      <4>3. CASE Creates(h)
        <5>1. pc[h] = "ask" /\ call[h].item \in Requests /\ request[call[h].item] = "none"
          BY <4>3, OnRequestSound DEF Creates, OnRequest
        <5>2. c.item # call[h].item
          BY <1>1, <2>2, <4>1, <5>1 DEF StatusInv, Apart
        <5>3. request'[c.item] = request[c.item] /\ asked'[c.item] = asked[c.item]
          BY <4>1, <4>3, <5>1, <5>2 DEF Creates, StatusInv, StatusTypes
        <5>4. QED
          BY <4>1, <5>3
      <4>4. CASE Decides(h)
        <5>1. call[h].item \in Requests /\ request[call[h].item] # "none"
          BY <4>4, OnRequestSound DEF Decides, OnRequest
        <5>2. request \in [Requests -> {"none", "PENDING", "APPROVED", "REJECTED"}]
          BY DEF StatusInv, StatusTypes
        <5>3. /\ asked' = asked
              /\ request'[call[h].item] \in {"APPROVED", "REJECTED"}
              /\ c.item # call[h].item => request'[c.item] = request[c.item]
          BY <4>1, <4>4, <5>1, <5>2 DEF Decides
        <5>4. QED
          BY <4>1, <5>1, <5>3
      <4>5. QED
        BY <1>4, <4>2, <4>3, <4>4 DEF Does
    <3>3. SoundAs(p, c)'
      BY <1>2, <1>4, <3>2, OthersSound
    <3>4. QED
      BY <3>1, <3>3
  <2>3. QED
    BY <2>1, <2>2
<1>5. QED
  BY <1>3, <1>4

LEMMA ApartKept ==
    ASSUME StatusInv, Aside \/ \E h \in Handlers : Does(h)
    PROVE  Apart'
<1>1. CASE Aside
  BY <1>1 DEF Aside, StatusInv, Apart
<1>2. ASSUME NEW h \in Handlers, Does(h) PROVE Apart'
  <2>1. PICK q \in Places, d \in Known :
           /\ Moves(h, q, d)
           /\ q = "ask" => \A g \in Handlers : pc[g] = "ask" => call[g].item # d.item
    BY <1>2 DEF Does
  <2>2. pc'[h] = q /\ call'[h] = d
        /\ \A g \in Handlers : g # h => pc'[g] = pc[g] /\ call'[g] = call[g]
    BY <2>1 DEF Moves, StatusInv, StatusTypes
  <2>3. QED
    BY <2>1, <2>2 DEF StatusInv, Apart
<1>3. QED
  BY <1>1, <1>2

LEMMA RecordedKept ==
    ASSUME StatusInv, Aside \/ \E h \in Handlers : Does(h), NEW r \in Requests
    PROVE  Recorded(r)'
<1> DEFINE s == StudentOf[r]
<1>1. s \in Students /\ Recorded(r)
  BY StudentAssumption DEF StatusInv
<1>2. /\ request \in [Requests -> {"none", "PENDING", "APPROVED", "REJECTED"}]
      /\ asked \in [Requests -> Nat] /\ chain \in [Requests -> {"none", "open", "over"}]
  BY DEF StatusInv, StatusTypes
<1> HIDE DEF s
<1>3. ASSUME request'[r] = request[r], asked'[r] = asked[r],
             chain'[r] # "none" => chain[r] # "none" \/ request[r] # "none"
      PROVE  Recorded(r)'
  <2>1. PICK k : k = asked[r]
    OBVIOUS
  <2>2. request[r] # "none" => Fixed(s, k)
    BY <1>1, <2>1 DEF Recorded, s
  <2>3. request[r] = "APPROVED" => ChangedTo(s, "ACTIVE", k)
    BY <1>1, <2>1 DEF Recorded, s
  <2>4. request[r] # "none" => Fixed(s, k)'
    BY <1>1, <2>2, FixedStays
  <2>5. request[r] = "APPROVED" => ChangedTo(s, "ACTIVE", k)'
    BY <1>1, <2>3, ChangedStays
  <2>6. (request[r] # "none" => Fixed(s, asked[r]))'
    BY <1>3, <2>1, <2>4 DEF Fixed
  <2>7. (request[r] = "APPROVED" => ChangedTo(s, "ACTIVE", asked[r]))'
    BY <1>3, <2>1, <2>5 DEF ChangedTo
  <2>8. QED
    BY <1>1, <1>3, <2>6, <2>7 DEF Recorded, s
<1>4. CASE Aside
  BY <1>3, <1>4 DEF Aside
<1>5. ASSUME NEW h \in Handlers, Does(h) PROVE Recorded(r)'
  <2> DEFINE i == call[h].item
  <2>1. CASE Same \/ Logs(h)
    BY <1>3, <2>1 DEF Same, Logs
  <2>2. CASE Follows(h)
    <3>1. i \in Requests /\ request[i] # "none"
      BY <2>2, OnRequestSound DEF Follows, OnRequest
    <3>2. chain'[r] # "none" => chain[r] # "none" \/ r = i
      BY <1>2, <2>2, <3>1 DEF Follows
    <3>3. QED
      BY <1>3, <2>2, <3>1, <3>2 DEF Follows
  <2>3. CASE Creates(h)
    <3>1. /\ i \in Requests /\ request[i] = "none"
          /\ call[h].student = StudentOf[i] /\ Fixed(call[h].student, call[h].known)
      BY <2>3, OnRequestSound DEF Creates, OnRequest
    <3>2. CASE r = i
      <4>1. PICK k : k = call[h].known
        OBVIOUS
      <4>2. request'[r] = "PENDING" /\ asked'[r] = k /\ chain'[r] = chain[r]
        BY <1>2, <2>3, <3>1, <3>2, <4>1 DEF Creates
      <4>3. Fixed(s, k)
        BY <3>1, <3>2, <4>1 DEF s
      <4>4. Fixed(s, k)'
        BY <1>1, <4>3, FixedStays
      <4>5. (request[r] # "none" => Fixed(s, asked[r]))'
        BY <4>2, <4>4 DEF Fixed
      <4>6. QED
        BY <4>2, <4>5 DEF Recorded, s
    <3>3. CASE r # i
      <4>1. request'[r] = request[r] /\ asked'[r] = asked[r] /\ chain' = chain
        BY <1>2, <2>3, <3>1, <3>3 DEF Creates
      <4>2. QED
        BY <1>3, <4>1
    <3>4. QED
      BY <3>2, <3>3
  <2>4. CASE Decides(h)
    <3>1. pc[h] \in {"grant", "refuse"} /\ i \in Requests /\ request[i] # "none"
          /\ call[h].student = StudentOf[i]
      BY <2>4, OnRequestSound DEF Decides, OnRequest
    <3>2. CASE r = i
      <4>1. PICK k : k = asked[r]
        OBVIOUS
      <4>2. /\ asked'[r] = k /\ chain'[r] = chain[r] /\ request'[r] # "none"
            /\ request'[r] = "APPROVED" => pc[h] = "grant"
        BY <1>2, <2>4, <3>1, <3>2, <4>1 DEF Decides
      <4>3. Fixed(s, k)
        BY <1>1, <3>1, <3>2, <4>1 DEF Recorded, s
      <4>4. Fixed(s, k)'
        BY <1>1, <4>3, FixedStays
      <4>5. ASSUME pc[h] = "grant" PROVE ChangedTo(s, "ACTIVE", k)'
        <5>1. SoundAs(pc[h], call[h])
          BY DEF StatusInv
        <5>2. ChangedTo(s, "ACTIVE", k)
          BY <3>1, <3>2, <4>1, <4>5, <5>1 DEF SoundAs, s
        <5>3. QED
          BY <1>1, <5>2, ChangedStays
      <4>6. (request[r] # "none" => Fixed(s, asked[r]))'
        BY <4>2, <4>4 DEF Fixed
      <4>7. (request[r] = "APPROVED" => ChangedTo(s, "ACTIVE", asked[r]))'
        BY <4>2, <4>5 DEF ChangedTo
      <4>8. QED
        BY <4>2, <4>6, <4>7 DEF Recorded, s
    <3>3. CASE r # i
      <4>1. request'[r] = request[r] /\ asked'[r] = asked[r] /\ chain' = chain
        BY <1>2, <2>4, <3>1, <3>3 DEF Decides
      <4>2. QED
        BY <1>3, <4>1
    <3>4. QED
      BY <3>2, <3>3
  <2>5. QED
    BY <1>5, <2>1, <2>2, <2>3, <2>4 DEF Does
<1>6. QED
  BY <1>4, <1>5

\* When calls do not overlap, every call but the one that moves is idle.
LEMMA OthersIdle ==
    ASSUME StatusInv, Serial, mode = "serial", NEW h \in Handlers, Does(h),
           NEW g \in Handlers, g # h
    PROVE  pc[g] = "idle" /\ pc'[g] = "idle"
<1>1. pc[g] = "idle"
  BY DEF Does, Serial
<1>2. pc'[g] = pc[g]
  BY DEF Does, Moves, StatusInv, StatusTypes
<1>3. QED
  BY <1>1, <1>2

LEMMA SerialKept ==
    ASSUME StatusInv, Serial, Aside \/ \E h \in Handlers : Does(h)
    PROVE  Serial'
<1>1. mode' = mode
  BY DEF Aside, Does
<1>2. SUFFICES ASSUME mode = "serial"
               PROVE  /\ \A g, h \in Handlers : pc'[g] # "idle" /\ pc'[h] # "idle" => g = h
                      /\ \A h \in Handlers : pc'[h] = "write" =>
                            call'[h].from = status'[call'[h].student]
  BY <1>1 DEF Serial
<1>3. CASE Aside
  BY <1>2, <1>3 DEF Aside, Serial
<1>4. ASSUME NEW h \in Handlers, Does(h)
      PROVE  /\ \A g, k \in Handlers : pc'[g] # "idle" /\ pc'[k] # "idle" => g = k
             /\ \A g \in Handlers : pc'[g] = "write" => call'[g].from = status'[call'[g].student]
  <2>1. \A g \in Handlers : g # h => pc'[g] = "idle"
    BY <1>2, <1>4, OthersIdle
  <2>2. pc'[h] = "write" => call'[h].from = status'[call'[h].student]
    <3>1. PICK p \in Places, c \in Known :
             Moves(h, p, c) /\ (p = "write" => c.from = status'[c.student])
      BY <1>4 DEF Does
    <3>2. pc'[h] = p /\ call'[h] = c
      BY <3>1 DEF Moves, StatusInv, StatusTypes
    <3>3. QED
      BY <3>1, <3>2
  <2>3. QED
    BY <2>1, <2>2
<1>5. QED
  BY <1>3, <1>4

-----------------------------------------------------------------------------
(* The log of a student *)

\* What the entries of a log are worth.
Worths(log) == [i \in DOMAIN log |-> Worth(log[i])]

LEMMA GainedInt ==
    ASSUME NEW log \in Seq(Entries)
    PROVE  SumFunctionOnSet(Worths(log), DOMAIN log) \in Int
<1>1. IsFiniteSet(DOMAIN log)
  BY FS_Interval
<1>2. \A i \in DOMAIN log : Worths(log)[i] \in Int
  BY DEF Worths, Worth
<1>3. QED
  BY <1>1, <1>2, SumInt

\* One more entry adds what it is worth.
LEMMA GainedAppend ==
    ASSUME NEW log \in Seq(Entries), NEW more \in Seq(Entries), NEW n \in Nat, n = Len(log),
           Len(more) = n + 1, \A i \in 1..n : more[i] = log[i]
    PROVE  SumFunctionOnSet(Worths(more), DOMAIN more)
              = Worth(more[n + 1]) + SumFunctionOnSet(Worths(log), DOMAIN log)
<1> DEFINE f == Worths(log)
           g == Worths(more)
<1>1. DOMAIN log = 1..n /\ DOMAIN more = 1..(n + 1)
  OBVIOUS
<1>2. 1..(n + 1) = (1..n) \cup {n + 1} /\ n + 1 \notin 1..n
  OBVIOUS
<1>3. IsFiniteSet(1..n)
  BY FS_Interval
<1>4. \A i \in 1..(n + 1) : g[i] = Worth(more[i]) /\ g[i] \in Int
  BY <1>1 DEF Worths, Worth
<1>5. \A i \in 1..n : f[i] = g[i] /\ f[i] \in Int
  BY <1>1 DEF Worths, Worth
<1> HIDE DEF f, g
<1>6. SumFunctionOnSet(f, 1..n) = SumFunctionOnSet(g, 1..n)
  BY <1>3, <1>5, SumSame
<1>7. \A i \in (1..n) \cup {n + 1} : g[i] \in Int
  BY <1>2, <1>4
<1>8. SumFunctionOnSet(g, (1..n) \cup {n + 1}) = g[n + 1] + SumFunctionOnSet(g, 1..n)
  BY <1>2, <1>3, <1>7, SumAdd
<1>9. g[n + 1] = Worth(more[n + 1])
  BY <1>4
<1>10. QED
  BY <1>1, <1>2, <1>6, <1>8, <1>9 DEF f, g

\* The log of s tells one story and balances.
Story(s) ==
    status[s] # "ABSENT" =>
        /\ \A i \in 1..Len(changes[s]) :
              changes[s][i].from = IF i = 1 THEN "ACTIVE" ELSE changes[s][i - 1].to
        /\ 1 + Gained(s) = IF status[s] = "ACTIVE" THEN 1 ELSE 0

Stories == mode = "serial" => \A s \in Students : Story(s)

LEMMA StoryKept ==
    ASSUME StatusInv, Serial, Stories, Aside \/ \E h \in Handlers : Does(h), mode = "serial",
           NEW s \in Students
    PROVE  Story(s)'
<1>1. /\ Story(s) /\ Told(s) /\ status \in [Students -> Statuses \cup {"ABSENT"}]
      /\ changes[s] \in Seq(Entries)
  BY DEF StatusInv, StatusTypes, Stories
<1>2. CASE changes' = changes /\ status' = status
  BY <1>1, <1>2 DEF Story, Gained
<1>3. CASE Aside
  <2>1. SUFFICES ASSUME NEW x \in Students, status[x] = "ABSENT",
                        status' = [status EXCEPT ![x] = "ACTIVE"], changes' = changes
                 PROVE  Story(s)'
    BY <1>2, <1>3 DEF Aside
  <2>2. CASE s = x
    <3>1. changes'[s] = <<>> /\ status'[s] = "ACTIVE"
      BY <1>1, <2>1, <2>2 DEF Told
    <3>2. DOMAIN changes'[s] = {} /\ Len(changes'[s]) = 0
      BY <3>1
    <3>3. Gained(s)' = 0
      BY <3>2, SumEmpty DEF Gained
    <3>4. QED
      BY <3>1, <3>2, <3>3 DEF Story
  <2>3. CASE s # x
    <3>1. changes'[s] = changes[s] /\ status'[s] = status[s]
      BY <1>1, <2>1, <2>3
    <3>2. QED
      BY <1>1, <3>1 DEF Story, Gained
  <2>4. QED
    BY <2>2, <2>3
<1>4. ASSUME NEW h \in Handlers, Logs(h) PROVE Story(s)'
  <2>0. PICK c \in Known, x \in Students : c = call[h] /\ x = call[h].student
    BY DEF StatusInv, StatusTypes, Known
  <2> DEFINE n == Len(changes[x])
  <2>1. /\ x \in Students /\ n \in Nat /\ changes'[x] \in Seq(Entries)
        /\ Len(changes'[x]) = n + 1
        /\ changes'[x][n + 1] = [from |-> c.from, to |-> c.to, billing |-> Implication(c.from, c.to)]
        /\ \A i \in 1..n : changes'[x][i] = changes[x][i]
        /\ \A z \in Students : z # x => changes'[z] = changes[z]
    BY <1>4, <2>0, LogGrows
  <2>2. status' = [status EXCEPT ![x] = c.to] /\ c.to \in Statuses /\ c.from \in Statuses
    BY <1>4, <2>0 DEF Logs, StatusInv, StatusTypes, Known
  <2>3. /\ changes'[x][n + 1].to = c.to /\ changes'[x][n + 1].from = c.from
        /\ changes'[x][n + 1].billing = Implication(c.from, c.to)
    BY <2>1
  <2>4. c.from = status[x] /\ status[x] # "ABSENT"
    <3>1. pc[h] = "write" /\ SoundAs(pc[h], call[h])
      BY <1>4 DEF Logs, StatusInv
    <3>2. QED
      BY <2>0, <3>1 DEF Serial, SoundAs
  <2>5. changes[x] \in Seq(Entries) /\ Told(x) /\ Story(x)
    BY <2>1 DEF StatusInv, StatusTypes, Stories
  <2>6. CASE s = x
    <3>1. \A i \in 1..n :
             changes'[x][i].from = IF i = 1 THEN "ACTIVE" ELSE changes'[x][i - 1].to
      <4>1. \A i \in 1..n :
               changes[x][i].from = IF i = 1 THEN "ACTIVE" ELSE changes[x][i - 1].to
        BY <2>4, <2>5 DEF Story
      <4>2. \A i \in 1..n : i = 1 \/ i - 1 \in 1..n
        BY <2>1
      <4> HIDE DEF n
      <4>3. SUFFICES ASSUME NEW i \in 1..n
                     PROVE  changes'[x][i].from = IF i = 1 THEN "ACTIVE"
                                                  ELSE changes'[x][i - 1].to
        OBVIOUS
      <4>4. changes'[x][i] = changes[x][i]
        BY <2>1
      <4>5. CASE i = 1
        BY <4>1, <4>4, <4>5
      <4>6. ASSUME i # 1
            PROVE  changes'[x][i].from = changes'[x][i - 1].to
        <5>1. changes'[x][i - 1] = changes[x][i - 1]
          BY <2>1, <4>2, <4>6
        <5>2. changes[x][i].from = changes[x][i - 1].to
          BY <4>1, <4>6
        <5>3. QED
          BY <4>4, <5>1, <5>2
      <4>7. QED
        BY <4>5, <4>6
    <3>2. c.from = IF n = 0 THEN "ACTIVE" ELSE changes[x][n].to
      BY <2>4, <2>5 DEF Told
    <3>3. changes'[x][n + 1].from = IF n + 1 = 1 THEN "ACTIVE" ELSE changes'[x][(n + 1) - 1].to
      <4> HIDE DEF n
      <4>1. CASE n = 0
        BY <2>3, <3>2, <4>1
      <4>2. CASE n # 0
        <5>1. n \in 1..n /\ (n + 1) - 1 = n /\ n + 1 # 1
          BY <2>1, <4>2
        <5>2. QED
          BY <2>1, <2>3, <3>2, <4>2, <5>1
      <4>3. QED
        BY <4>1, <4>2
    <3>4. \A i \in 1..(n + 1) :
             changes'[x][i].from = IF i = 1 THEN "ACTIVE" ELSE changes'[x][i - 1].to
      <4> HIDE DEF n
      <4>1. \A i \in 1..(n + 1) : i \in 1..n \/ i = n + 1
        BY <2>1
      <4>2. QED
        BY <3>1, <3>3, <4>1
    <3>5. Gained(x)' = Worth(changes'[x][n + 1]) + Gained(x)
      <4>1. SumFunctionOnSet(Worths(changes'[x]), DOMAIN changes'[x])
               = Worth(changes'[x][n + 1]) + SumFunctionOnSet(Worths(changes[x]), DOMAIN changes[x])
        BY <2>1, <2>5, GainedAppend
      <4>2. QED
        BY <4>1 DEF Gained, Worths
    <3>6. Gained(x) \in Int
      BY <2>5, GainedInt DEF Gained, Worths
    <3>7. Worth(changes'[x][n + 1]) = IF c.from # "ACTIVE" /\ c.to = "ACTIVE" THEN 1
                                      ELSE IF c.from = "ACTIVE" /\ c.to # "ACTIVE" THEN -1 ELSE 0
      BY <2>3 DEF Worth, Implication
    <3>8. status'[x] = c.to
      BY <2>1, <2>2, <1>1
    <3>9. 1 + Gained(x)' = IF status'[x] = "ACTIVE" THEN 1 ELSE 0
      <4>1. 1 + Gained(x) = IF c.from = "ACTIVE" THEN 1 ELSE 0
        BY <2>4, <2>5 DEF Story
      <4>2. QED
        BY <3>5, <3>6, <3>7, <3>8, <4>1
    <3>10. Len(changes'[s]) = n + 1
      BY <2>1, <2>6
    <3>11. QED
      BY <2>6, <3>4, <3>9, <3>10 DEF Story
  <2>7. CASE s # x
    <3>1. changes'[s] = changes[s] /\ status'[s] = status[s]
      BY <1>1, <2>1, <2>2, <2>7
    <3>2. QED
      BY <1>1, <3>1 DEF Story, Gained
  <2>8. QED
    BY <2>6, <2>7
<1>5. QED
  BY <1>2, <1>3, <1>4 DEF Does, Same, Creates, Decides, Follows

-----------------------------------------------------------------------------
(* Students, alone or followed by the billing *)

AllStatus == StatusInv /\ Serial /\ Stories

LEMMA StatusStart == Init => AllStatus
<1> SUFFICES ASSUME Init PROVE AllStatus
  OBVIOUS
<1>1. \A s \in Students : status[s] \in {"ABSENT", "ACTIVE"} /\ changes[s] = <<>>
  BY DEF Init
<1>2. StatusTypes
  <2>1. status \in [Students -> Statuses \cup {"ABSENT"}]
    BY DEF Init, Statuses
  <2>2. pc \in [Handlers -> Places] /\ call \in [Handlers -> Known]
    BY NoCallType DEF Init, Places
  <2>3. <<>> \in Seq(Entries)
    OBVIOUS
  <2>4. changes \in [Students -> Seq(Entries)]
    BY <2>3 DEF Init
  <2>5. QED
    BY <2>1, <2>2, <2>4 DEF Init, StatusTypes
<1>3. \A s \in Students : Told(s)
  BY <1>1 DEF Told
<1>4. \A h \in Handlers : pc[h] = "idle" /\ call[h] = NoCall
  BY DEF Init
<1>5. \A h \in Handlers : SoundAs(pc[h], call[h])
  BY <1>4, NoCallType DEF SoundAs, OnRequest
<1>6. Apart /\ Serial
  BY <1>4 DEF Apart, Serial
<1>7. \A r \in Requests : Recorded(r)
  BY DEF Init, Recorded
<1>8. ASSUME NEW s \in Students PROVE Story(s)
  <2>1. DOMAIN changes[s] = {} /\ Len(changes[s]) = 0
    BY <1>1
  <2>2. Gained(s) = 0
    BY <2>1, SumEmpty DEF Gained
  <2>3. QED
    BY <1>1, <2>1, <2>2 DEF Story
<1>9. QED
  BY <1>2, <1>3, <1>5, <1>6, <1>7, <1>8 DEF AllStatus, StatusInv, Stories

LEMMA StatusKept == AllStatus /\ [Next]_vars => AllStatus'
<1> SUFFICES ASSUME AllStatus, [Next]_vars PROVE AllStatus'
  OBVIOUS
<1>1. StatusInv /\ Serial /\ Stories
  BY DEF AllStatus
<1>2. Aside \/ \E h \in Handlers : Does(h)
  BY <1>1, StatusStep
<1>3. StatusInv'
  BY <1>1, <1>2, StatusTypesKept, ToldKept, SoundKept, ApartKept, RecordedKept DEF StatusInv
<1>4. Serial'
  BY <1>1, <1>2, SerialKept
<1>5. Stories'
  <2>1. mode' = mode
    BY <1>2 DEF Aside, Does
  <2>2. QED
    BY <1>1, <1>2, <2>1, StoryKept DEF Stories
<1>6. QED
  BY <1>3, <1>4, <1>5 DEF AllStatus

\* Nothing the billing does changes a student, so that students under the billing behave as
\* they do alone, whatever is followed.
LEMMA StudentsAlone == [BillingNext]_<<vars, billingVars>> => [Next]_vars
<1> SUFFICES ASSUME [BillingNext]_<<vars, billingVars>> PROVE [Next]_vars
  OBVIOUS
<1>1. CASE UNCHANGED <<vars, billingVars>>
  BY <1>1
<1>2. CASE Next
  BY <1>2
<1>3. CASE Headcount
  <2>1. ASSUME NEW s \in Students, Admit(s) \/ SoftDelete(s) PROVE Next
    BY <2>1 DEF Next
  <2>2. ASSUME NEW h \in Handlers, ChangeStep(h) PROVE Next
    BY <2>2 DEF Next, Step
  <2>3. ASSUME NEW h \in Handlers, NEW s \in Students, NEW to \in {"ACTIVE", "INACTIVE"},
               Patch(h, s, to)
        PROVE  Next
    BY <2>3 DEF Next, Statuses
  <2>4. QED
    BY <1>3, <2>1, <2>2, <2>3, Zenon DEF Headcount
<1>4. CASE Bill
  <2>1. UNCHANGED vars
    BY <1>4, Zenon DEF Bill, NextDay, LockDays, UnlockDays, Finalize, Resolve, TakeSnapshot, Work,
       Crash, Amend, LockJob, Draft, Raise, Count, Store, WriteAmended, ReadRows, StoreInvoice,
       Schedule, CheckDisputes, Lock, StoreDispute
  <2>2. QED
    BY <2>1
<1>5. QED
  BY <1>1, <1>2, <1>3, <1>4 DEF BillingNext

\* A behaviour of the students and the billing is one of the students.
THEOREM BillingFollows == BillingSpec => Spec
<1>1. BillingInit => Init
  BY DEF BillingInit
<1>2. QED
  BY <1>1, StudentsAlone, PTL DEF BillingSpec, Spec

\* What holds of the students in every reachable state.
THEOREM StatusHolds == (Spec \/ BillingSpec) => []AllStatus
<1>1. Spec => []AllStatus
  BY StatusStart, StatusKept, PTL DEF Spec
<1>2. QED
  BY <1>1, BillingFollows, PTL

\* However decisions by hand and by the chain overlap, are repeated or die, the student of an
\* APPROVED request was made ACTIVE after it was asked (completeReactivation).
THEOREM ApprovedIsReactivated == (Spec \/ BillingSpec) => []ApprovedMeansReactivated
<1>1. ASSUME AllStatus PROVE ApprovedMeansReactivated
  BY <1>1 DEF AllStatus, StatusInv, Recorded, ApprovedMeansReactivated
<1>2. AllStatus => ApprovedMeansReactivated
  BY <1>1
<1>3. QED
  BY <1>2, StatusHolds, PTL

\* When calls do not overlap, the log of a student tells one story from admission to the status
\* the student has, and what billingForTransition made of it adds up to whether the student is
\* billed.
THEOREM LogTellsStory == (Spec \/ BillingSpec) => []LogTellsStatus
<1>1. ASSUME AllStatus PROVE LogTellsStatus
  <2>1. SUFFICES ASSUME mode = "serial", NEW s \in Students, status[s] # "ABSENT"
                 PROVE  LET n == Len(changes[s]) IN
                        /\ \A i \in 1..n :
                             changes[s][i].from = IF i = 1 THEN "ACTIVE" ELSE changes[s][i - 1].to
                        /\ status[s] = IF n = 0 THEN "ACTIVE" ELSE changes[s][n].to
                        /\ 1 + Gained(s) = IF status[s] = "ACTIVE" THEN 1 ELSE 0
    BY DEF LogTellsStatus
  <2>2. Story(s) /\ Told(s)
    BY <1>1, <2>1 DEF AllStatus, StatusInv, Stories
  <2>3. QED
    BY <2>1, <2>2 DEF Story, Told
<1>2. AllStatus => LogTellsStatus
  BY <1>1
<1>3. QED
  BY <1>2, StatusHolds, PTL

(***************************************************************************)
(* The billing                                                             *)
(***************************************************************************)

\* An idle call has an invoice and a dispute too, even when there are none.
Abouts == Invoices \cup {NoTask.about}
Contests == Disputes \cup {NoTask.dispute}
Tasks == [day : Days, count : Nat, about : Abouts, retro : BOOLEAN, dispute : Contests,
          status : DisputeStatuses]
InvoiceRows == [status : {"none", "DRAFT", "OPEN"}, retro : BOOLEAN,
                lockedBy : {"nobody", "job", "hand"}, billed : Nat]
BillingPlaces == {"idle", "count", "store", "amend", "rows", "invoice", "schedule", "disputes",
                  "lock", "dispute"}

BillingTypes ==
    /\ scope \in {"students", "billing"}
    /\ today \in Days
    /\ snapshot \in [Days -> Nat \cup {None}]
    /\ locked \subseteq Rows
    /\ invoice \in [Invoices -> InvoiceRows]
    /\ lockJob \in [Invoices -> [state : {"none", "waiting", "running", "done", "failed"},
                                 failed : Nat]]
    /\ dispute \in [Disputes -> [about : Abouts, status : DisputeStatuses]]
    /\ place \in [Workers -> BillingPlaces]
    /\ task \in [Workers -> Tasks]

Peak == Max({0} \cup {snapshot[d] : d \in Rows})

\* No call of the billing works beside another one or beside a call on students.
Alone ==
    /\ \A v, w \in Workers : place[v] # "idle" /\ place[w] # "idle" => v = w
    /\ \A h \in Handlers, w \in Workers : pc[h] = "idle" \/ place[w] = "idle"
    /\ scope = "students" => \A w \in Workers : place[w] = "idle"

\* What a call that is at p as t has read is still so.
DoingAs(p, t) ==
    /\ p \in {"rows", "invoice", "schedule", "disputes", "lock", "dispute"} => t.about \in Invoices
    /\ p = "store" => t.count = Cardinality(Billable)
    /\ p = "amend" => t.day \in Rows \ locked
    /\ p = "invoice" => t.count = Peak
    /\ p \in {"schedule", "disputes", "lock"} => invoice[t.about].status # "none"
    /\ p = "lock" => ~Disputed(t.about)
    /\ p = "dispute" => invoice[t.about].lockedBy = "nobody"

\* What is so of an invoice: until its month is touched it bills the peak, and once it is locked
\* the month cannot change but by counting a day that was not counted.
Billed(i) ==
    /\ lockJob[i].state \in {"waiting", "running"} => invoice[i].status # "none"
    /\ invoice[i].lockedBy = "job" => invoice[i].status # "none"
    /\ invoice[i].status # "none" /\ i \notin touched => invoice[i].billed = Peak
    /\ invoice[i].lockedBy = "job" /\ i \notin touched => Rows \subseteq locked
    /\ invoice[i].lockedBy = "job" => ~Disputed(i)

Books ==
    mode = "serial" =>
        /\ Alone
        /\ \A w \in Workers : DoingAs(place[w], task[w])
        /\ \A i \in Invoices : Billed(i)

-----------------------------------------------------------------------------
(* Counts *)

\* The greatest of a set of integers is the one that is found to be.
LEMMA MaxIs ==
    ASSUME NEW S \in SUBSET Int, NEW m \in S, \A y \in S : y <= m
    PROVE  Max(S) = m
<1>1. \A x \in S : (\A y \in S : x >= y) => x = m
  BY SMT
<1>2. m \in S /\ \A y \in S : m >= y
  OBVIOUS
<1>3. QED
  BY <1>1, <1>2 DEF Max

LEMMA RowsFinite == IsFiniteSet(Rows) /\ Cardinality(Rows) \in Nat
<1>1. IsFiniteSet(Days)
  BY BillingAssumption, FS_Interval DEF Days
<1>2. IsFiniteSet(Rows)
  BY <1>1, FS_Subset DEF Rows
<1>3. QED
  BY <1>2, FS_CardinalityType

LEMMA RowCounts ==
    ASSUME BillingTypes, NEW d \in Rows
    PROVE  d \in Days /\ snapshot[d] \in Nat
BY DEF BillingTypes, Rows

\* The peak is one of the counts, or 0, and none is greater.
LEMMA PeakIs ==
    ASSUME BillingTypes
    PROVE  /\ Peak \in Nat
           /\ \A d \in Rows : snapshot[d] <= Peak
           /\ Peak \in {0} \cup {snapshot[d] : d \in Rows}
<1> DEFINE V == {0} \cup {snapshot[d] : d \in Rows}
<1>1. \E m \in V : m \in Nat /\ \A y \in V : y <= m
  <2>1. CASE Rows = {}
    BY <2>1
  <2>2. CASE Rows # {}
    <3>1. PICK d \in Rows : \A e \in Rows : snapshot[e] <= snapshot[d]
      BY <2>2, RowsFinite, RowCounts, Greatest
    <3>2. snapshot[d] \in V /\ snapshot[d] \in Nat
      BY RowCounts
    <3>3. \A y \in V : y <= snapshot[d]
      BY <3>1, <3>2
    <3>4. QED
      BY <3>2, <3>3
  <2>3. QED
    BY <2>1, <2>2
<1>2. V \in SUBSET Int
  BY RowCounts
<1>3. PICK m \in V : m \in Nat /\ \A y \in V : y <= m
  BY <1>1
<1>4. Peak = m
  <2> HIDE DEF V
  <2>1. Max(V) = m
    BY <1>2, <1>3, MaxIs
  <2>2. QED
    BY <2>1 DEF Peak, V
<1>5. QED
  BY <1>3, <1>4

\* An average rounded up is at most the greatest value.
LEMMA RoundedUp ==
    ASSUME NEW a \in Int, NEW p \in Int, NEW c \in Nat, c > 0, a <= p * c
    PROVE  (a + c - 1) \div c \in Int /\ (a + c - 1) \div c <= p
OBVIOUS

\* The average of the month, rounded up, never exceeds its peak: what an invoice bills is the
\* peak.
LEMMA WatermarkIsPeak ==
    ASSUME BillingTypes
    PROVE  Watermark = Peak
<1> DEFINE V == {snapshot[d] : d \in Rows}
           m == Peak
<1>1. m \in Nat /\ (\A d \in Rows : snapshot[d] <= m) /\ m \in {0} \cup V
  BY PeakIs
<1> HIDE DEF m
<1>2. CeilAverage \in Int /\ CeilAverage <= m
  <2>1. CASE Rows = {}
    BY <1>1, <2>1 DEF CeilAverage
  <2>2. CASE Rows # {}
    <3> DEFINE c == Cardinality(Rows)
    <3>1. c \in Nat /\ c # 0
      BY <2>2, RowsFinite, FS_EmptySet
    <3>2. \A d \in Rows : snapshot[d] \in Int /\ snapshot[d] <= m
      BY <1>1, RowCounts
    <3>3. RowSum \in Int
      BY <3>2, RowsFinite, SumInt DEF RowSum
    <3>4. RowSum <= m * c
      BY <1>1, <3>2, RowsFinite, SumAtMost DEF RowSum
    <3> HIDE DEF c
    <3>5. (RowSum + c - 1) \div c \in Int /\ (RowSum + c - 1) \div c <= m
      BY <1>1, <3>1, <3>3, <3>4, RoundedUp
    <3>6. CeilAverage = (RowSum + c - 1) \div c
      BY <2>2 DEF CeilAverage, c
    <3>7. QED
      BY <3>5, <3>6
  <2>3. QED
    BY <2>1, <2>2
<1> DEFINE W == {CeilAverage, 0} \cup V
<1>3. W \in SUBSET Int
  BY <1>2, RowCounts
<1>4. m \in W
  BY <1>1
<1>5. \A y \in W : y <= m
  BY <1>1, <1>2
<1> HIDE DEF W
<1>6. Max(W) = m
  BY <1>3, <1>4, <1>5, MaxIs
<1>7. QED
  BY <1>6 DEF Watermark, W, m

LEMMA BillableCount == Cardinality(Billable) \in Nat
BY StudentAssumption, FS_Subset, FS_CardinalityType DEF Billable

LEMMA StudentCount == Cardinality(Students) \in Nat
BY StudentAssumption, FS_CardinalityType

-----------------------------------------------------------------------------
(* Types of the billing *)

LEMMA NoTaskType == NoTask \in Tasks
<1>1. 1 \in Days
  BY BillingAssumption DEF Days
<1>2. NoTask.about \in Abouts /\ NoTask.dispute \in Contests
  BY DEF Abouts, Contests
<1>3. QED
  BY <1>1, <1>2 DEF NoTask, Tasks, DisputeStatuses

LEMMA TaskType ==
    ASSUME NEW t \in Tasks, NEW d \in Days, NEW n \in Nat, NEW i \in Invoices,
           NEW b \in BOOLEAN, NEW x \in Disputes, NEW v \in DisputeStatuses
    PROVE  /\ [t EXCEPT !.day = d] \in Tasks
           /\ [t EXCEPT !.count = n] \in Tasks /\ [t EXCEPT !.count = n].count = n
           /\ [t EXCEPT !.day = d, !.count = n] \in Tasks
           /\ [t EXCEPT !.day = d, !.count = n].day = d
           /\ [t EXCEPT !.about = i] \in Tasks /\ [t EXCEPT !.about = i].about = i
           /\ [t EXCEPT !.about = i, !.retro = b] \in Tasks
           /\ [t EXCEPT !.about = i, !.dispute = x, !.status = v] \in Tasks
           /\ [t EXCEPT !.about = i, !.dispute = x, !.status = v].about = i
BY DEF Tasks, Abouts, Contests

LEMMA MoveType ==
    ASSUME BillingTypes, NEW w \in Workers, NEW p \in BillingPlaces, Move(w, p)
    PROVE  place' \in [Workers -> BillingPlaces] /\ task' \in [Workers -> Tasks]
BY NoTaskType DEF BillingTypes, Move

LEMMA EnterType ==
    ASSUME BillingTypes, NEW w \in Workers, NEW p \in BillingPlaces, NEW t \in Tasks,
           Enter(w, p, t)
    PROVE  place' \in [Workers -> BillingPlaces] /\ task' \in [Workers -> Tasks]
BY DEF BillingTypes, Enter

LEMMA UpdateType ==
    ASSUME BillingTypes, NEW w \in Workers, NEW p \in BillingPlaces, NEW n \in Nat,
           place' = [place EXCEPT ![w] = p],
           task' = [task EXCEPT ![w] = [@ EXCEPT !.count = n]]
    PROVE  /\ place' \in [Workers -> BillingPlaces] /\ task' \in [Workers -> Tasks]
           /\ task'[w].count = n
<1>1. task[w] \in Tasks /\ task \in [Workers -> Tasks] /\ place \in [Workers -> BillingPlaces]
  BY DEF BillingTypes
<1> DEFINE t == [task[w] EXCEPT !.count = n]
<1>2. t \in Tasks /\ t.count = n
  BY <1>1 DEF Tasks
<1>3. task' = [task EXCEPT ![w] = t]
  OBVIOUS
<1> HIDE DEF t
<1>4. task' \in [Workers -> Tasks] /\ task'[w].count = n
  BY <1>1, <1>2, <1>3
<1>5. QED
  BY <1>1, <1>4

\* The calls that begin.
LEMMA EnteredTypes ==
    ASSUME BillingTypes, NEW w \in Workers,
           \/ TakeSnapshot(w)
           \/ \E d \in Days, n \in 0..Cardinality(Students) : Amend(w, d, n)
           \/ \E i \in Invoices, retro \in BOOLEAN : Draft(w, i, retro)
           \/ \E i \in Invoices, x \in Disputes, S \in SUBSET Students : Raise(w, x, i, S)
    PROVE  BillingTypes'
<1>1. SUFFICES ASSUME place' \in [Workers -> BillingPlaces], task' \in [Workers -> Tasks],
                      UNCHANGED <<calendar, counts, invoice, lockJob, dispute>>
               PROVE  BillingTypes'
  <2>1. UNCHANGED <<calendar, counts, invoice, lockJob, dispute>>
    BY DEF TakeSnapshot, Amend, Draft, Raise
  <2>2. place' \in [Workers -> BillingPlaces] /\ task' \in [Workers -> Tasks]
    <3>1. CASE TakeSnapshot(w)
      <4>1. [NoTask EXCEPT !.day = today] \in Tasks
        BY NoTaskType DEF BillingTypes, Tasks
      <4>2. QED
        BY <3>1, <4>1, EnterType DEF TakeSnapshot, BillingPlaces
    <3>2. ASSUME NEW d \in Days, NEW n \in 0..Cardinality(Students), Amend(w, d, n)
          PROVE  place' \in [Workers -> BillingPlaces] /\ task' \in [Workers -> Tasks]
      <4>1. n \in Nat
        BY StudentCount
      <4>2. [NoTask EXCEPT !.day = d, !.count = n] \in Tasks
        BY <4>1, NoTaskType DEF Tasks
      <4>3. QED
        BY <3>2, <4>2, EnterType DEF Amend, BillingPlaces
    <3>3. ASSUME NEW i \in Invoices, NEW retro \in BOOLEAN, Draft(w, i, retro)
          PROVE  place' \in [Workers -> BillingPlaces] /\ task' \in [Workers -> Tasks]
      <4>1. [NoTask EXCEPT !.about = i, !.retro = retro] \in Tasks
        BY NoTaskType DEF Tasks, Abouts
      <4>2. QED
        BY <3>3, <4>1, EnterType DEF Draft, BillingPlaces
    <3>4. ASSUME NEW i \in Invoices, NEW x \in Disputes, NEW S \in SUBSET Students,
                 Raise(w, x, i, S)
          PROVE  place' \in [Workers -> BillingPlaces] /\ task' \in [Workers -> Tasks]
      <4>1. PICK v \in DisputeStatuses : v = Verdict(S)
        BY DEF Verdict, DisputeStatuses
      <4>2. [NoTask EXCEPT !.about = i, !.dispute = x, !.status = v] \in Tasks
        BY NoTaskType DEF Tasks, Abouts, Contests
      <4>3. Enter(w, "dispute", [NoTask EXCEPT !.about = i, !.dispute = x, !.status = v])
        BY <3>4, <4>1 DEF Raise
      <4>4. QED
        BY <4>2, <4>3, EnterType DEF BillingPlaces
    <3>5. QED
      BY <3>1, <3>2, <3>3, <3>4
  <2>3. QED
    BY <2>1, <2>2
<1>2. QED
  BY <1>1 DEF BillingTypes, calendar, counts, Rows

LEMMA LockedType ==
    ASSUME NEW r \in InvoiceRows
    PROVE  LET l == [r EXCEPT !.status = "OPEN", !.lockedBy = "job"]
           IN  l \in InvoiceRows /\ l.status = "OPEN" /\ l.lockedBy = "job" /\ l.billed = r.billed
BY DEF InvoiceRows

\* The calls that go on.
LEMMA WorkedTypes ==
    ASSUME BillingTypes, NEW w \in Workers, Work(w)
    PROVE  BillingTypes'
<1>1. task[w] \in Tasks
  BY DEF BillingTypes
<1>2. CASE Count(w)
  <2>1. place' \in [Workers -> BillingPlaces] /\ task' \in [Workers -> Tasks]
    BY <1>2, MoveType, UpdateType, BillableCount DEF Count, BillingPlaces
  <2>2. QED
    BY <1>2, <2>1 DEF Count, BillingTypes, calendar, counts, Rows
<1>3. CASE Store(w)
  <2>1. place' \in [Workers -> BillingPlaces] /\ task' \in [Workers -> Tasks]
    BY <1>3, MoveType DEF Store, BillingPlaces
  <2>2. snapshot' \in [Days -> Nat \cup {None}] /\ Rows \subseteq Rows'
    <3>1. task[w].count \in Nat /\ task[w].count # None
      BY <1>1, BillingAssumption DEF Tasks
    <3>2. QED
      BY <1>3, <3>1 DEF Store, BillingTypes, Rows
  <2>3. QED
    BY <1>3, <2>1, <2>2 DEF Store, BillingTypes, calendar
<1>4. CASE WriteAmended(w)
  <2>1. place' \in [Workers -> BillingPlaces] /\ task' \in [Workers -> Tasks]
    BY <1>4, MoveType DEF WriteAmended, BillingPlaces
  <2>2. snapshot' \in [Days -> Nat \cup {None}] /\ Rows \subseteq Rows'
    <3>1. task[w].count \in Nat /\ task[w].count # None
      BY <1>1, BillingAssumption DEF Tasks
    <3>2. QED
      BY <1>4, <3>1 DEF WriteAmended, BillingTypes, Rows
  <2>3. QED
    BY <1>4, <2>1, <2>2 DEF WriteAmended, BillingTypes, calendar
<1>5. CASE ReadRows(w)
  <2>1. Watermark \in Nat
    BY WatermarkIsPeak, PeakIs
  <2>2. place' \in [Workers -> BillingPlaces] /\ task' \in [Workers -> Tasks]
    BY <1>5, <2>1, UpdateType DEF ReadRows, BilledCount, BillingPlaces
  <2>3. QED
    BY <1>5, <2>2 DEF ReadRows, BilledCount, BillingTypes, calendar, counts, Rows
<1>6. CASE StoreInvoice(w)
  <2>1. place' \in [Workers -> BillingPlaces] /\ task' \in [Workers -> Tasks]
    BY <1>6, MoveType DEF StoreInvoice, BillingPlaces
  <2>2. invoice' \in [Invoices -> InvoiceRows]
    BY <1>1, <1>6 DEF StoreInvoice, BillingTypes, InvoiceRows, Tasks
  <2>3. QED
    BY <1>6, <2>1, <2>2 DEF StoreInvoice, BillingTypes, calendar, counts, Rows
<1>7. CASE Schedule(w)
  <2>1. place' \in [Workers -> BillingPlaces] /\ task' \in [Workers -> Tasks]
    BY <1>7, MoveType DEF Schedule, BillingPlaces
  <2>2. QED
    BY <1>7, <2>1 DEF Schedule, BillingTypes, calendar, counts, Rows
<1>8. CASE CheckDisputes(w)
  <2>1. place' \in [Workers -> BillingPlaces] /\ task' \in [Workers -> Tasks]
    BY <1>8, MoveType DEF CheckDisputes, BillingPlaces
  <2>2. QED
    BY <1>8, <2>1 DEF CheckDisputes, EndJob, BillingTypes, calendar, counts, Rows
<1>9. CASE Lock(w)
  <2>1. place' \in [Workers -> BillingPlaces] /\ task' \in [Workers -> Tasks]
    BY <1>9, MoveType DEF Lock, BillingPlaces
  <2>2. invoice' \in [Invoices -> InvoiceRows]
    <3> DEFINE i == task[w].about
               row == [invoice[i] EXCEPT !.status = "OPEN", !.lockedBy = "job"]
    <3>1. i \in Invoices => row \in InvoiceRows
      <4>1. i \in Invoices => invoice[i] \in InvoiceRows
        BY DEF BillingTypes
      <4> HIDE DEF i
      <4>2. QED
        BY <4>1, LockedType
    <3>2. invoice' = [invoice EXCEPT ![i] = row]
      BY <1>9 DEF Lock
    <3> HIDE DEF i, row
    <3>3. QED
      BY <3>1, <3>2 DEF BillingTypes
  <2>3. QED
    BY <1>9, <2>1, <2>2 DEF Lock, EndJob, LockedWith, BillingTypes, calendar, Rows
<1>10. CASE StoreDispute(w)
  <2>1. place' \in [Workers -> BillingPlaces] /\ task' \in [Workers -> Tasks]
    BY <1>10, MoveType DEF StoreDispute, BillingPlaces
  <2>2. dispute' \in [Disputes -> [about : Abouts, status : DisputeStatuses]]
    BY <1>1, <1>10 DEF StoreDispute, BillingTypes, Tasks
  <2>3. QED
    BY <1>10, <2>1, <2>2 DEF StoreDispute, BillingTypes, calendar, counts, Rows
<1>11. QED
  BY <1>2, <1>3, <1>4, <1>5, <1>6, <1>7, <1>8, <1>9, <1>10 DEF Work

LEMMA BillTypes ==
    ASSUME BillingTypes, Bill
    PROVE  BillingTypes'
<1>1. CASE NextDay
  BY <1>1, BillingAssumption DEF NextDay, BillingTypes, counts, Rows, Days
<1>2. ASSUME NEW from \in Days, NEW to \in Days, LockDays(from, to) \/ UnlockDays(from, to)
      PROVE  BillingTypes'
  <2>1. locked' \subseteq Rows
    <3>1. from..to \subseteq Days
      BY BillingAssumption DEF Days
    <3>2. {d \in from..to : snapshot[d] # None} \subseteq Rows
      BY <3>1 DEF Rows
    <3>3. QED
      BY <1>2, <3>2 DEF LockDays, UnlockDays, BillingTypes
  <2>2. QED
    BY <1>2, <2>1 DEF LockDays, UnlockDays, BillingTypes, calendar, Rows
<1>3. ASSUME NEW i \in Invoices, Finalize(i) PROVE BillingTypes'
  <2>1. invoice' \in [Invoices -> InvoiceRows]
    BY <1>3 DEF Finalize, BillingTypes, InvoiceRows
  <2>2. QED
    BY <1>3, <2>1 DEF Finalize, BillingTypes, calendar, counts, Rows
<1>4. ASSUME NEW x \in Disputes, Resolve(x) PROVE BillingTypes'
  <2>1. dispute' \in [Disputes -> [about : Abouts, status : DisputeStatuses]]
    BY <1>4 DEF Resolve, BillingTypes, DisputeStatuses
  <2>2. QED
    BY <1>4, <2>1 DEF Resolve, BillingTypes, calendar, counts, Rows
<1>5. ASSUME NEW w \in Workers, Crash(w) PROVE BillingTypes'
  <2>1. place' \in [Workers -> BillingPlaces] /\ task' \in [Workers -> Tasks]
    BY <1>5, MoveType DEF Crash, BillingPlaces
  <2>2. lockJob' \in [Invoices -> [state : {"none", "waiting", "running", "done", "failed"},
                                   failed : Nat]]
    BY <1>5 DEF Crash, BillingTypes
  <2>3. QED
    BY <1>5, <2>1, <2>2 DEF Crash, BillingTypes, calendar, counts, Rows
<1>6. ASSUME NEW w \in Workers, NEW i \in Invoices, LockJob(w, i) PROVE BillingTypes'
  <2>1. [NoTask EXCEPT !.about = i] \in Tasks
    BY NoTaskType DEF Tasks, Abouts
  <2>2. place' \in [Workers -> BillingPlaces] /\ task' \in [Workers -> Tasks]
    <3>1. CASE Enter(w, "disputes", [NoTask EXCEPT !.about = i])
      BY <2>1, <3>1, EnterType DEF BillingPlaces
    <3>2. CASE UNCHANGED <<place, task>>
      BY <3>2 DEF BillingTypes
    <3>3. QED
      BY <1>6, <3>1, <3>2 DEF LockJob
  <2>3. lockJob' \in [Invoices -> [state : {"none", "waiting", "running", "done", "failed"},
                                   failed : Nat]]
    BY <1>6 DEF LockJob, EndJob, BillingTypes
  <2>4. QED
    BY <1>6, <2>2, <2>3 DEF LockJob, BillingTypes, calendar, counts, Rows
<1>7. QED
  BY <1>1, <1>2, <1>3, <1>4, <1>5, <1>6, EnteredTypes, WorkedTypes, Zenon DEF Bill

-----------------------------------------------------------------------------
(* One call at a time *)

\* Where one place at most is not idle, no two are.
LEMMA FewOpen ==
    ASSUME NEW p, NEW q,
           Cardinality({h \in Handlers : p[h] # "idle"})
              + Cardinality({w \in Workers : q[w] # "idle"}) <= 1
    PROVE  /\ \A v, w \in Workers : q[v] # "idle" /\ q[w] # "idle" => v = w
           /\ \A h \in Handlers, w \in Workers : p[h] = "idle" \/ q[w] = "idle"
<1> DEFINE A == {h \in Handlers : p[h] # "idle"}
           B == {w \in Workers : q[w] # "idle"}
<1>1. IsFiniteSet(A) /\ IsFiniteSet(B)
  BY StudentAssumption, BillingAssumption, FS_Subset
<1>2. \A h \in Handlers : p[h] # "idle" => h \in A
  OBVIOUS
<1>3. \A w \in Workers : q[w] # "idle" => w \in B
  OBVIOUS
<1>4. Cardinality(A) + Cardinality(B) <= 1
  OBVIOUS
<1> HIDE DEF A, B
<1>5. Cardinality(A) \in Nat /\ Cardinality(B) \in Nat
  BY <1>1, FS_CardinalityType
<1>6. Cardinality(B) <= 1
  BY <1>4, <1>5
<1>7. \A v, w \in B : v = w
  BY <1>1, <1>6, AtMostOne
<1>8. A = {} \/ B = {}
  <2>1. Cardinality(A) = 0 \/ Cardinality(B) = 0
    BY <1>4, <1>5
  <2>2. QED
    BY <1>1, <2>1, FS_EmptySet
<1>9. QED
  BY <1>2, <1>3, <1>7, <1>8

\* Nobody is at work.
AllIdle == (\A h \in Handlers : pc[h] = "idle") /\ \A w \in Workers : place[w] = "idle"

LEMMA OpenIdle ==
    ASSUME mode = "serial", Quiet \/ \E w \in Workers : MayWork(w)
    PROVE  AllIdle
<1> DEFINE A == {h \in Handlers : pc[h] # "idle"}
           B == {w \in Workers : place[w] # "idle"}
<1>1. IsFiniteSet(A) /\ IsFiniteSet(B)
  BY StudentAssumption, BillingAssumption, FS_Subset
<1>2. Open = Cardinality(A) + Cardinality(B)
  BY DEF Open
<1>3. A = {} /\ B = {}
  <2> HIDE DEF A, B
  <2>1. Cardinality(A) \in Nat /\ Cardinality(B) \in Nat
    BY <1>1, FS_CardinalityType
  <2>2. Open < 1
    BY <1>2, <2>1 DEF Quiet, MayWork
  <2>3. Cardinality(A) = 0 /\ Cardinality(B) = 0
    BY <1>2, <2>1, <2>2
  <2>4. QED
    BY <1>1, <2>3, FS_EmptySet
<1>4. QED
  BY <1>3 DEF AllIdle

\* What a call has read, and what an invoice is, is left alone.
Kept == UNCHANGED <<status, removed, snapshot, locked, touched, invoice, lockJob, dispute>>

LEMMA KeptBooks ==
    ASSUME Kept
    PROVE  /\ \A p, t : DoingAs(p, t) => DoingAs(p, t)'
           /\ \A i \in Invoices : Billed(i) => Billed(i)'
BY DEF Kept, DoingAs, Billed, Billable, Rows, Peak, Disputed

\* A step of call w of the billing, when no other call is at work.
LEMMA BooksByWork ==
    ASSUME BillingTypes, mode = "serial", Books, UNCHANGED <<vars, scope>>,
           NEW w \in Workers, NEW p, NEW t, scope = "billing",
           place[w] # "idle" \/ AllIdle,
           place' = [place EXCEPT ![w] = p], task' = [task EXCEPT ![w] = t],
           DoingAs(p, t)', \A i \in Invoices : Billed(i)'
    PROVE  Books'
<1>1. mode' = mode /\ pc' = pc /\ scope' = scope
  BY DEF vars
<1>2. /\ \A v \in Workers : v # w => place[v] = "idle"
      /\ \A h \in Handlers : pc[h] = "idle"
  BY DEF Books, Alone, AllIdle
<1>3. /\ \A v \in Workers : v # w => place'[v] = "idle"
      /\ place'[w] = p /\ task'[w] = t
  BY <1>2 DEF BillingTypes
<1>4. Alone'
  BY <1>1, <1>2, <1>3 DEF Alone
<1>5. ASSUME NEW v \in Workers PROVE DoingAs(place[v], task[v])'
  <2>1. CASE v = w
    <3>1. place'[v] = p /\ task'[v] = t
      BY <1>3, <2>1
    <3>2. QED
      BY <3>1
  <2>2. CASE v # w
    <3>1. place'[v] = "idle"
      BY <1>3, <2>2
    <3>2. QED
      BY <3>1 DEF DoingAs
  <2>3. QED
    BY <2>1, <2>2
<1>6. QED
  BY <1>4, <1>5 DEF Books

\* A step of no call, which leaves the calls alone.
LEMMA BooksByHand ==
    ASSUME BillingTypes, mode = "serial", Books, UNCHANGED <<vars, scope, place, task>>,
           AllIdle \/ Kept, \A i \in Invoices : Billed(i)'
    PROVE  Books'
<1>1. mode' = mode /\ pc' = pc /\ scope' = scope /\ place' = place /\ task' = task
  BY DEF vars
<1>2. Alone'
  BY <1>1 DEF Alone, Books
<1>3. ASSUME NEW v \in Workers PROVE DoingAs(place[v], task[v])'
  <2>1. CASE AllIdle
    BY <1>1, <2>1 DEF DoingAs, AllIdle
  <2>2. CASE Kept
    <3>1. DoingAs(place[v], task[v])
      BY DEF Books
    <3>2. PICK p, t : p = place[v] /\ t = task[v]
      OBVIOUS
    <3>3. DoingAs(p, t)'
      BY <2>2, <3>1, <3>2, KeptBooks
    <3>4. QED
      BY <1>1, <3>2, <3>3
  <2>3. QED
    BY <2>1, <2>2
<1>4. QED
  BY <1>2, <1>3 DEF Books

\* Going on from a place, in the form of the lemma above.
LEMMA MoveForm ==
    ASSUME BillingTypes, NEW w \in Workers, NEW p, Move(w, p)
    PROVE  /\ place' = [place EXCEPT ![w] = p]
           /\ task' = [task EXCEPT ![w] = IF p = "idle" THEN NoTask ELSE task[w]]
BY DEF Move, BillingTypes

-----------------------------------------------------------------------------
(* What each step of the billing does to the books *)

\* A call that begins with what is so now.
LEMMA BooksEntered ==
    ASSUME BillingTypes, mode = "serial", Books, scope = "billing", Kept,
           UNCHANGED <<vars, scope>>, NEW w \in Workers, NEW p, NEW t, Enter(w, p, t),
           DoingAs(p, t)
    PROVE  Books'
<1>1. AllIdle
  BY OpenIdle DEF Enter
<1>2. place' = [place EXCEPT ![w] = p] /\ task' = [task EXCEPT ![w] = t]
  BY DEF Enter
<1>3. DoingAs(p, t)' /\ \A i \in Invoices : Billed(i)'
  BY KeptBooks DEF Books
<1>4. QED
  BY <1>1, <1>2, <1>3, BooksByWork

LEMMA TakeSnapshotBooks ==
    ASSUME BillingTypes, mode = "serial", Books, scope = "billing", NEW w \in Workers,
           TakeSnapshot(w)
    PROVE  Books'
<1>1. PICK t : t = [NoTask EXCEPT !.day = today]
  OBVIOUS
<1>2. Enter(w, "count", t) /\ Kept /\ UNCHANGED <<vars, scope>>
  BY <1>1 DEF TakeSnapshot, Kept, calendar, counts, vars, people
<1>3. DoingAs("count", t)
  BY DEF DoingAs
<1>4. QED
  BY <1>2, <1>3, BooksEntered

LEMMA AmendBooks ==
    ASSUME BillingTypes, mode = "serial", Books, scope = "billing", NEW w \in Workers,
           NEW d \in Days, NEW n \in 0..Cardinality(Students), Amend(w, d, n)
    PROVE  Books'
<1>1. PICK t : t = [NoTask EXCEPT !.day = d, !.count = n]
  OBVIOUS
<1>2. t.day = d
  BY <1>1, NoTaskType DEF Tasks
<1>3. Enter(w, "amend", t) /\ Kept /\ UNCHANGED <<vars, scope>>
  BY <1>1 DEF Amend, Kept, calendar, counts, vars, people
<1>4. DoingAs("amend", t)
  BY <1>2 DEF DoingAs, Amend, Rows
<1>5. QED
  BY <1>3, <1>4, BooksEntered

LEMMA DraftBooks ==
    ASSUME BillingTypes, mode = "serial", Books, scope = "billing", NEW w \in Workers,
           NEW i \in Invoices, NEW retro \in BOOLEAN, Draft(w, i, retro)
    PROVE  Books'
<1>1. PICK t : t = [NoTask EXCEPT !.about = i, !.retro = retro]
  OBVIOUS
<1>2. Enter(w, "rows", t) /\ Kept /\ UNCHANGED <<vars, scope>>
  BY <1>1 DEF Draft, Kept, calendar, counts, vars, people
<1>3. DoingAs("rows", t)
  BY <1>1, NoTaskType DEF DoingAs, Tasks
<1>4. QED
  BY <1>2, <1>3, BooksEntered

LEMMA RaiseBooks ==
    ASSUME BillingTypes, mode = "serial", Books, scope = "billing", NEW w \in Workers,
           NEW x \in Disputes, NEW i \in Invoices, NEW S \in SUBSET Students, Raise(w, x, i, S)
    PROVE  Books'
<1>1. PICK t : t = [NoTask EXCEPT !.about = i, !.dispute = x, !.status = Verdict(S)]
  OBVIOUS
<1>2. t.about = i
  BY <1>1, NoTaskType DEF Tasks
<1>3. Enter(w, "dispute", t) /\ Kept /\ UNCHANGED <<vars, scope>>
  BY <1>1 DEF Raise, Kept, calendar, counts, vars, people
<1>4. DoingAs("dispute", t)
  BY <1>2 DEF DoingAs, Raise
<1>5. QED
  BY <1>3, <1>4, BooksEntered

LEMMA CountBooks ==
    ASSUME BillingTypes, mode = "serial", Books, scope = "billing", NEW w \in Workers, Count(w)
    PROVE  Books'
<1>1. Kept /\ UNCHANGED <<vars, scope>> /\ place[w] # "idle"
  BY DEF Count, In, Kept, calendar, counts, vars, people
<1>2. \A i \in Invoices : Billed(i)'
  BY <1>1, KeptBooks DEF Books
<1>3. CASE Move(w, "idle")
  <2>1. DoingAs("idle", NoTask)'
    BY DEF DoingAs
  <2>2. QED
    BY <1>1, <1>2, <1>3, <2>1, MoveForm, BooksByWork
<1>4. ASSUME place' = [place EXCEPT ![w] = "store"],
             task' = [task EXCEPT ![w] = [@ EXCEPT !.count = Cardinality(Billable)]]
      PROVE  Books'
  <2>1. task[w] \in Tasks /\ task \in [Workers -> Tasks]
    BY DEF BillingTypes
  <2>2. PICK t : t = [task[w] EXCEPT !.count = Cardinality(Billable)]
    OBVIOUS
  <2>3. t.count = Cardinality(Billable)
    BY <2>1, <2>2 DEF Tasks
  <2>4. task' = [task EXCEPT ![w] = t]
    BY <1>4, <2>2
  <2>5. DoingAs("store", t)
    BY <2>3 DEF DoingAs
  <2>6. DoingAs("store", t)'
    BY <1>1, <2>5, KeptBooks
  <2>7. QED
    BY <1>1, <1>2, <1>4, <2>4, <2>6, BooksByWork
<1>5. QED
  BY <1>3, <1>4 DEF Count

LEMMA ReadRowsBooks ==
    ASSUME BillingTypes, mode = "serial", Books, scope = "billing", NEW w \in Workers,
           ReadRows(w)
    PROVE  Books'
<1>1. /\ Kept /\ UNCHANGED <<vars, scope>> /\ place[w] # "idle"
      /\ place' = [place EXCEPT ![w] = "invoice"]
      /\ task' = [task EXCEPT ![w] = [@ EXCEPT !.count = Watermark]]
  BY DEF ReadRows, BilledCount, In, Kept, calendar, counts, vars, people
<1>2. \A i \in Invoices : Billed(i)'
  BY <1>1, KeptBooks DEF Books
<1>3. task[w] \in Tasks /\ task \in [Workers -> Tasks]
  BY DEF BillingTypes
<1>4. PICK t : t = [task[w] EXCEPT !.count = Watermark]
  OBVIOUS
<1>5. t.count = Peak /\ t.about \in Invoices
  <2>1. t.count = Watermark /\ t.about = task[w].about
    BY <1>3, <1>4 DEF Tasks
  <2>2. task[w].about \in Invoices
    BY DEF Books, DoingAs, ReadRows, In
  <2>3. QED
    BY <2>1, <2>2, WatermarkIsPeak
<1>6. task' = [task EXCEPT ![w] = t]
  BY <1>1, <1>4
<1>7. DoingAs("invoice", t)
  BY <1>5 DEF DoingAs
<1>8. DoingAs("invoice", t)'
  BY <1>1, <1>7, KeptBooks
<1>9. QED
  BY <1>1, <1>2, <1>6, <1>8, BooksByWork

\* A count that is stored touches every invoice that was counted.
LEMMA StoreBooks ==
    ASSUME BillingTypes, mode = "serial", Books, scope = "billing", NEW w \in Workers, Store(w)
    PROVE  Books'
<1>1. /\ UNCHANGED <<vars, scope, locked, invoice, lockJob, dispute>> /\ place[w] # "idle"
      /\ Move(w, "idle")
  BY DEF Store, In, calendar
<1>2. DoingAs("idle", NoTask)'
  BY DEF DoingAs
<1>3. ASSUME NEW i \in Invoices PROVE Billed(i)'
  <2>1. Billed(i)
    BY DEF Books
  <2>2. CASE UNCHANGED <<snapshot, touched>>
    BY <1>1, <2>1, <2>2 DEF Billed, Peak, Rows, Disputed
  <2>3. CASE touched' = touched \cup Counted
    <3>1. invoice[i].status # "none" => i \in touched'
      BY <2>3 DEF Counted
    <3>2. invoice' = invoice /\ lockJob' = lockJob /\ Disputed(i)' = Disputed(i)
      BY <1>1 DEF Disputed
    <3>3. QED
      BY <2>1, <3>1, <3>2 DEF Billed
  <2>4. QED
    BY <2>2, <2>3 DEF Store
<1>4. QED
  BY <1>1, <1>2, <1>3, MoveForm, BooksByWork

\* An amended count touches the invoices that are not locked by the job; those it locked have
\* their days locked, or are touched already.
LEMMA WriteAmendedBooks ==
    ASSUME BillingTypes, mode = "serial", Books, scope = "billing", NEW w \in Workers,
           WriteAmended(w)
    PROVE  Books'
<1>1. /\ UNCHANGED <<vars, scope, locked, invoice, lockJob, dispute>> /\ place[w] = "amend"
      /\ Move(w, "idle")
      /\ touched' = touched \cup {i \in Counted : invoice[i].lockedBy # "job"}
  BY DEF WriteAmended, In, calendar
<1>2. DoingAs("idle", NoTask)'
  BY DEF DoingAs
<1>3. task[w].day \in Rows \ locked
  BY <1>1 DEF Books, DoingAs
<1>4. ASSUME NEW i \in Invoices PROVE Billed(i)'
  <2>1. Billed(i)
    BY DEF Books
  <2>2. invoice[i].status # "none" => i \in touched'
    <3>1. CASE invoice[i].lockedBy = "job"
      BY <1>1, <1>3, <2>1, <3>1 DEF Billed
    <3>2. CASE invoice[i].lockedBy # "job"
      BY <1>1, <3>2 DEF Counted
    <3>3. QED
      BY <3>1, <3>2
  <2>3. invoice' = invoice /\ lockJob' = lockJob /\ Disputed(i)' = Disputed(i)
    BY <1>1 DEF Disputed
  <2>4. QED
    BY <2>1, <2>2, <2>3 DEF Billed
<1>5. QED
  BY <1>1, <1>2, <1>4, MoveForm, BooksByWork

LEMMA DaysBooks ==
    ASSUME BillingTypes, mode = "serial", Books, scope = "billing",
           NEW from \in Days, NEW to \in Days, LockDays(from, to) \/ UnlockDays(from, to)
    PROVE  Books'
<1>1. UNCHANGED <<vars, scope, snapshot, invoice, lockJob, dispute, place, task>> /\ AllIdle
  BY OpenIdle DEF LockDays, UnlockDays, calendar
<1>2. ASSUME NEW i \in Invoices PROVE Billed(i)'
  <2>1. Billed(i)
    BY DEF Books
  <2>2. Rows' = Rows /\ Peak' = Peak /\ Disputed(i)' = Disputed(i)
    BY <1>1 DEF Rows, Peak, Disputed
  <2>3. CASE LockDays(from, to)
    <3>1. locked \subseteq locked' /\ touched' = touched
      BY <2>3 DEF LockDays
    <3>2. QED
      BY <1>1, <2>1, <2>2, <3>1 DEF Billed
  <2>4. CASE UnlockDays(from, to)
    <3>1. invoice[i].status # "none" => i \in touched'
      BY <2>4 DEF UnlockDays, Counted
    <3>2. QED
      BY <1>1, <2>1, <2>2, <3>1 DEF Billed
  <2>5. QED
    BY <2>3, <2>4
<1>3. QED
  BY <1>1, <1>2, BooksByHand

LEMMA StoreInvoiceBooks ==
    ASSUME BillingTypes, mode = "serial", Books, scope = "billing", NEW w \in Workers,
           StoreInvoice(w)
    PROVE  Books'
<1> DEFINE a == task[w].about
           row == [status |-> "DRAFT", retro |-> task[w].retro, lockedBy |-> "nobody",
                   billed |-> task[w].count]
<1>1. /\ UNCHANGED <<vars, scope, snapshot, locked, touched, lockJob, dispute>>
      /\ place[w] = "invoice" /\ invoice' = [invoice EXCEPT ![a] = row]
  BY DEF StoreInvoice, In, calendar, counts
<1>2. PICK p \in {"idle", "schedule"} : Move(w, p)
  BY DEF StoreInvoice
<1>3. task[w].count = Peak /\ a \in Invoices
  BY <1>1 DEF Books, DoingAs
<1>4. row.status = "DRAFT" /\ row.lockedBy = "nobody" /\ row.billed = Peak
  BY <1>3
<1>5. invoice \in [Invoices -> InvoiceRows]
  BY DEF BillingTypes
<1> HIDE DEF a, row
<1>6. ASSUME NEW i \in Invoices PROVE Billed(i)'
  <2>1. Billed(i)
    BY DEF Books
  <2>2. Rows' = Rows /\ Peak' = Peak /\ Disputed(i)' = Disputed(i)
    BY <1>1 DEF Rows, Peak, Disputed
  <2>3. CASE i = a
    <3>1. invoice'[i] = row
      BY <1>1, <1>5, <2>3
    <3>2. QED
      BY <1>4, <2>2, <3>1 DEF Billed
  <2>4. CASE i # a
    <3>1. invoice'[i] = invoice[i]
      BY <1>1, <1>5, <2>4
    <3>2. QED
      BY <1>1, <2>1, <2>2, <3>1 DEF Billed
  <2>5. QED
    BY <2>3, <2>4
<1>7. PICK t : t = IF p = "idle" THEN NoTask ELSE task[w]
  OBVIOUS
<1>8. place' = [place EXCEPT ![w] = p] /\ task' = [task EXCEPT ![w] = t]
  BY <1>2, <1>7, MoveForm
<1>9. DoingAs(p, t)'
  <2>1. CASE p = "idle"
    BY <2>1 DEF DoingAs
  <2>2. CASE p = "schedule"
    <3>1. t.about = a
      BY <1>7, <2>2 DEF a
    <3>2. invoice'[a].status # "none"
      BY <1>1, <1>3, <1>4, <1>5
    <3>3. QED
      BY <1>3, <2>2, <3>1, <3>2 DEF DoingAs
  <2>3. QED
    BY <1>2, <2>1, <2>2
<1>10. QED
  BY <1>1, <1>6, <1>8, <1>9, BooksByWork

LEMMA ScheduleBooks ==
    ASSUME BillingTypes, mode = "serial", Books, scope = "billing", NEW w \in Workers,
           Schedule(w)
    PROVE  Books'
<1> DEFINE a == task[w].about
<1>1. /\ UNCHANGED <<vars, scope, snapshot, locked, touched, invoice, dispute>>
      /\ place[w] = "schedule" /\ Move(w, "idle")
      /\ \/ lockJob' = [lockJob EXCEPT ![a] = [@ EXCEPT !.state = "waiting"]]
         \/ lockJob' = lockJob
  BY DEF Schedule, In, calendar, counts
<1>2. invoice[a].status # "none"
  BY <1>1 DEF Books, DoingAs
<1> HIDE DEF a
<1>3. ASSUME NEW i \in Invoices PROVE Billed(i)'
  <2>1. Billed(i)
    BY DEF Books
  <2>2. Rows' = Rows /\ Peak' = Peak /\ Disputed(i)' = Disputed(i)
    BY <1>1 DEF Rows, Peak, Disputed
  <2>3. i # a => lockJob'[i] = lockJob[i]
    BY <1>1 DEF BillingTypes
  <2>4. QED
    BY <1>1, <1>2, <2>1, <2>2, <2>3 DEF Billed
<1>4. DoingAs("idle", NoTask)'
  BY DEF DoingAs
<1>5. QED
  BY <1>1, <1>3, <1>4, MoveForm, BooksByWork

LEMMA FinalizeBooks ==
    ASSUME BillingTypes, mode = "serial", Books, scope = "billing", NEW a \in Invoices,
           Finalize(a)
    PROVE  Books'
<1>1. /\ UNCHANGED <<vars, scope, snapshot, locked, touched, lockJob, dispute, place, task>>
      /\ invoice[a].status = "DRAFT" /\ AllIdle
      /\ invoice' = [invoice EXCEPT ![a] = [@ EXCEPT !.status = "OPEN", !.lockedBy = "hand"]]
  BY OpenIdle DEF Finalize, calendar, counts
<1>2. ASSUME NEW i \in Invoices PROVE Billed(i)'
  <2>1. Billed(i)
    BY DEF Books
  <2>2. Rows' = Rows /\ Peak' = Peak /\ Disputed(i)' = Disputed(i)
    BY <1>1 DEF Rows, Peak, Disputed
  <2>3. CASE i = a
    <3>1. /\ invoice'[a].status = "OPEN" /\ invoice'[a].lockedBy = "hand"
          /\ invoice'[a].billed = invoice[a].billed
      BY <1>1 DEF BillingTypes, InvoiceRows
    <3>2. QED
      BY <1>1, <2>1, <2>2, <2>3, <3>1 DEF Billed
  <2>4. CASE i # a
    <3>1. invoice'[i] = invoice[i]
      BY <1>1, <2>4 DEF BillingTypes
    <3>2. QED
      BY <1>1, <2>1, <2>2, <3>1 DEF Billed
  <2>5. QED
    BY <2>3, <2>4
<1>3. QED
  BY <1>1, <1>2, BooksByHand

\* A change of lock job a that leaves it neither waiting nor running, or that finds it so.
LEMMA JobBilled ==
    ASSUME BillingTypes, Books, mode = "serial", NEW a \in Invoices, NEW state,
           state \in {"waiting", "running"} => lockJob[a].state \in {"waiting", "running"},
           lockJob' = [lockJob EXCEPT ![a] = [@ EXCEPT !.state = state]],
           UNCHANGED <<snapshot, locked, touched, invoice, dispute>>
    PROVE  \A i \in Invoices : Billed(i)'
<1> SUFFICES ASSUME NEW i \in Invoices PROVE Billed(i)'
  OBVIOUS
<1>1. Billed(i) /\ Billed(a)
  BY DEF Books
<1>2. Rows' = Rows /\ Peak' = Peak /\ Disputed(i)' = Disputed(i)
  BY DEF Rows, Peak, Disputed
<1>3. lockJob'[a].state = state /\ (i # a => lockJob'[i] = lockJob[i])
  BY DEF BillingTypes
<1>4. QED
  BY <1>1, <1>2, <1>3 DEF Billed

LEMMA LockJobBooks ==
    ASSUME BillingTypes, mode = "serial", Books, scope = "billing", NEW w \in Workers,
           NEW a \in Invoices, LockJob(w, a)
    PROVE  Books'
<1>1. /\ UNCHANGED <<vars, scope, snapshot, locked, touched, invoice, dispute>>
      /\ lockJob[a].state = "waiting" /\ AllIdle
  BY OpenIdle DEF LockJob, calendar, counts
<1>2. PICK t : t = [NoTask EXCEPT !.about = a]
  OBVIOUS
<1>3. t.about = a
  BY <1>2, NoTaskType DEF Tasks
<1>4. CASE Enter(w, "disputes", t) /\ lockJob' = [lockJob EXCEPT ![a] = [@ EXCEPT !.state = "running"]]
  <2>1. \A i \in Invoices : Billed(i)'
    BY <1>1, <1>4, JobBilled
  <2>2. invoice'[a].status # "none"
    BY <1>1 DEF Books, Billed
  <2>3. DoingAs("disputes", t)'
    BY <1>3, <2>2 DEF DoingAs
  <2>4. place' = [place EXCEPT ![w] = "disputes"] /\ task' = [task EXCEPT ![w] = t]
    BY <1>4 DEF Enter
  <2>5. QED
    BY <1>1, <2>1, <2>3, <2>4, BooksByWork
<1>5. CASE EndJob(a) /\ UNCHANGED <<place, task>>
  <2>1. \A i \in Invoices : Billed(i)'
    BY <1>1, <1>5, JobBilled DEF EndJob
  <2>2. QED
    BY <1>1, <1>5, <2>1, BooksByHand
<1>6. QED
  BY <1>2, <1>4, <1>5 DEF LockJob

LEMMA CheckDisputesBooks ==
    ASSUME BillingTypes, mode = "serial", Books, scope = "billing", NEW w \in Workers,
           CheckDisputes(w)
    PROVE  Books'
<1>1. PICK a \in Invoices : a = task[w].about
  BY DEF CheckDisputes, In, Books, DoingAs
<1>2. /\ UNCHANGED <<vars, scope, snapshot, locked, touched, invoice, dispute>>
      /\ place[w] = "disputes" /\ invoice[a].status # "none"
  BY <1>1 DEF CheckDisputes, In, calendar, counts, Books, DoingAs
<1>3. CASE EndJob(a) /\ Move(w, "idle")
  <2>1. \A i \in Invoices : Billed(i)'
    BY <1>2, <1>3, JobBilled DEF EndJob
  <2>2. DoingAs("idle", NoTask)'
    BY DEF DoingAs
  <2>3. QED
    BY <1>2, <1>3, <2>1, <2>2, MoveForm, BooksByWork
<1>4. CASE ~Disputed(a) /\ Move(w, "lock") /\ lockJob' = lockJob
  <2>1. Kept
    BY <1>2, <1>4 DEF Kept, vars, people
  <2>2. \A i \in Invoices : Billed(i)'
    BY <2>1, KeptBooks DEF Books
  <2>3. PICK t : t = task[w]
    OBVIOUS
  <2>4. place' = [place EXCEPT ![w] = "lock"] /\ task' = [task EXCEPT ![w] = t]
    BY <1>4, <2>3, MoveForm
  <2>5. DoingAs("lock", t)
    BY <1>1, <1>2, <1>4, <2>3 DEF DoingAs
  <2>6. DoingAs("lock", t)'
    BY <2>1, <2>5, KeptBooks
  <2>7. QED
    BY <1>2, <2>2, <2>4, <2>6, BooksByWork
<1>5. QED
  BY <1>1, <1>3, <1>4 DEF CheckDisputes

\* The job locks an invoice that nobody disputes, and every day that is counted.
LEMMA LockBooks ==
    ASSUME BillingTypes, mode = "serial", Books, scope = "billing", NEW w \in Workers, Lock(w)
    PROVE  Books'
<1>1. PICK a \in Invoices : a = task[w].about
  BY DEF Lock, In, Books, DoingAs
<1>2. /\ UNCHANGED <<vars, scope, snapshot, touched, dispute>>
      /\ place[w] = "lock" /\ invoice[a].status # "none" /\ ~Disputed(a)
      /\ invoice' = [invoice EXCEPT ![a] = [@ EXCEPT !.status = "OPEN", !.lockedBy = "job"]]
      /\ locked' = locked \cup Rows
      /\ lockJob' = [lockJob EXCEPT ![a] = [@ EXCEPT !.state = "done"]]
      /\ Move(w, "idle")
  BY <1>1 DEF Lock, In, calendar, counts, Books, DoingAs, EndJob, LockedWith
<1>3. ASSUME NEW i \in Invoices PROVE Billed(i)'
  <2>1. Billed(i)
    BY DEF Books
  <2>2. Rows' = Rows /\ Peak' = Peak /\ Disputed(i)' = Disputed(i)
    BY <1>2 DEF Rows, Peak, Disputed
  <2>3. CASE i = a
    <3>1. /\ invoice'[a].status = "OPEN" /\ invoice'[a].lockedBy = "job"
          /\ invoice'[a].billed = invoice[a].billed
      <4>1. invoice \in [Invoices -> InvoiceRows] /\ invoice[a] \in InvoiceRows
        BY DEF BillingTypes
      <4>2. PICK l : l = [invoice[a] EXCEPT !.status = "OPEN", !.lockedBy = "job"]
        OBVIOUS
      <4>3. l.status = "OPEN" /\ l.lockedBy = "job" /\ l.billed = invoice[a].billed
        BY <4>1, <4>2, LockedType
      <4>4. invoice'[a] = l
        BY <1>2, <4>1, <4>2
      <4>5. QED
        BY <4>3, <4>4
    <3>2. lockJob'[a].state = "done"
      BY <1>2 DEF BillingTypes
    <3>3. QED
      BY <1>2, <2>1, <2>2, <2>3, <3>1, <3>2 DEF Billed
  <2>4. CASE i # a
    <3>1. invoice'[i] = invoice[i] /\ lockJob'[i] = lockJob[i]
      BY <1>2, <2>4 DEF BillingTypes
    <3>2. QED
      BY <1>2, <2>1, <2>2, <3>1 DEF Billed
  <2>5. QED
    BY <2>3, <2>4
<1>4. DoingAs("idle", NoTask)'
  BY DEF DoingAs
<1>5. QED
  BY <1>2, <1>3, <1>4, MoveForm, BooksByWork

\* A dispute is stored about an invoice that nobody has locked.
LEMMA StoreDisputeBooks ==
    ASSUME BillingTypes, mode = "serial", Books, scope = "billing", NEW w \in Workers,
           StoreDispute(w)
    PROVE  Books'
<1>1. PICK a \in Invoices : a = task[w].about
  BY DEF StoreDispute, In, Books, DoingAs
<1> DEFINE x == task[w].dispute
           row == [about |-> a, status |-> task[w].status]
<1>2. /\ UNCHANGED <<vars, scope, snapshot, locked, touched, invoice, lockJob>>
      /\ place[w] = "dispute" /\ invoice[a].lockedBy = "nobody"
      /\ dispute' = [dispute EXCEPT ![x] = row]
      /\ Move(w, "idle")
  BY <1>1 DEF StoreDispute, In, calendar, counts, Books, DoingAs
<1>3. row.about = a
  OBVIOUS
<1> HIDE DEF x, row
<1>4. ASSUME NEW i \in Invoices PROVE Billed(i)'
  <2>1. Billed(i)
    BY DEF Books
  <2>2. Rows' = Rows /\ Peak' = Peak
    BY <1>2 DEF Rows, Peak
  <2>3. CASE i = a
    BY <1>2, <2>1, <2>2, <2>3 DEF Billed
  <2>4. CASE i # a
    <3>1. ~Disputed(i) => ~Disputed(i)'
      BY <1>2, <1>3, <2>4 DEF Disputed, BillingTypes
    <3>2. QED
      BY <1>2, <2>1, <2>2, <3>1 DEF Billed
  <2>5. QED
    BY <2>3, <2>4
<1>5. DoingAs("idle", NoTask)'
  BY DEF DoingAs
<1>6. QED
  BY <1>2, <1>4, <1>5, MoveForm, BooksByWork

LEMMA ResolveBooks ==
    ASSUME BillingTypes, mode = "serial", Books, scope = "billing", NEW x \in Disputes,
           Resolve(x)
    PROVE  Books'
<1>1. /\ UNCHANGED <<vars, scope, snapshot, locked, touched, invoice, lockJob, place, task>>
      /\ AllIdle /\ dispute' = [dispute EXCEPT ![x] = [@ EXCEPT !.status = "RESOLVED"]]
  BY OpenIdle DEF Resolve, calendar, counts
<1>2. ASSUME NEW i \in Invoices PROVE Billed(i)'
  <2>1. Billed(i)
    BY DEF Books
  <2>2. Rows' = Rows /\ Peak' = Peak
    BY <1>1 DEF Rows, Peak
  <2>3. dispute'[x].status = "RESOLVED" /\ \A y \in Disputes : y # x => dispute'[y] = dispute[y]
    BY <1>1 DEF BillingTypes
  <2>4. ~Disputed(i) => ~Disputed(i)'
    BY <2>3 DEF Disputed, Active
  <2>5. QED
    BY <1>1, <2>1, <2>2, <2>4 DEF Billed
<1>3. QED
  BY <1>1, <1>2, BooksByHand

LEMMA BillBooks ==
    ASSUME BillingTypes, mode = "serial", Books, scope = "billing", Bill
    PROVE  Books'
<1>1. CASE NextDay
  <2>1. Kept /\ UNCHANGED <<vars, scope, place, task>>
    BY <1>1 DEF NextDay, Kept, counts, vars, people
  <2>2. \A i \in Invoices : Billed(i)'
    BY <2>1, KeptBooks DEF Books
  <2>3. QED
    BY <2>1, <2>2, BooksByHand
<1>2. ASSUME NEW w \in Workers, Work(w) PROVE Books'
  BY <1>2, CountBooks, StoreBooks, WriteAmendedBooks, ReadRowsBooks, StoreInvoiceBooks,
     ScheduleBooks, CheckDisputesBooks, LockBooks, StoreDisputeBooks, Zenon DEF Work
<1>3. ASSUME NEW w \in Workers PROVE ~Crash(w)
  BY DEF Crash
<1>4. ASSUME NEW from \in Days, NEW to \in Days, LockDays(from, to) \/ UnlockDays(from, to)
      PROVE  Books'
  BY <1>4, DaysBooks
<1>5. ASSUME NEW i \in Invoices, Finalize(i) PROVE Books'
  BY <1>5, FinalizeBooks
<1>6. ASSUME NEW x \in Disputes, Resolve(x) PROVE Books'
  BY <1>6, ResolveBooks
<1>7. ASSUME NEW w \in Workers, TakeSnapshot(w) PROVE Books'
  BY <1>7, TakeSnapshotBooks
<1>8. ASSUME NEW w \in Workers, NEW d \in Days, NEW n \in 0..Cardinality(Students), Amend(w, d, n)
      PROVE  Books'
  BY <1>8, AmendBooks
<1>9. ASSUME NEW w \in Workers, NEW i \in Invoices, LockJob(w, i) PROVE Books'
  BY <1>9, LockJobBooks
<1>10. ASSUME NEW w \in Workers, NEW i \in Invoices, NEW retro \in BOOLEAN, Draft(w, i, retro)
       PROVE  Books'
  BY <1>10, DraftBooks
<1>11. ASSUME NEW w \in Workers, NEW i \in Invoices, NEW x \in Disputes,
              NEW S \in SUBSET Students, Raise(w, x, i, S)
       PROVE  Books'
  BY <1>11, RaiseBooks
<1>12. QED
  BY <1>1, <1>2, <1>3, <1>4, <1>5, <1>6, <1>7, <1>8, <1>9, <1>10, <1>11, Zenon DEF Bill

\* A student changes only while no call of the billing is at work.
LEMMA HeadcountBooks ==
    ASSUME AllStatus, BillingTypes, mode = "serial", Books, scope = "billing", Headcount,
           UNCHANGED billingVars, Open' <= 1
    PROVE  Books'
<1>1. /\ scope' = scope /\ UNCHANGED <<snapshot, locked, touched, invoice, lockJob, dispute>>
      /\ place' = place /\ task' = task
  BY DEF billingVars, calendar, counts
<1>2. mode' = mode
  <2>1. ASSUME NEW s \in Students, Admit(s) \/ SoftDelete(s) PROVE mode' = mode
    BY <2>1 DEF Admit, SoftDelete
  <2>2. ASSUME NEW h \in Handlers, ChangeStep(h) PROVE mode' = mode
    BY <2>2 DEF ChangeStep, ReadStatus, WriteStatus
  <2>3. ASSUME NEW h \in Handlers, NEW s \in Students, NEW to \in {"ACTIVE", "INACTIVE"},
               Patch(h, s, to)
        PROVE  mode' = mode
    BY <2>3 DEF Patch, Start
  <2>4. QED
    BY <2>1, <2>2, <2>3, Zenon DEF Headcount
<1>3. Alone'
  <2>1. Cardinality({h \in Handlers : pc'[h] # "idle"})
           + Cardinality({w \in Workers : place'[w] # "idle"}) <= 1
    BY DEF Open
  <2>2. /\ \A v, w \in Workers : place'[v] # "idle" /\ place'[w] # "idle" => v = w
        /\ \A h \in Handlers, w \in Workers : pc'[h] = "idle" \/ place'[w] = "idle"
    BY <2>1, FewOpen
  <2>3. QED
    BY <1>1, <2>2 DEF Alone
<1>4. \A i \in Invoices : Billed(i)'
  BY <1>1 DEF Books, Billed, Rows, Peak, Disputed
<1>5. ASSUME NEW w \in Workers PROVE DoingAs(place[w], task[w])'
  <2>1. CASE place[w] = "idle"
    BY <1>1, <2>1 DEF DoingAs
  <2>2. CASE place[w] # "idle"
    <3>1. \A h \in Handlers : pc[h] = "idle"
      BY <2>2 DEF Books, Alone
    <3>2. ~AllIdle
      BY <2>2 DEF AllIdle
    <3>3. status' = status /\ removed' = removed
      <4>1. ~Quiet
        BY <3>2, OpenIdle
      <4>2. ASSUME NEW h \in Handlers PROVE ~ChangeStep(h)
        BY <3>1 DEF ChangeStep, ReadStatus, WriteStatus, At
      <4>3. ASSUME NEW h \in Handlers, NEW s \in Students, NEW to \in {"ACTIVE", "INACTIVE"},
                   Patch(h, s, to)
            PROVE  status' = status /\ removed' = removed
        BY <4>3 DEF Patch, Start, people
      <4>4. QED
        BY <4>1, <4>2, <4>3, Zenon DEF Headcount
    <3>4. Kept
      BY <1>1, <3>3 DEF Kept
    <3>5. PICK p, t : p = place[w] /\ t = task[w]
      OBVIOUS
    <3>6. DoingAs(p, t)
      BY <3>5 DEF Books
    <3>7. DoingAs(p, t)'
      BY <3>4, <3>6, KeptBooks
    <3>8. QED
      BY <1>1, <3>5, <3>7
  <2>3. QED
    BY <2>1, <2>2
<1>6. QED
  BY <1>3, <1>4, <1>5 DEF Books

\* Where the students are followed in full nothing of the billing moves.
LEMMA StudentsBooks ==
    ASSUME BillingTypes, mode = "serial", Books, scope = "students", UNCHANGED billingVars
    PROVE  Books'
<1>1. /\ scope' = scope /\ UNCHANGED <<snapshot, locked, touched, invoice, lockJob, dispute>>
      /\ place' = place /\ task' = task
  BY DEF billingVars, calendar, counts
<1>2. \A w \in Workers : place[w] = "idle" /\ place'[w] = "idle"
  BY <1>1 DEF Books, Alone
<1>3. Alone'
  BY <1>1, <1>2 DEF Alone
<1>4. \A w \in Workers : DoingAs(place[w], task[w])'
  BY <1>2 DEF DoingAs
<1>5. \A i \in Invoices : Billed(i)'
  BY <1>1 DEF Books, Billed, Rows, Peak, Disputed
<1>6. QED
  BY <1>3, <1>4, <1>5 DEF Books

AllBilling == AllStatus /\ BillingTypes /\ Books

LEMMA BillingStart == BillingInit => AllBilling
<1> SUFFICES ASSUME BillingInit PROVE AllBilling
  OBVIOUS
<1>1. AllStatus
  BY StatusStart DEF BillingInit
<1>2. BillingTypes
  <2>1. 1 \in Days
    BY BillingAssumption DEF Days
  <2>2. NoInvoice \in InvoiceRows
    BY DEF NoInvoice, InvoiceRows
  <2>3. invoice \in [Invoices -> InvoiceRows]
    BY <2>2 DEF BillingInit
  <2>4. dispute \in [Disputes -> [about : Abouts, status : DisputeStatuses]]
    <3>1. \A x \in Disputes : NoDispute \in [about : Abouts, status : DisputeStatuses]
      BY DEF NoDispute, Abouts, NoTask, DisputeStatuses
    <3>2. QED
      BY <3>1 DEF BillingInit
  <2>5. place \in [Workers -> BillingPlaces] /\ task \in [Workers -> Tasks]
    BY NoTaskType DEF BillingInit, BillingPlaces
  <2>6. QED
    BY <2>1, <2>3, <2>4, <2>5 DEF BillingInit, BillingTypes
<1>3. Books
  <2>1. \A w \in Workers : place[w] = "idle"
    BY DEF BillingInit
  <2>2. \A i \in Invoices : invoice[i] = NoInvoice /\ lockJob[i].state = "none"
    BY DEF BillingInit
  <2>3. QED
    BY <2>1, <2>2 DEF Books, Alone, DoingAs, Billed, NoInvoice
<1>4. QED
  BY <1>1, <1>2, <1>3 DEF AllBilling

LEMMA BillingKept == AllBilling /\ [BillingNext]_<<vars, billingVars>> => AllBilling'
<1> SUFFICES ASSUME AllBilling, [BillingNext]_<<vars, billingVars>> PROVE AllBilling'
  OBVIOUS
<1>1. AllStatus /\ BillingTypes /\ Books
  BY DEF AllBilling
<1>2. AllStatus'
  BY <1>1, StudentsAlone, StatusKept
<1>3. CASE UNCHANGED billingVars
  <2>1. BillingTypes'
    BY <1>1, <1>3 DEF BillingTypes, billingVars, calendar, counts, Rows
  <2>2. mode' = mode
    <3>1. StatusInv /\ [Next]_vars
      BY <1>1, StudentsAlone DEF AllStatus
    <3>2. QED
      BY <3>1, StatusStep DEF Aside, Does
  <2>3. ASSUME mode = "serial" PROVE Books'
    <3>1. CASE UNCHANGED vars
      <4>1. Kept /\ UNCHANGED <<vars, scope, place, task>>
        BY <1>3, <3>1 DEF Kept, vars, people, billingVars, calendar, counts
      <4>2. \A i \in Invoices : Billed(i)'
        BY <1>1, <2>3, <4>1, KeptBooks DEF Books
      <4>3. QED
        BY <1>1, <2>3, <4>1, <4>2, BooksByHand
    <3>2. CASE scope = "students"
      BY <1>1, <1>3, <2>3, <3>2, StudentsBooks
    <3>3. CASE scope = "billing" /\ Headcount /\ Open' <= 1
      BY <1>1, <1>3, <2>3, <3>3, HeadcountBooks
    <3>4. CASE scope = "billing" /\ Bill
      BY <1>1, <2>3, <3>4, BillBooks
    <3>5. QED
      BY <2>3, <3>1, <3>2, <3>3, <3>4 DEF BillingNext
  <2>4. Books'
    BY <2>2, <2>3 DEF Books
  <2>5. QED
    BY <1>2, <2>1, <2>4 DEF AllBilling
<1>4. CASE scope = "billing" /\ Bill
  <2>1. BillingTypes'
    BY <1>1, <1>4, BillTypes
  <2>2. mode' = mode
    <3>1. StatusInv /\ [Next]_vars
      BY <1>1, StudentsAlone DEF AllStatus
    <3>2. QED
      BY <3>1, StatusStep DEF Aside, Does
  <2>3. mode = "serial" => Books'
    BY <1>1, <1>4, BillBooks
  <2>4. Books'
    BY <2>2, <2>3 DEF Books
  <2>5. QED
    BY <1>2, <2>1, <2>4 DEF AllBilling
<1>5. QED
  BY <1>3, <1>4 DEF BillingNext

\* What holds of the students and the billing in every reachable state.
THEOREM BillingHolds == BillingSpec => []AllBilling
BY BillingStart, BillingKept, PTL DEF BillingSpec

\* When calls do not overlap, an invoice that the job locked bills the highest count of its month
\* for good (computeMonthlyBillable, lockInvoiceAfterDisputeWindow), unless a count was taken or
\* amended before the lock, taken after it, or the snapshots were unlocked again.
THEOREM PeakIsBilled == BillingSpec => []LockedBillsPeak
<1>1. ASSUME AllBilling PROVE LockedBillsPeak
  <2>1. Books
    BY <1>1 DEF AllBilling
  <2>2. QED
    BY <2>1 DEF Books, Billed, LockedBillsPeak, Peak
<1>2. AllBilling => LockedBillsPeak
  BY <1>1
<1>3. QED
  BY <1>2, BillingHolds, PTL

\* When calls do not overlap, nobody disputes an invoice that the job has locked: it waits for the
\* verdict, and no dispute is raised afterwards.
THEOREM LockWaitsForVerdict == BillingSpec => []LockedUndisputed
<1>1. ASSUME AllBilling PROVE LockedUndisputed
  <2>1. Books
    BY <1>1 DEF AllBilling
  <2>2. QED
    BY <2>1 DEF Books, Billed, LockedUndisputed, Disputed, Active
<1>2. AllBilling => LockedUndisputed
  BY <1>1
<1>3. QED
  BY <1>2, BillingHolds, PTL

\* The students who are counted are those whose log adds up to one.
LEMMA BillableIsSum ==
    ASSUME AllStatus, mode = "serial"
    PROVE  Cardinality(Billable)
              = SumFunctionOnSet([s \in Students |-> 1 + Gained(s)], {s \in Students : Present(s)})
<1> DEFINE f == [s \in Students |-> 1 + Gained(s)]
           S == {s \in Students : Present(s)}
<1>1. IsFiniteSet(S)
  BY StudentAssumption, FS_Subset
<1>2. \A s \in S : f[s] = IF status[s] = "ACTIVE" THEN 1 ELSE 0
  <2>1. SUFFICES ASSUME NEW s \in S PROVE f[s] = IF status[s] = "ACTIVE" THEN 1 ELSE 0
    OBVIOUS
  <2>2. s \in Students /\ status[s] # "ABSENT" /\ Story(s)
    BY DEF Present, AllStatus, Stories
  <2>3. QED
    BY <2>2 DEF Story
<1>3. {s \in S : status[s] = "ACTIVE"} = Billable
  BY DEF Billable, Present
<1> HIDE DEF f
<1>4. {s \in S : f[s] = 1} = {s \in S : status[s] = "ACTIVE"}
  BY <1>2
<1>5. \A s \in S : f[s] \in {0, 1}
  BY <1>2
<1> HIDE DEF S
<1>6. SumFunctionOnSet(f, S) = Cardinality({s \in S : f[s] = 1})
  BY <1>1, <1>5, SumCounts
<1>7. QED
  BY <1>3, <1>4, <1>6 DEF f, S

\* When calls do not overlap, the snapshot of a day counts the students admitted and not removed,
\* and what their logged changes gained and lost (computeDailySnapshot).
THEOREM SnapshotsReconcile == BillingSpec => SnapshotReconciles
<1> DEFINE Right == \A d \in Days : mode = "serial" /\ snapshot[d] = None /\ snapshot'[d] # None =>
                      snapshot'[d] = SumFunctionOnSet([s \in Students |-> 1 + Gained(s)],
                                                      {s \in Students : Present(s)})
<1>1. ASSUME AllBilling, [BillingNext]_<<vars, billingVars>>
      PROVE  [Right]_<<vars, billingVars>>
  <2>1. SUFFICES ASSUME NEW d \in Days, mode = "serial", snapshot[d] = None, snapshot'[d] # None
                 PROVE  snapshot'[d] = SumFunctionOnSet([s \in Students |-> 1 + Gained(s)],
                                                        {s \in Students : Present(s)})
    OBVIOUS
  <2>2. AllStatus /\ BillingTypes /\ Books
    BY <1>1 DEF AllBilling
  <2>3. snapshot' # snapshot
    BY <2>1
  <2>4. Bill
    BY <1>1, <2>3 DEF BillingNext, billingVars, counts
  <2>5. \E w \in Workers : Store(w) \/ WriteAmended(w)
    BY <2>3, <2>4, Zenon DEF Bill, NextDay, LockDays, UnlockDays, Finalize, Resolve, TakeSnapshot,
       Work, Crash, Amend, LockJob, Draft, Raise, Count, ReadRows, StoreInvoice, Schedule,
       CheckDisputes, Lock, StoreDispute, counts
  <2>6. ASSUME NEW w \in Workers, WriteAmended(w) PROVE FALSE
    <3>1. task[w].day \in Rows
      BY <2>1, <2>2, <2>6 DEF WriteAmended, In, Books, DoingAs
    <3>2. task[w].day # d
      BY <2>1, <3>1 DEF Rows
    <3>3. QED
      BY <2>1, <2>2, <2>6, <3>2 DEF WriteAmended, BillingTypes
  <2>7. ASSUME NEW w \in Workers, Store(w)
        PROVE  snapshot'[d] = Cardinality(Billable)
    <3>1. task[w].count = Cardinality(Billable)
      BY <2>1, <2>2, <2>7 DEF Store, In, Books, DoingAs
    <3>2. snapshot' = [snapshot EXCEPT ![task[w].day] = task[w].count]
      BY <2>3, <2>7 DEF Store
    <3>3. QED
      BY <2>1, <2>2, <3>1, <3>2 DEF BillingTypes
  <2>8. QED
    BY <2>1, <2>2, <2>5, <2>6, <2>7, BillableIsSum
<1>2. AllBilling /\ [BillingNext]_<<vars, billingVars>> => [Right]_<<vars, billingVars>>
  BY <1>1
<1>3. BillingSpec => [][Right]_<<vars, billingVars>>
  BY <1>2, BillingHolds, PTL DEF BillingSpec
<1>4. QED
  BY <1>3 DEF SnapshotReconciles
=============================================================================
