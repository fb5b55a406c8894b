--------------------------- MODULE EnrollmentProofs --------------------------
(***************************************************************************)
(* Proofs about Gradebook: registration, the attempts at a quiz and the    *)
(* grade of an enrollment, for any number of students, sections, seats,    *)
(* attempts, scores, override requests and overlapping calls, deaths       *)
(* included.                                                               *)
(***************************************************************************)
EXTENDS Gradebook, SumTheorems, SequenceTheorems, TLAPS

-----------------------------------------------------------------------------
(* Registration, whoever asks for what. *)

Called(h) ==
    \E s \in Students, x \in Sections :
        \/ \E w \in BOOLEAN : Enroll(h, s, x, w)
        \/ Drop(h, s, x)
        \/ JoinWaitlist(h, s, x)

Registers ==
    \/ \E h \in Handlers : Called(h) \/ Step(h) \/ Die(h)
    \/ Statement

\* Registration on its own, and beside attempts and grades, takes no other step.
LEMMA RegistersInNext == [Next]_vars => [Registers]_vars
<1>1. ASSUME NEW h \in Handlers, Start(h) PROVE Called(h)
  BY <1>1 DEF Start, Called
<1>2. QED
  BY <1>1 DEF Next, Registers

LEMMA RegistersInGradebook ==
    [GradebookNext]_<<vars, gradebookVars>> => [Registers]_vars
<1>1. SUFFICES ASSUME GradebookNext PROVE [Registers]_vars
  BY DEF vars
<1>2. ASSUME NEW h \in Handlers, TakerStep(h) PROVE Registers
  <2>1. Taker[1] \in Students /\ Taker[2] \in Sections
    BY AssessmentsAssumption DEF Seats
  <2>2. Step(h) \/ Die(h) \/ Called(h)
    BY <1>2, <2>1 DEF TakerStep, Called
  <2>3. QED
    BY <2>2 DEF Registers
<1>3. QED
  BY <1>1, <1>2, RegistersInNext DEF GradebookNext

Places == {"idle", "check", "count", "recount", "create", "revive", "drop", "promote", "mark",
           "join", "queue"}

\* The tables and the handlers keep their types.  An idle handler promotes nobody, the
\* one that marks an entry does and has enrolled its student.
TablesOK ==
    /\ mode \in {"serial", "overlap"}
    /\ row \in [Seats -> {"none", "ENROLLED", "DROPPED"}]
    /\ entry \in [Seats -> {"none", "WAITING", "PROMOTED", "REMOVED"}]
    /\ position \in [Seats -> Nat]
    /\ \A c \in Seats : position[c] > 0 <=> entry[c] = "WAITING"
    /\ standing \in [Students -> {"clear", "held", "inactive"}]

Told(h) ==
    /\ pc[h] = "idle" => ~call[h].promoting
    /\ pc[h] = "mark" => call[h].promoting /\ row[Seat(h)] # "none"
    /\ pc[h] = "queue" => call[h].rank > 0

HandlersOK ==
    /\ pc \in [Handlers -> Places]
    /\ call \in [Handlers -> Calls]
    /\ \A h \in Handlers : Told(h)

Registered == TablesOK /\ HandlersOK

LEMMA NoCallType == NoCall \in Calls /\ ~NoCall.promoting
<1>1. (CHOOSE s \in Students : TRUE) \in Students
  BY EnrollmentAssumption
<1>2. (CHOOSE x \in Sections : TRUE) \in Sections
  BY EnrollmentAssumption
<1>3. QED
  BY <1>1, <1>2 DEF NoCall, Calls

LEMMA SeatType ==
    ASSUME HandlersOK, NEW h \in Handlers
    PROVE  /\ call[h].student \in Students /\ call[h].section \in Sections
           /\ Seat(h) \in Seats /\ Seat(h) = <<call[h].student, call[h].section>>
BY DEF HandlersOK, Calls, Seat, Seats

LEMMA SeatsType ==
    ASSUME NEW s \in Students, NEW x \in Sections
    PROVE  <<s, x>> \in Seats
BY DEF Seats

\* A new position is above every position taken.
LEMMA NextPositionType ==
    ASSUME TablesOK, NEW x \in Sections
    PROVE  /\ NextPosition(x) \in Nat /\ NextPosition(x) > 0
           /\ \A s \in Waiting(x) : position[<<s, x>>] < NextPosition(x)
<1> DEFINE T == {position[<<s, x>>] : s \in Waiting(x)} \cup {0}
           f == [s \in Waiting(x) |-> position[<<s, x>>]]
<1>1. \A s \in Waiting(x) : <<s, x>> \in Seats
  BY SeatsType DEF Waiting
<1>2. \A s \in Waiting(x) : position[<<s, x>>] \in Nat
  BY <1>1 DEF TablesOK
<1>3. 0 \in T /\ \A s \in Waiting(x) : position[<<s, x>>] \in T
  OBVIOUS
<1>4. \A y \in T : y = 0 \/ \E s \in Waiting(x) : y = position[<<s, x>>]
  OBVIOUS
<1>5. NextPosition(x) = 1 + Max(T)
  BY DEF NextPosition
<1> HIDE DEF T
<1>6. \E m \in T : m \in Nat /\ \A y \in T : m >= y
  <2>1. CASE Waiting(x) = {}
    BY <1>3, <1>4, <2>1
  <2>2. CASE Waiting(x) # {}
    <3>1. IsFiniteSet(Waiting(x))
      BY EnrollmentAssumption, FS_Subset DEF Waiting
    <3>2. \A s \in Waiting(x) : f[s] \in Nat /\ f[s] = position[<<s, x>>]
      BY <1>2
    <3> HIDE DEF f
    <3>3. PICK m \in Waiting(x) : \A y \in Waiting(x) : f[y] <= f[m]
      BY <2>2, <3>1, <3>2, Greatest
    <3>4. ASSUME NEW y \in T PROVE f[m] >= y
      <4>1. f[m] \in Nat
        BY <3>2
      <4>2. ASSUME NEW s \in Waiting(x), y = position[<<s, x>>] PROVE f[m] >= y
        <5>1. f[s] \in Nat /\ f[s] = y /\ f[s] <= f[m]
          BY <3>2, <3>3, <4>2
        <5>2. QED
          BY <4>1, <5>1
      <4>3. CASE y = 0
        BY <4>1, <4>3
      <4>4. QED
        BY <1>4, <4>2, <4>3
    <3>5. f[m] \in T /\ f[m] \in Nat
      BY <1>3, <3>2
    <3>6. QED
      BY <3>4, <3>5
  <2>3. QED
    BY <2>1, <2>2
<1>7. Max(T) \in T /\ \A y \in T : Max(T) >= y
  BY <1>6 DEF Max
<1>8. Max(T) \in Nat
  <2>1. CASE Max(T) = 0
    BY <2>1
  <2>2. ASSUME NEW s \in Waiting(x), Max(T) = position[<<s, x>>] PROVE Max(T) \in Nat
    BY <1>2, <2>2
  <2>3. QED
    BY <1>4, <1>7, <2>1, <2>2
<1>9. ASSUME NEW s \in Waiting(x) PROVE position[<<s, x>>] < NextPosition(x)
  <2>1. position[<<s, x>>] \in Nat /\ position[<<s, x>>] \in T
    BY <1>2, <1>3
  <2>2. Max(T) >= position[<<s, x>>]
    BY <1>7, <2>1
  <2>3. QED
    BY <1>5, <1>8, <2>1, <2>2
<1>10. QED
  BY <1>5, <1>8, <1>9

\* Handler h goes on to place, the others stay where they are.
Moves(h, place) ==
    /\ pc' \in [Handlers -> Places] /\ call' \in [Handlers -> Calls]
    /\ pc'[h] = place
    /\ \A g \in Handlers \ {h} : pc'[g] = pc[g] /\ call'[g] = call[g]

LEMMA GotoMoves ==
    ASSUME HandlersOK, NEW h \in Handlers, NEW place \in Places, Goto(h, place)
    PROVE  /\ Moves(h, place)
           /\ call'[h] = IF place = "idle" THEN NoCall ELSE call[h]
BY NoCallType DEF HandlersOK, Goto, Moves

LEMMA RequestMoves ==
    ASSUME HandlersOK, NEW h \in Handlers, NEW s \in Students, NEW x \in Sections,
           NEW w \in BOOLEAN, NEW place \in Places, Request(h, s, x, w, place)
    PROVE  /\ Moves(h, place) /\ pc[h] = "idle"
           /\ call'[h].student = s /\ call'[h].section = x /\ ~call'[h].promoting
<1> DEFINE c == [call[h] EXCEPT !.student = s, !.section = x, !.waitlistIfFull = w]
<1>1. c \in Calls /\ c.student = s /\ c.section = x /\ c.promoting = call[h].promoting
  BY DEF HandlersOK, Calls
<1>2. call' = [call EXCEPT ![h] = c] /\ pc' = [pc EXCEPT ![h] = place] /\ pc[h] = "idle"
  BY DEF Request
<1> HIDE DEF c
<1>3. ~call[h].promoting
  BY <1>2 DEF HandlersOK, Told
<1>4. QED
  BY <1>1, <1>2, <1>3 DEF HandlersOK, Moves

LEMMA RankedMoves ==
    ASSUME Registered, NEW h \in Handlers, NEW s \in Students, NEW x \in Sections, Ranked(h, s, x)
    PROVE  /\ Moves(h, "queue")
           /\ call'[h].student = s /\ call'[h].section = x /\ call'[h].rank = NextPosition(x)
           /\ call'[h].rank > 0
<1> DEFINE r == NextPosition(x)
           c == [call[h] EXCEPT !.student = s, !.section = x, !.rank = r]
<1>1. r \in Nat /\ r > 0
  BY NextPositionType DEF Registered
<1>2. call' = [call EXCEPT ![h] = c] /\ pc' = [pc EXCEPT ![h] = "queue"]
  BY DEF Ranked
<1> HIDE DEF r
<1>3. c \in Calls /\ c.student = s /\ c.section = x /\ c.rank = r
  BY <1>1 DEF Registered, HandlersOK, Calls
<1> HIDE DEF c
<1>4. QED
  BY <1>1, <1>2, <1>3 DEF Registered, HandlersOK, Moves, Places, r

\* The student who waits longest where the handler has a seat to give.
Gives(h, s) ==
    /\ HasRoom(call[h].section) /\ s \in FirstWaiting(call[h].section)
    /\ call' = [call EXCEPT ![h] = [@ EXCEPT !.student = s, !.promoting = TRUE]]
    /\ pc' = [pc EXCEPT ![h] = "check"]

LEMMA GivesMoves ==
    ASSUME HandlersOK, NEW h \in Handlers, NEW s, Gives(h, s)
    PROVE  /\ Moves(h, "check") /\ s \in Students
           /\ call'[h].student = s /\ call'[h].section = call[h].section
<1> DEFINE c == [call[h] EXCEPT !.student = s, !.promoting = TRUE]
<1>1. s \in Students
  BY DEF Gives, FirstWaiting, Waiting
<1>2. c \in Calls /\ c.student = s /\ c.section = call[h].section
  BY <1>1 DEF HandlersOK, Calls
<1>3. call' = [call EXCEPT ![h] = c] /\ pc' = [pc EXCEPT ![h] = "check"]
  BY DEF Gives
<1> HIDE DEF c
<1>4. QED
  BY <1>1, <1>2, <1>3 DEF HandlersOK, Moves, Places

LEMMA RegisteredInit == Init => Registered
<1>1. SUFFICES ASSUME Init PROVE Registered
  OBVIOUS
<1>2. TablesOK
  BY <1>1 DEF Init, TablesOK
<1>3. HandlersOK
  BY <1>1, NoCallType DEF Init, HandlersOK, Told, Places
<1>4. QED
  BY <1>2, <1>3 DEF Registered

\* No row disappears.
RowsStay == \A c \in Seats : row[c] # "none" => row'[c] # "none"

\* Handlers whose rows stay tell what they told; so it is enough to look at one.
LEMMA HandlersKept ==
    ASSUME HandlersOK, NEW h \in Handlers, NEW place, Moves(h, place), RowsStay, Told(h)'
    PROVE  HandlersOK'
<1>1. ASSUME NEW g \in Handlers \ {h} PROVE Told(g)'
  <2>1. Told(g) /\ pc'[g] = pc[g] /\ call'[g] = call[g] /\ Seat(g)' = Seat(g) /\ Seat(g) \in Seats
    BY SeatType DEF HandlersOK, Moves, Seat
  <2>2. QED
    BY <2>1 DEF Told, RowsStay
<1>2. QED
  BY <1>1 DEF HandlersOK, Moves

sameTables == UNCHANGED <<mode, row, entry, position, standing>>

LEMMA RegisteredStep == Registered /\ [Registers]_vars => Registered'
<1>1. SUFFICES ASSUME Registered, [Registers]_vars PROVE Registered'
  OBVIOUS
<1>2. TablesOK /\ HandlersOK
  BY <1>1 DEF Registered
<1>3. ASSUME NEW h \in Handlers, NEW place, Moves(h, place), sameTables, Told(h)'
      PROVE  Registered'
  <2>1. TablesOK' /\ RowsStay
    BY <1>2, <1>3 DEF sameTables, TablesOK, RowsStay
  <2>2. QED
    BY <1>2, <1>3, <2>1, HandlersKept DEF Registered
<1>4. ASSUME NEW h \in Handlers, NEW s \in Students, NEW x \in Sections, NEW w \in BOOLEAN,
             Enroll(h, s, x, w)
      PROVE  Registered'
  <2>1. Request(h, s, x, w, "count") /\ sameTables /\ "count" \in Places
    BY <1>4 DEF Enroll, sameTables, tables, Places
  <2>2. Moves(h, "count")
    BY <1>2, <2>1, RequestMoves
  <2>3. QED
    BY <1>3, <2>1, <2>2 DEF Told, Moves
<1>5. ASSUME NEW h \in Handlers, NEW s \in Students, NEW x \in Sections, Drop(h, s, x)
      PROVE  Registered'
  <2>1. Request(h, s, x, FALSE, "drop") /\ sameTables /\ "drop" \in Places
    BY <1>5 DEF Drop, sameTables, tables, Places
  <2>2. Moves(h, "drop")
    BY <1>2, <2>1, RequestMoves
  <2>3. QED
    BY <1>3, <2>1, <2>2 DEF Told, Moves
<1>6. ASSUME NEW h \in Handlers, NEW s \in Students, NEW x \in Sections, Ranked(h, s, x)
      PROVE  Registered'
  <2>1. Moves(h, "queue") /\ call'[h].rank > 0 /\ sameTables
    BY <1>1, <1>6, RankedMoves DEF Ranked, sameTables, tables
  <2>2. QED
    BY <1>3, <2>1 DEF Told, Moves
<1>7. ASSUME NEW h \in Handlers, NEW place \in Places \ {"mark", "queue"}, Goto(h, place), sameTables
      PROVE  Registered'
  <2>1. Moves(h, place) /\ (place = "idle" => call'[h] = NoCall)
    BY <1>2, <1>7, GotoMoves
  <2>2. QED
    BY <1>3, <1>7, <2>1, NoCallType DEF Told, Moves
<1>8. ASSUME NEW h \in Handlers, Count(h) \/ Recount(h) \/ Check(h) \/ Die(h)
      PROVE  Registered'
  <2>1. \E place \in Places \ {"mark", "queue"} : Goto(h, place)
    <3>1. CASE Count(h)
      BY <3>1, Zenon DEF Count, Refused, Places
    <3>2. QED
      BY <1>8, <3>1 DEF Recount, Check, Die, Refused, Places
  <2>2. sameTables
    BY <1>8 DEF Count, Recount, Check, Die, sameTables, tables
  <2>3. QED
    BY <1>7, <2>1, <2>2
<1>9. ASSUME NEW h \in Handlers, Enrolls(h)
      PROVE  Registered'
  <2>1. Seat(h) \in Seats
    BY <1>2, SeatType
  <2>2. TablesOK' /\ RowsStay /\ row'[Seat(h)] = "ENROLLED"
    BY <1>2, <1>9, <2>1 DEF Enrolls, TablesOK, RowsStay
  <2>3. CASE call[h].promoting
    <3>1. Goto(h, "mark") /\ "mark" \in Places
      BY <1>9, <2>3 DEF Enrolls, Places
    <3>2. Moves(h, "mark") /\ call'[h] = call[h]
      BY <1>2, <3>1, GotoMoves
    <3>3. Told(h)'
      BY <2>2, <2>3, <3>2 DEF Told, Moves, Seat
    <3>4. QED
      BY <1>2, <2>2, <3>2, <3>3, HandlersKept DEF Registered
  <2>4. CASE ~call[h].promoting
    <3>1. Goto(h, "idle") /\ "idle" \in Places
      BY <1>9, <2>4 DEF Enrolls, Places
    <3>2. Moves(h, "idle") /\ call'[h] = NoCall
      BY <1>2, <3>1, GotoMoves
    <3>3. Told(h)'
      BY <3>2, NoCallType DEF Told, Moves
    <3>4. QED
      BY <1>2, <2>2, <3>2, <3>3, HandlersKept DEF Registered
  <2>5. QED
    BY <2>3, <2>4
<1>10. ASSUME NEW h \in Handlers, Create(h) \/ Revive(h)
       PROVE  Registered'
  <2>1. "idle" \in Places \ {"mark", "queue"}
    BY DEF Places
  <2>2. QED
    BY <1>7, <1>9, <1>10, <2>1 DEF Create, Revive, Refused, sameTables, tables
\* The handler goes on elsewhere, and no row disappears.
<1>11. ASSUME NEW h \in Handlers, NEW place \in Places \ {"mark", "queue"}, Goto(h, place),
              TablesOK', RowsStay
       PROVE  Registered'
  <2>1. Moves(h, place) /\ (place = "idle" => call'[h] = NoCall)
    BY <1>2, <1>11, GotoMoves
  <2>2. Told(h)'
    BY <1>11, <2>1, NoCallType DEF Told, Moves
  <2>3. QED
    BY <1>2, <1>11, <2>1, <2>2, HandlersKept DEF Registered
<1>12. ASSUME NEW h \in Handlers, SoftDrop(h)
       PROVE  Registered'
  <2>1. Seat(h) \in Seats
    BY <1>2, SeatType
  <2>2. TablesOK' /\ RowsStay
    BY <1>2, <1>12, <2>1 DEF SoftDrop, TablesOK, RowsStay
  <2>3. \E place \in Places \ {"mark", "queue"} : Goto(h, place)
    BY <1>12 DEF SoftDrop, Places
  <2>4. QED
    BY <1>11, <2>2, <2>3
<1>13. ASSUME NEW h \in Handlers, Mark(h)
       PROVE  Registered'
  <2>1. Seat(h) \in Seats
    BY <1>2, SeatType
  <2>2. TablesOK' /\ RowsStay
    BY <1>2, <1>13, <2>1 DEF Mark, EntryEnds, TablesOK, RowsStay
  <2>3. Goto(h, "idle") /\ "idle" \in Places
    BY <1>13 DEF Mark, Places
  <2>4. QED
    BY <1>11, <2>2, <2>3
<1>14. ASSUME NEW h \in Handlers, Queue(h)
       PROVE  Registered'
  <2>1. Seat(h) \in Seats /\ call[h].rank \in Nat /\ call[h].rank > 0
    BY <1>2, <1>14, SeatType DEF HandlersOK, Told, Calls, Queue, At
  <2>2. TablesOK' /\ RowsStay
    BY <1>2, <1>14, <2>1 DEF Queue, TablesOK, RowsStay
  <2>3. Goto(h, "idle") /\ "idle" \in Places
    BY <1>14 DEF Queue, Places
  <2>4. QED
    BY <1>11, <2>2, <2>3
<1>15. ASSUME NEW h \in Handlers, Promote(h)
       PROVE  Registered'
  <2>1. sameTables
    BY <1>15 DEF Promote, sameTables, tables
  <2>2. ASSUME NEW s, Gives(h, s) PROVE Registered'
    BY <1>2, <1>3, <2>1, <2>2, GivesMoves DEF Told, Moves
  <2>3. CASE Goto(h, "idle")
    BY <1>7, <2>1, <2>3 DEF Places
  <2>4. QED
    BY <1>15, <2>2, <2>3, Zenon DEF Promote, Gives
<1>16. ASSUME NEW h \in Handlers, Join(h)
       PROVE  Registered'
  <2>1. call[h].student \in Students /\ call[h].section \in Sections
    BY <1>2, SeatType
  <2>2. CASE Goto(h, "idle") /\ sameTables
    BY <1>7, <2>2 DEF Places
  <2>3. QED
    BY <1>6, <1>16, <2>1, <2>2 DEF Join, tables, sameTables
<1>17. CASE Statement
  <2>1. UNCHANGED <<mode, row, pc, call>>
    BY <1>17 DEF Statement, LeaveWaitlist, PlaceHold, LiftHold, Deactivate
  <2>2. TablesOK'
    <3>1. ASSUME NEW c \in Seats, LeaveWaitlist(c) PROVE TablesOK'
      BY <1>2, <3>1 DEF LeaveWaitlist, EntryEnds, TablesOK
    <3>2. ASSUME NEW t \in Troubled, PlaceHold(t) \/ LiftHold(t) \/ Deactivate(t) PROVE TablesOK'
      <4>1. t \in Students
        BY EnrollmentAssumption
      <4>2. QED
        BY <1>2, <3>2, <4>1 DEF PlaceHold, LiftHold, Deactivate, TablesOK
    <3>3. QED
      BY <1>17, <3>1, <3>2 DEF Statement
  <2>3. HandlersOK'
    BY <1>2, <2>1 DEF HandlersOK, Told, Seat
  <2>4. QED
    BY <2>2, <2>3 DEF Registered
<1>18. CASE UNCHANGED vars
  BY <1>1, <1>18 DEF vars, Registered, TablesOK, HandlersOK, Told, Seat
<1>19. ASSUME NEW h \in Handlers, Called(h)
       PROVE  Registered'
  BY <1>4, <1>5, <1>6, <1>19 DEF Called, JoinWaitlist
<1>20. ASSUME NEW h \in Handlers, Step(h) \/ Die(h)
       PROVE  Registered'
  BY <1>8, <1>10, <1>12, <1>13, <1>14, <1>15, <1>16, <1>20 DEF Step
<1>21. QED
  BY <1>1, <1>17, <1>18, <1>19, <1>20 DEF Registers

-----------------------------------------------------------------------------
(* What a step of a handler does, by the place it goes to. *)

Enrolling == {"count", "recount", "create", "revive"}
Giving == Enrolling \cup {"check", "mark"}

SeatTaken(h, place) ==
    /\ row' = [row EXCEPT ![Seat(h)] = "ENROLLED"]
    /\ pc[h] \in {"create", "revive"}
    /\ place = (IF call[h].promoting THEN "mark" ELSE "idle")

SeatLeft(h, place) ==
    /\ row' = [row EXCEPT ![Seat(h)] = "DROPPED"]
    /\ pc[h] = "drop" /\ place = "promote"

EntryPromoted(h, place) ==
    /\ pc[h] = "mark" /\ place = "idle" /\ entry[Seat(h)] = "WAITING"
    /\ EntryEnds(Seat(h), "PROMOTED")

EntryQueued(h, place) ==
    /\ pc[h] = "queue" /\ place = "idle" /\ entry[Seat(h)] = "none"
    /\ entry' = [entry EXCEPT ![Seat(h)] = "WAITING"]
    /\ position' = [position EXCEPT ![Seat(h)] = call[h].rank]

sameEntries == UNCHANGED <<entry, position>>

\* Who goes on enrolling was let through by the checks, or was enrolling before; who
\* is about to write counted a free seat.
EnrollingGoesOn(h, place) ==
    place \in Enrolling =>
        /\ row' = row
        /\ \/ pc[h] \notin Enrolling /\ Passes(call'[h].student, call'[h].section)
           \/ pc[h] \in Enrolling /\ call'[h] = call[h]
        /\ place \in {"create", "revive"} => HasRoom(call'[h].section)

\* Who gives a seat to the waitlist gives it to the first, or did so before.
GivingGoesOn(h, place) ==
    place \in Giving /\ call'[h].promoting =>
        /\ sameEntries
        /\ \/ call'[h].student \in FirstWaiting(call'[h].section)
           \/ pc[h] \in Giving /\ call'[h] = call[h]

Does(h, place) ==
    /\ place \in Places /\ Moves(h, place)
    /\ UNCHANGED <<mode, standing>>
    /\ pc[h] = "idle" => Working < Limit
    /\ row' = row \/ SeatTaken(h, place) \/ SeatLeft(h, place)
    /\ sameEntries \/ EntryPromoted(h, place) \/ EntryQueued(h, place)
    /\ EnrollingGoesOn(h, place)
    /\ GivingGoesOn(h, place)
    /\ place = "queue" => sameEntries /\ call'[h].rank = NextPosition(call'[h].section)

LEMMA HandlerStep ==
    ASSUME Registered, NEW h \in Handlers, Called(h) \/ Step(h) \/ Die(h)
    PROVE  \E place : Does(h, place)
<1>1. TablesOK /\ HandlersOK
  BY DEF Registered
<1> DEFINE Goal == \E place : Does(h, place)
<1>2. ASSUME NEW s \in Students, NEW x \in Sections, NEW w \in BOOLEAN, Enroll(h, s, x, w)
      PROVE  Goal
  <2>1. Request(h, s, x, w, "count") /\ sameTables /\ "count" \in Places /\ Passes(s, x)
    BY <1>2 DEF Enroll, sameTables, tables, Places
  <2>2. /\ Moves(h, "count") /\ pc[h] = "idle" /\ call'[h].student = s /\ call'[h].section = x
        /\ ~call'[h].promoting
    BY <1>1, <2>1, RequestMoves
  <2>3. Does(h, "count")
    BY <2>1, <2>2 DEF Does, Request, sameTables, sameEntries, EnrollingGoesOn, GivingGoesOn, Enrolling
  <2>4. QED
    BY <2>3
<1>3. ASSUME NEW s \in Students, NEW x \in Sections, Drop(h, s, x)
      PROVE  Goal
  <2>1. Request(h, s, x, FALSE, "drop") /\ sameTables /\ "drop" \in Places
    BY <1>3 DEF Drop, sameTables, tables, Places
  <2>2. Moves(h, "drop")
    BY <1>1, <2>1, RequestMoves
  <2>3. Does(h, "drop")
    BY <2>1, <2>2 DEF Does, Request, sameTables, sameEntries, EnrollingGoesOn, GivingGoesOn, Enrolling, Giving
  <2>4. QED
    BY <2>3
<1>4. ASSUME NEW s \in Students, NEW x \in Sections, Ranked(h, s, x), pc[h] = "idle" => Working < Limit
      PROVE  Goal
  <2>1. /\ Moves(h, "queue") /\ sameTables /\ "queue" \in Places
        /\ call'[h].section = x /\ call'[h].rank = NextPosition(x)
    BY <1>4, RankedMoves DEF Ranked, sameTables, tables, Places
  <2>2. Does(h, "queue")
    BY <1>4, <2>1 DEF Does, sameTables, sameEntries, EnrollingGoesOn, GivingGoesOn, Enrolling, Giving
  <2>3. QED
    BY <2>2
<1>5. ASSUME pc[h] # "idle", Goto(h, "idle"), sameTables
      PROVE  Goal
  <2>1. Moves(h, "idle") /\ "idle" \in Places
    BY <1>1, <1>5, GotoMoves DEF Places
  <2>2. Does(h, "idle")
    BY <1>5, <2>1 DEF Does, sameTables, sameEntries, EnrollingGoesOn, GivingGoesOn, Enrolling, Giving
  <2>3. QED
    BY <2>2
<1>6. ASSUME pc[h] \in Enrolling \cup {"check"}, NEW place \in Places \ {"idle", "queue"},
             Goto(h, place), sameTables,
             place \in {"create", "revive"} => HasRoom(call[h].section),
             pc[h] \in Enrolling \/ (place = "count" /\ Passes(call[h].student, call[h].section))
      PROVE  Goal
  <2>1. Moves(h, place) /\ call'[h] = call[h] /\ pc[h] # "idle"
    BY <1>1, <1>6, GotoMoves DEF Enrolling
  <2>2. Does(h, place)
    BY <1>6, <2>1 DEF Does, sameTables, sameEntries, EnrollingGoesOn, GivingGoesOn, Enrolling, Giving
  <2>3. QED
    BY <2>2
<1>7. CASE Count(h)
  <2>1. pc[h] = "count" /\ sameTables
    BY <1>7 DEF Count, At, sameTables, tables
  <2>2. CASE Goto(h, "idle")
    BY <1>5, <2>1, <2>2
  <2>3. ASSUME NEW place \in {"create", "recount", "join"}, Goto(h, place),
               place = "create" => HasRoom(call[h].section)
        PROVE  Goal
    BY <1>6, <2>1, <2>3 DEF Enrolling, Places
  <2>4. QED
    BY <1>7, <2>2, <2>3, Zenon DEF Count, Refused
<1>8. CASE Recount(h)
  BY <1>5, <1>6, <1>8 DEF Recount, At, Refused, Enrolling, Places, sameTables, tables
<1>9. CASE Check(h)
  BY <1>5, <1>6, <1>9 DEF Check, At, Refused, Enrolling, Places, sameTables, tables
<1>10. CASE Die(h)
  BY <1>5, <1>10 DEF Die, sameTables, tables
<1>11. ASSUME pc[h] \in {"create", "revive"}, Enrolls(h)
       PROVE  Goal
  <2> DEFINE place == IF call[h].promoting THEN "mark" ELSE "idle"
  <2>1. Goto(h, place) /\ place \in Places /\ UNCHANGED <<mode, entry, position, standing>>
    BY <1>11 DEF Enrolls, Places
  <2>2. Moves(h, place) /\ (place # "idle" => call'[h] = call[h]) /\ (place = "idle" => ~call'[h].promoting)
    BY <1>1, <2>1, GotoMoves, NoCallType
  <2>3. SeatTaken(h, place)
    BY <1>11 DEF Enrolls, SeatTaken
  <2>4. Does(h, place)
    BY <1>11, <2>1, <2>2, <2>3 DEF Does, sameEntries, EnrollingGoesOn, GivingGoesOn, Enrolling, Giving
  <2>5. QED
    BY <2>4
<1>12. CASE Create(h) \/ Revive(h)
  BY <1>5, <1>11, <1>12 DEF Create, Revive, Refused, At, sameTables, tables
<1>13. CASE SoftDrop(h)
  <2>1. CASE row[Seat(h)] = "ENROLLED"
    <3>1. Goto(h, "promote") /\ "promote" \in Places /\ UNCHANGED <<mode, entry, position, standing>>
      BY <1>13, <2>1 DEF SoftDrop, Places
    <3>2. Moves(h, "promote")
      BY <1>1, <3>1, GotoMoves
    <3>3. SeatLeft(h, "promote") /\ pc[h] = "drop"
      BY <1>13, <2>1 DEF SoftDrop, SeatLeft, At
    <3>4. Does(h, "promote")
      BY <3>1, <3>2, <3>3 DEF Does, sameEntries, EnrollingGoesOn, GivingGoesOn, Enrolling, Giving
    <3>5. QED
      BY <3>4
  <2>2. CASE row[Seat(h)] # "ENROLLED"
    BY <1>5, <1>13, <2>2 DEF SoftDrop, At, sameTables
  <2>3. QED
    BY <2>1, <2>2
<1>14. CASE Mark(h)
  <2>1. Goto(h, "idle") /\ "idle" \in Places /\ UNCHANGED <<mode, row, standing>> /\ pc[h] = "mark"
    BY <1>14 DEF Mark, Places, At
  <2>2. Moves(h, "idle")
    BY <1>1, <2>1, GotoMoves
  <2>3. sameEntries \/ EntryPromoted(h, "idle")
    BY <1>14 DEF Mark, sameEntries, EntryPromoted, At
  <2>4. Does(h, "idle")
    BY <2>1, <2>2, <2>3 DEF Does, EnrollingGoesOn, GivingGoesOn, Enrolling, Giving
  <2>5. QED
    BY <2>4
<1>15. CASE Queue(h)
  <2>1. Goto(h, "idle") /\ "idle" \in Places /\ UNCHANGED <<mode, row, standing>> /\ pc[h] = "queue"
    BY <1>15 DEF Queue, Places, At
  <2>2. Moves(h, "idle")
    BY <1>1, <2>1, GotoMoves
  <2>3. sameEntries \/ EntryQueued(h, "idle")
    BY <1>15 DEF Queue, sameEntries, EntryQueued, At
  <2>4. Does(h, "idle")
    BY <2>1, <2>2, <2>3 DEF Does, EnrollingGoesOn, GivingGoesOn, Enrolling, Giving
  <2>5. QED
    BY <2>4
<1>16. CASE Promote(h)
  <2>1. pc[h] = "promote" /\ sameTables
    BY <1>16 DEF Promote, At, sameTables, tables
  <2>2. ASSUME NEW s, Gives(h, s) PROVE Goal
    <3>1. /\ Moves(h, "check") /\ call'[h].student = s /\ call'[h].section = call[h].section
          /\ s \in FirstWaiting(call[h].section) /\ "check" \in Places
      BY <1>1, <2>2, GivesMoves DEF Gives, Places
    <3>2. Does(h, "check")
      BY <2>1, <3>1 DEF Does, sameTables, sameEntries, EnrollingGoesOn, GivingGoesOn, Enrolling
    <3>3. QED
      BY <3>2
  <2>3. CASE Goto(h, "idle")
    BY <1>5, <2>1, <2>3
  <2>4. QED
    BY <1>16, <2>2, <2>3, Zenon DEF Promote, Gives
<1>17. CASE Join(h)
  <2>1. call[h].student \in Students /\ call[h].section \in Sections /\ pc[h] = "join"
    BY <1>1, <1>17, SeatType DEF Join, At
  <2>2. QED
    BY <1>4, <1>5, <1>17, <2>1 DEF Join, tables, sameTables
<1>18. CASE Called(h)
  BY <1>2, <1>3, <1>4, <1>18 DEF Called, JoinWaitlist
<1>19. QED
  BY <1>7, <1>8, <1>9, <1>10, <1>12, <1>13, <1>14, <1>15, <1>16, <1>17, <1>18 DEF Step

\* A statement of its own writes no enrollment row, and moves no handler.
StatementDoes ==
    /\ UNCHANGED <<mode, row, pc, call>>
    /\ Working < Limit
    /\ \/ sameEntries
       \/ \E c \in Seats : entry[c] = "WAITING" /\ EntryEnds(c, "REMOVED")

LEMMA StatementStep == Statement => StatementDoes
BY DEF Statement, StatementDoes, LeaveWaitlist, PlaceHold, LiftHold, Deactivate, sameEntries

-----------------------------------------------------------------------------
(* Seats *)

\* Handlers that counted a free seat of section x and have not written yet.
Writers(x) == {h \in Handlers : pc[h] \in {"create", "revive"} /\ call[h].section = x}

OneAtATime ==
    mode = "serial" =>
        \A g, h \in Handlers : pc[g] # "idle" /\ pc[h] # "idle" => g = h

SeatsHeld ==
    \A x \in Sections :
        Cardinality(Enrolled(x)) + Cardinality(Writers(x)) < MaxEnrollment[x] + Limit

Seated == Registered /\ OneAtATime /\ SeatsHeld

LEMMA Counted ==
    /\ \A T \in SUBSET Handlers :
          IsFiniteSet(T) /\ Cardinality(T) \in Nat /\ Cardinality(T) <= Cardinality(Handlers)
    /\ \A T \in SUBSET Students : IsFiniteSet(T) /\ Cardinality(T) \in Nat
    /\ Cardinality(Handlers) \in Nat
<1>1. IsFiniteSet(Handlers) /\ IsFiniteSet(Students)
  BY EnrollmentAssumption
<1>2. QED
  BY <1>1, FS_Subset, FS_CardinalityType

\* One at a time, no handler works when a call may begin, and none beside one that works.
LEMMA NobodyWorks ==
    ASSUME mode = "serial", Working < Limit, NEW g \in Handlers
    PROVE  pc[g] = "idle"
<1> DEFINE T == {h \in Handlers : pc[h] # "idle"}
<1>1. IsFiniteSet(T) /\ Cardinality(T) \in Nat
  BY Counted
<1>2. Cardinality(T) = 0
  BY <1>1 DEF Working, Limit
<1>3. T = {}
  BY <1>1, <1>2, FS_EmptySet
<1>4. QED
  BY <1>3

LEMMA OthersIdle ==
    ASSUME OneAtATime, mode = "serial", NEW h \in Handlers, NEW place, Does(h, place)
    PROVE  /\ \A g \in Handlers \ {h} : pc[g] = "idle" /\ pc'[g] = "idle"
           /\ pc'[h] = place
<1>1. \A g \in Handlers \ {h} : pc[g] = "idle"
  <2>1. CASE pc[h] = "idle"
    BY <2>1, NobodyWorks DEF Does
  <2>2. CASE pc[h] # "idle"
    BY <2>2 DEF OneAtATime
  <2>3. QED
    BY <2>1, <2>2
<1>2. QED
  BY <1>1 DEF Does, Moves

LEMMA OneAtATimeStep ==
    Registered /\ OneAtATime /\ [Registers]_vars => OneAtATime'
<1>1. SUFFICES ASSUME Registered, OneAtATime, [Registers]_vars PROVE OneAtATime'
  OBVIOUS
<1>2. ASSUME NEW h \in Handlers, NEW place, Does(h, place) PROVE OneAtATime'
  <2>1. mode' = mode
    BY <1>2 DEF Does
  <2>2. QED
    BY <1>1, <1>2, <2>1, OthersIdle DEF OneAtATime
<1>3. CASE Statement \/ UNCHANGED vars
  BY <1>1, <1>3, StatementStep DEF StatementDoes, OneAtATime, vars
<1>4. QED
  BY <1>1, <1>2, <1>3, HandlerStep DEF Registers

\* At most as many handlers write as may overlap.
LEMMA WritersBounded ==
    ASSUME OneAtATime, TablesOK, NEW x
    PROVE  Cardinality(Writers(x)) \in Nat /\ Cardinality(Writers(x)) <= Limit /\ Limit \in Nat
<1>1. Writers(x) \in SUBSET Handlers
  BY DEF Writers
<1>2. Cardinality(Writers(x)) \in Nat /\ Cardinality(Writers(x)) <= Cardinality(Handlers)
  BY <1>1, Counted
<1>3. CASE mode = "overlap"
  BY <1>2, <1>3, Counted DEF Limit
<1>4. CASE mode = "serial"
  <2>1. CASE Writers(x) = {}
    BY <1>4, <2>1, FS_EmptySet DEF Limit
  <2>2. CASE Writers(x) # {}
    <3>1. PICK h \in Handlers : h \in Writers(x)
      BY <2>2 DEF Writers
    <3>2. Writers(x) = {h}
      BY <1>4, <3>1 DEF Writers, OneAtATime
    <3>3. Cardinality({h}) = 1
      BY FS_Singleton
    <3>4. QED
      BY <1>4, <3>2, <3>3 DEF Limit
  <2>3. QED
    BY <2>1, <2>2
<1>5. QED
  BY <1>3, <1>4 DEF TablesOK

LEMMA SeatsHeldStep ==
    Seated /\ [Registers]_vars => SeatsHeld'
<1>1. SUFFICES ASSUME Seated, [Registers]_vars PROVE SeatsHeld'
  OBVIOUS
<1>2. TablesOK /\ HandlersOK /\ OneAtATime /\ SeatsHeld /\ TablesOK' /\ OneAtATime'
  BY <1>1, RegisteredStep, OneAtATimeStep DEF Seated, Registered
<1>3. ASSUME NEW h \in Handlers, NEW place, Does(h, place), NEW x \in Sections
      PROVE  (Cardinality(Enrolled(x)) + Cardinality(Writers(x)) < MaxEnrollment[x] + Limit)'
  <2> DEFINE E == Enrolled(x)
             W == Writers(x)
  <2>1. Limit' = Limit /\ MaxEnrollment[x] \in Nat /\ Limit \in Nat
    BY <1>2, <1>3, WritersBounded, EnrollmentAssumption DEF Does, Limit
  <2>2. E \in SUBSET Students /\ E' \in SUBSET Students /\ W \in SUBSET Handlers /\ W' \in SUBSET Handlers
    BY DEF Enrolled, Writers
  <2>3. /\ Cardinality(E) \in Nat /\ Cardinality(E') \in Nat
        /\ Cardinality(W) \in Nat /\ Cardinality(W') \in Nat
        /\ IsFiniteSet(E) /\ IsFiniteSet(E') /\ IsFiniteSet(W) /\ IsFiniteSet(W')
    BY <2>2, Counted
  <2>4. Cardinality(E) + Cardinality(W) < MaxEnrollment[x] + Limit
    BY <1>2 DEF SeatsHeld
  \* The handler counted a free seat of x and will write.
  <2>5. CASE h \in W'
    <3>1. place \in {"create", "revive"} /\ call'[h].section = x
      BY <1>3, <2>5 DEF Writers, Does, Moves
    <3>2. row' = row /\ HasRoom(x)
      BY <1>3, <3>1 DEF Does, EnrollingGoesOn, Enrolling
    <3>3. E' = E /\ Cardinality(E) < MaxEnrollment[x]
      BY <3>2 DEF Enrolled, HasRoom
    <3>4. Cardinality(W') <= Limit
      <4>1. mode' = "overlap" => Cardinality(W') <= Cardinality(Handlers)
        BY <2>2, Counted
      <4>2. mode' = "serial" => W' = {h}
        BY <1>2, <2>5 DEF Writers, OneAtATime
      <4>3. QED
        BY <1>2, <2>1, <4>1, <4>2, FS_Singleton DEF TablesOK, Limit
    <3> HIDE DEF E, W
    <3>5. QED
      BY <2>1, <2>3, <3>3, <3>4 DEF E, W
  <2>6. CASE h \notin W'
    <3>1. W' \subseteq W \ {h}
      BY <1>3, <2>6 DEF Writers, Does, Moves
    \* It writes the seat it counted on.
    <3>2. CASE h \in W /\ SeatTaken(h, place)
      <4>1. call[h].section = x /\ Seat(h) = <<call[h].student, x>> /\ Seat(h) \in Seats
        BY <1>2, <3>2, SeatType DEF Writers
      <4>2. E' \subseteq E \cup {call[h].student}
        BY <1>2, <3>2, <4>1 DEF Enrolled, SeatTaken, TablesOK
      <4> HIDE DEF E, W
      <4>3. Cardinality(E') <= Cardinality(E) + 1
        <5>0. IsFiniteSet(E \cup {call[h].student})
              /\ Cardinality(E \cup {call[h].student})
                     = IF call[h].student \in E THEN Cardinality(E) ELSE Cardinality(E) + 1
          BY <2>3, FS_AddElement
        <5>1. /\ IsFiniteSet(E \cup {call[h].student})
              /\ Cardinality(E \cup {call[h].student}) <= Cardinality(E) + 1
          BY <2>3, <5>0
        <5>2. Cardinality(E') <= Cardinality(E \cup {call[h].student})
          BY <4>2, <5>1, FS_Subset
        <5>3. Cardinality(E \cup {call[h].student}) \in Nat
          BY <5>1, FS_CardinalityType
        <5>4. QED
          BY <2>3, <5>1, <5>2, <5>3
      <4>4. Cardinality(W') <= Cardinality(W) - 1
        <5>1. IsFiniteSet(W \ {h}) /\ Cardinality(W \ {h}) = Cardinality(W) - 1
          BY <2>3, <3>2, FS_RemoveElement
        <5>2. QED
          BY <3>1, <5>1, FS_Subset
      <4>5. QED
        BY <2>1, <2>3, <2>4, <4>3, <4>4 DEF E, W
    \* Nobody gets a seat of x.
    <3>3. CASE ~(h \in W /\ SeatTaken(h, place))
      <4>1. E' \subseteq E
        <5>1. CASE row' = row
          BY <5>1 DEF Enrolled
        <5>2. CASE SeatLeft(h, place)
          BY <1>2, <5>2, SeatType DEF SeatLeft, Enrolled, TablesOK
        <5>3. CASE SeatTaken(h, place)
          <6>1. h \notin W
            BY <3>3, <5>3
          <6>2. call[h].section # x
            BY <5>3, <6>1 DEF SeatTaken, Writers
          <6>3. \A s \in Students : row'[<<s, x>>] = "ENROLLED" => row[<<s, x>>] = "ENROLLED"
            BY <1>2, <5>3, <6>2, SeatType, SeatsType DEF SeatTaken, TablesOK
          <6>4. QED
            BY <6>3 DEF Enrolled
        <5>4. QED
          BY <1>3, <5>1, <5>2, <5>3 DEF Does
      <4>2. Cardinality(E') <= Cardinality(E)
        BY <2>3, <4>1, FS_Subset
      <4>3. Cardinality(W') <= Cardinality(W)
        BY <2>3, <3>1, FS_Subset
      <4> HIDE DEF E, W
      <4>4. QED
        BY <2>1, <2>3, <2>4, <4>2, <4>3 DEF E, W
    <3>4. QED
      BY <3>2, <3>3
  <2>7. QED
    BY <2>5, <2>6
<1>4. CASE Statement \/ UNCHANGED vars
  <2>1. UNCHANGED <<mode, row, pc, call>>
    BY <1>4, StatementStep DEF StatementDoes, vars
  <2>2. QED
    BY <1>2, <2>1 DEF SeatsHeld, Enrolled, Writers, Limit
<1>5. ASSUME NEW h \in Handlers, Called(h) \/ Step(h) \/ Die(h) PROVE SeatsHeld'
  <2>1. PICK place : Does(h, place)
    BY <1>1, <1>5, HandlerStep DEF Seated
  <2>2. QED
    BY <1>3, <2>1 DEF SeatsHeld
<1>6. QED
  BY <1>1, <1>4, <1>5 DEF Registers

-----------------------------------------------------------------------------
(* Checks and waitlists, one call at a time *)

\* Whoever is enrolling would be let through now.
Checked ==
    mode = "serial" =>
        \A h \in Handlers :
            pc[h] \in Enrolling => Passes(call[h].student, call[h].section)

PlacesDiffer ==
    \A x \in Sections : \A s, t \in Waiting(x) : s # t => position[<<s, x>>] # position[<<t, x>>]

\* A new entry will come last, and a seat is given to the first.
InLine(h) ==
    /\ pc[h] = "queue" =>
          \A s \in Waiting(call[h].section) : position[<<s, call[h].section>>] < call[h].rank
    /\ pc[h] \in Giving /\ call[h].promoting => call[h].student \in FirstWaiting(call[h].section)

Lined == mode = "serial" => PlacesDiffer /\ \A h \in Handlers : InLine(h)

LEMMA CheckedStep ==
    Registered /\ OneAtATime /\ Checked /\ [Registers]_vars => Checked'
<1>1. SUFFICES ASSUME Registered, OneAtATime, Checked, [Registers]_vars, mode' = "serial"
               PROVE  \A h \in Handlers :
                         pc'[h] \in Enrolling => Passes(call[h].student, call[h].section)'
  BY DEF Checked
<1>2. ASSUME NEW h \in Handlers, NEW place, Does(h, place),
             NEW g \in Handlers, pc'[g] \in Enrolling
      PROVE  Passes(call[g].student, call[g].section)'
  <2>1. mode = "serial"
    BY <1>1, <1>2 DEF Does
  <2>2. g = h /\ place \in Enrolling
    BY <1>1, <1>2, <2>1, OthersIdle DEF Enrolling
  <2>3. row' = row /\ standing' = standing /\ Passes(call'[g].student, call'[g].section)
    BY <1>1, <1>2, <2>1, <2>2 DEF Does, EnrollingGoesOn, Checked
  <2>4. QED
    BY <2>3 DEF Passes, Registrable, Fits, Schedule
<1>3. CASE Statement
  BY <1>1, <1>3, StatementStep, NobodyWorks DEF StatementDoes, Enrolling
<1>4. CASE UNCHANGED vars
  BY <1>1, <1>4 DEF vars, Checked, Passes, Registrable, Fits, Schedule
<1>5. QED
  BY <1>1, <1>2, <1>3, <1>4, HandlerStep DEF Registers

\* Entries that end leave the others in their places.
LEMMA EntryLeaves ==
    ASSUME Registered, PlacesDiffer, NEW c \in Seats, NEW status \in {"PROMOTED", "REMOVED"},
           EntryEnds(c, status)
    PROVE  PlacesDiffer'
<1>1. \A d \in Seats : entry'[d] = "WAITING" => entry[d] = "WAITING" /\ position'[d] = position[d]
  BY DEF EntryEnds, Registered, TablesOK
<1>2. \A x \in Sections : \A s \in Waiting(x)' :
         s \in Waiting(x) /\ position'[<<s, x>>] = position[<<s, x>>]
  BY <1>1, SeatsType DEF Waiting
<1>3. QED
  BY <1>2 DEF PlacesDiffer

LEMMA LinedStep ==
    Registered /\ OneAtATime /\ Lined /\ [Registers]_vars => Lined'
<1>1. SUFFICES ASSUME Registered, OneAtATime, Lined, [Registers]_vars, mode' = "serial"
               PROVE  PlacesDiffer' /\ \A h \in Handlers : InLine(h)'
  BY DEF Lined
<1>2. TablesOK /\ HandlersOK
  BY <1>1 DEF Registered
<1>3. ASSUME NEW h \in Handlers, NEW place, Does(h, place)
      PROVE  PlacesDiffer' /\ \A g \in Handlers : InLine(g)'
  <2>1. mode = "serial" /\ PlacesDiffer /\ InLine(h)
    BY <1>1, <1>3 DEF Does, Lined
  <2>2. pc'[h] = place /\ \A g \in Handlers \ {h} : pc'[g] = "idle"
    BY <1>1, <1>3, <2>1, OthersIdle
  <2>3. \A g \in Handlers \ {h} : InLine(g)'
    BY <2>2 DEF InLine, Giving, Enrolling
  <2>4. InLine(h)'
    <3>1. ASSUME place = "queue"
          PROVE  \A s \in Waiting(call[h].section)' :
                    position'[<<s, call'[h].section>>] < call'[h].rank
      <4>1. sameEntries /\ call'[h].rank = NextPosition(call'[h].section) /\ call'[h].section \in Sections
        BY <1>3, <3>1 DEF Does, Moves, Calls
      <4>2. QED
        BY <1>2, <4>1, NextPositionType DEF Waiting, sameEntries
    <3>2. ASSUME place \in Giving, call'[h].promoting
          PROVE  call'[h].student \in FirstWaiting(call[h].section)'
      <4>1. sameEntries /\ call'[h].student \in FirstWaiting(call'[h].section)
        BY <1>3, <2>1, <3>2 DEF Does, GivingGoesOn, InLine
      <4>2. QED
        BY <4>1 DEF FirstWaiting, Waiting, sameEntries
    <3>3. QED
      BY <2>2, <3>1, <3>2 DEF InLine
  <2>5. PlacesDiffer'
    <3>1. Seat(h) \in Seats /\ call[h].section \in Sections /\ call[h].student \in Students
          /\ Seat(h) = <<call[h].student, call[h].section>>
      BY <1>2, SeatType
    <3>2. CASE sameEntries
      BY <2>1, <3>2 DEF PlacesDiffer, Waiting, sameEntries
    <3>3. CASE EntryPromoted(h, place)
      BY <1>1, <2>1, <3>1, <3>3, EntryLeaves DEF EntryPromoted
    <3>4. CASE EntryQueued(h, place)
      <4>1. \A d \in Seats \ {Seat(h)} : entry'[d] = entry[d] /\ position'[d] = position[d]
        BY <1>2, <3>4 DEF EntryQueued, TablesOK
      <4>2. position'[Seat(h)] = call[h].rank
        BY <1>2, <3>1, <3>4 DEF EntryQueued, TablesOK
      <4>3. \A s \in Waiting(call[h].section) : position[<<s, call[h].section>>] < call[h].rank
        BY <2>1, <3>4 DEF EntryQueued, InLine
      <4>4. ASSUME NEW x \in Sections, NEW s \in Waiting(x)', <<s, x>> # Seat(h)
            PROVE  /\ s \in Waiting(x) /\ position'[<<s, x>>] = position[<<s, x>>]
                   /\ position[<<s, x>>] \in Nat
        BY <1>2, <4>1, <4>4, SeatsType DEF Waiting, TablesOK
      \* Nobody else waits at the new entry's position.
      <4>5. ASSUME NEW x \in Sections, NEW s \in Waiting(x)', NEW t \in Waiting(x)', s # t,
                   <<s, x>> = Seat(h)
            PROVE  position'[<<s, x>>] # position'[<<t, x>>]
        <5>1. x = call[h].section /\ s = call[h].student /\ <<t, x>> # Seat(h)
          BY <3>1, <4>5
        <5>2. /\ t \in Waiting(x) /\ position'[<<t, x>>] = position[<<t, x>>]
              /\ position[<<t, x>>] \in Nat
          BY <4>4, <4>5, <5>1
        <5>3. position[<<t, x>>] < call[h].rank
          BY <4>3, <5>1, <5>2
        <5>4. position'[<<s, x>>] = call[h].rank /\ call[h].rank \in Nat
          BY <1>2, <4>2, <4>5 DEF HandlersOK, Calls
        <5>5. QED
          BY <5>2, <5>3, <5>4
      <4>6. ASSUME NEW x \in Sections, NEW s \in Waiting(x)', NEW t \in Waiting(x)', s # t
            PROVE  position'[<<s, x>>] # position'[<<t, x>>]
        <5>1. CASE <<s, x>> = Seat(h)
          BY <4>5, <4>6, <5>1
        <5>2. CASE <<t, x>> = Seat(h)
          BY <4>5, <4>6, <5>2
        <5>3. CASE <<s, x>> # Seat(h) /\ <<t, x>> # Seat(h)
          <6>1. /\ s \in Waiting(x) /\ position'[<<s, x>>] = position[<<s, x>>]
                /\ t \in Waiting(x) /\ position'[<<t, x>>] = position[<<t, x>>]
            BY <4>4, <4>6, <5>3
          <6>2. QED
            BY <2>1, <4>6, <6>1 DEF PlacesDiffer
        <5>4. QED
          BY <5>1, <5>2, <5>3
      <4>7. QED
        BY <4>6 DEF PlacesDiffer
    <3>5. QED
      BY <1>3, <3>2, <3>3, <3>4 DEF Does
  <2>6. QED
    BY <2>3, <2>4, <2>5
<1>4. CASE Statement
  <2>1. mode = "serial" /\ \A h \in Handlers : pc'[h] = "idle"
    BY <1>1, <1>4, StatementStep, NobodyWorks DEF StatementDoes
  <2>2. \A h \in Handlers : InLine(h)'
    BY <2>1 DEF InLine, Giving, Enrolling
  <2>3. PlacesDiffer
    BY <1>1, <2>1 DEF Lined
  <2>4. PlacesDiffer'
    <3>1. CASE sameEntries
      BY <2>3, <3>1 DEF PlacesDiffer, Waiting, sameEntries
    <3>2. ASSUME NEW c \in Seats, EntryEnds(c, "REMOVED") PROVE PlacesDiffer'
      BY <1>1, <2>3, <3>2, EntryLeaves
    <3>3. QED
      BY <1>4, <3>1, <3>2, StatementStep DEF StatementDoes
  <2>5. QED
    BY <2>2, <2>4
<1>5. CASE UNCHANGED vars
  BY <1>1, <1>5 DEF vars, Lined, PlacesDiffer, InLine, Waiting, FirstWaiting
<1>6. QED
  BY <1>1, <1>3, <1>4, <1>5, HandlerStep DEF Registers

-----------------------------------------------------------------------------
(* Registration, as a whole: on its own (Spec) and beside attempts and grades. *)

Registration == Seated /\ Checked /\ Lined

LEMMA RegistrationInit == Init => Registration
<1>1. SUFFICES ASSUME Init PROVE Registration
  OBVIOUS
<1>2. Registered
  BY <1>1, RegisteredInit
<1>3. \A h \in Handlers : pc[h] = "idle"
  BY <1>1 DEF Init
<1>4. SeatsHeld
  <2>1. ASSUME NEW x \in Sections
        PROVE  Cardinality(Enrolled(x)) + Cardinality(Writers(x)) < MaxEnrollment[x] + Limit
    <3>1. Enrolled(x) = {} /\ Writers(x) = {}
      BY <1>1, <1>3, SeatsType DEF Init, Enrolled, Writers
    <3>2. Cardinality(Enrolled(x)) = 0 /\ Cardinality(Writers(x)) = 0
      BY <3>1, FS_EmptySet
    <3>3. Cardinality(Handlers) > 0
      <4>1. IsFiniteSet(Handlers) /\ Cardinality(Handlers) \in Nat
        BY EnrollmentAssumption, Counted
      <4>2. Cardinality(Handlers) # 0
        BY <4>1, EnrollmentAssumption, FS_EmptySet
      <4>3. QED
        BY <4>1, <4>2
    <3>4. Limit \in Nat /\ Limit > 0 /\ MaxEnrollment[x] \in Nat
      <4>1. Cardinality(Handlers) \in Nat
        BY Counted
      <4>2. Limit \in Nat /\ Limit > 0
        BY <3>3, <4>1 DEF Limit
      <4>3. QED
        BY <4>2, EnrollmentAssumption
    <3>5. QED
      BY <3>2, <3>4
  <2>2. QED
    BY <2>1 DEF SeatsHeld
<1>5. Checked
  BY <1>3 DEF Checked, Enrolling
<1>6. Lined
  <2>1. \A x \in Sections : Waiting(x) = {}
    BY <1>1, SeatsType DEF Init, Waiting
  <2>2. QED
    BY <1>3, <2>1 DEF Lined, PlacesDiffer, InLine, Giving, Enrolling
<1>7. QED
  BY <1>2, <1>3, <1>4, <1>5, <1>6 DEF Registration, Seated, OneAtATime

LEMMA RegistrationStep == Registration /\ [Registers]_vars => Registration'
BY RegisteredStep, OneAtATimeStep, SeatsHeldStep, CheckedStep, LinedStep DEF Registration, Seated

\* Both specifications keep to it.
LEMMA RegistrationHolds ==
    (Spec \/ GradebookSpec) => [](Registration) /\ [][Registers]_vars
<1>1. GradebookInit => Init
  BY DEF GradebookInit
<1>2. QED
  BY <1>1, RegistrationInit, RegistrationStep, RegistersInNext, RegistersInGradebook, PTL
     DEF Spec, GradebookSpec

(* The tables and the handlers of registration keep their types.            *)
THEOREM RegistrationTypes == (Spec \/ GradebookSpec) => []TypeOK
<1>1. Registration => TypeOK
  BY DEF Registration, Seated, Registered, TablesOK, HandlersOK, TypeOK, Places
<1>2. QED
  BY <1>1, RegistrationHolds, PTL

(* However many enroll at once, however calls die half-way: a section is    *)
(* never filled beyond its seats by more than the handlers that overlap,    *)
(* less one; one at a time never.                                           *)
THEOREM SeatsAreRespected == (Spec \/ GradebookSpec) => []SeatsRespected
<1>1. ASSUME Registration PROVE SeatsRespected
  <2>1. TablesOK /\ OneAtATime /\ SeatsHeld
    BY <1>1 DEF Registration, Seated, Registered
  <2>2. ASSUME NEW x \in Sections PROVE Cardinality(Enrolled(x)) < MaxEnrollment[x] + Limit
    <3>1. Enrolled(x) \in SUBSET Students
      BY DEF Enrolled
    <3>2. Cardinality(Enrolled(x)) \in Nat /\ Cardinality(Writers(x)) \in Nat
      BY <2>1, <3>1, Counted, WritersBounded
    <3>3. MaxEnrollment[x] \in Nat /\ Limit \in Nat
      BY <2>1, WritersBounded, EnrollmentAssumption
    <3>4. QED
      BY <2>1, <3>2, <3>3 DEF SeatsHeld
  <2>3. QED
    BY <2>2 DEF SeatsRespected
<1>2. Registration => SeatsRespected
  BY <1>1
<1>3. QED
  BY <1>2, RegistrationHolds, PTL

\* No entry is PROMOTED before its student was enrolled; steps that enroll nobody keep it.
Promoted == Registered /\ PromotedWasEnrolled

LEMMA PromotedStep == Promoted /\ [Registers]_vars => Promoted'
<1>1. SUFFICES ASSUME Promoted, [Registers]_vars PROVE PromotedWasEnrolled'
  BY RegisteredStep DEF Promoted
<1>2. TablesOK /\ HandlersOK /\ PromotedWasEnrolled
  BY <1>1 DEF Promoted, Registered
<1>3. ASSUME NEW h \in Handlers, NEW place, Does(h, place) PROVE PromotedWasEnrolled'
  <2>1. Seat(h) \in Seats
    BY <1>2, SeatType
  <2>2. RowsStay
    BY <1>2, <1>3, <2>1 DEF Does, SeatTaken, SeatLeft, RowsStay, TablesOK
  <2>3. ASSUME NEW c \in Seats, entry'[c] = "PROMOTED" PROVE row[c] # "none"
    <3>1. CASE entry[c] = "PROMOTED"
      BY <1>2, <3>1 DEF PromotedWasEnrolled
    <3>2. CASE entry[c] # "PROMOTED"
      <4>1. EntryPromoted(h, place) /\ c = Seat(h)
        BY <1>2, <1>3, <2>1, <2>3, <3>2
           DEF Does, sameEntries, EntryPromoted, EntryEnds, EntryQueued, TablesOK
      <4>2. QED
        BY <1>2, <4>1 DEF EntryPromoted, HandlersOK, Told
    <3>3. QED
      BY <3>1, <3>2
  <2>4. QED
    BY <2>2, <2>3 DEF PromotedWasEnrolled, RowsStay
<1>4. CASE Statement
  BY <1>2, <1>4, StatementStep DEF StatementDoes, sameEntries, EntryEnds, PromotedWasEnrolled, TablesOK
<1>5. CASE UNCHANGED vars
  BY <1>2, <1>5 DEF vars, PromotedWasEnrolled
<1>6. QED
  BY <1>1, <1>3, <1>4, <1>5, HandlerStep DEF Registers, Promoted

(* However promotions overlap, fail or die, an entry is PROMOTED only after *)
(* its student was enrolled in the section.                                 *)
THEOREM PromotionEnrolls == (Spec \/ GradebookSpec) => []PromotedWasEnrolled
<1>1. Init => Promoted
  BY RegisteredInit DEF Init, Promoted, PromotedWasEnrolled
<1>2. (Spec \/ GradebookSpec) => Init
  BY DEF Spec, GradebookSpec, GradebookInit
<1>3. Promoted => PromotedWasEnrolled
  BY DEF Promoted
<1>4. QED
  BY <1>1, <1>2, <1>3, PromotedStep, RegistrationHolds, PTL

(* One call at a time, whoever is enrolled, promoted or revived has no hold *)
(* and is active, and nothing in their timetable stands against it.         *)
THEOREM EnrolledIsAllowed == (Spec \/ GradebookSpec) => EnrolledWhenAllowed
<1> DEFINE Allowed ==
      mode = "serial" =>
         \A s \in Students, x \in Sections :
            (row[<<s, x>>] # "ENROLLED" /\ row'[<<s, x>>] = "ENROLLED") =>
               /\ standing[s] = "clear"
               /\ \A y \in Sections \ {x} : row[<<s, y>>] = "ENROLLED" =>
                     Course[y] # Course[x] /\ {x, y} \notin Clashes
<1>1. ASSUME Registration, Registers PROVE Allowed
  <2>1. TablesOK /\ HandlersOK /\ Checked
    BY <1>1 DEF Registration, Seated, Registered
  <2>2. ASSUME mode = "serial", NEW s \in Students, NEW x \in Sections,
               row[<<s, x>>] # "ENROLLED", row'[<<s, x>>] = "ENROLLED",
               NEW h \in Handlers, NEW place, Does(h, place)
        PROVE  /\ standing[s] = "clear"
               /\ \A y \in Sections \ {x} : row[<<s, y>>] = "ENROLLED" =>
                     Course[y] # Course[x] /\ {x, y} \notin Clashes
    <3>1. Seat(h) \in Seats /\ Seat(h) = <<call[h].student, call[h].section>> /\ <<s, x>> \in Seats
      BY <2>1, SeatType, SeatsType
    <3>2. SeatTaken(h, place) /\ Seat(h) = <<s, x>>
      BY <2>1, <2>2, <3>1 DEF Does, SeatTaken, SeatLeft, TablesOK
    <3>3. s = call[h].student /\ x = call[h].section /\ pc[h] \in Enrolling
      BY <3>1, <3>2 DEF SeatTaken, Enrolling
    <3>4. Passes(s, x)
      BY <2>1, <2>2, <3>3 DEF Checked
    <3>5. \A y \in Sections : row[<<s, y>>] = "ENROLLED" =>
             Course[y] # Course[x] /\ (y # x => {x, y} \notin Clashes)
      BY <3>4 DEF Passes, Fits, Schedule
    <3>6. QED
      BY <3>4, <3>5 DEF Passes, Registrable
  <2>3. ASSUME NEW h \in Handlers, Called(h) \/ Step(h) \/ Die(h) PROVE Allowed
    <3>1. PICK place : Does(h, place)
      BY <1>1, <2>3, HandlerStep DEF Registration, Seated
    <3>2. QED
      BY <2>2, <3>1
  <2>4. CASE Statement
    BY <2>4, StatementStep DEF StatementDoes
  <2>5. QED
    BY <1>1, <2>3, <2>4 DEF Registers
<1>2. Registration /\ [Registers]_vars => [Allowed]_vars
  BY <1>1
<1>3. QED
  BY <1>2, RegistrationHolds, PTL DEF EnrolledWhenAllowed

(* One call at a time, a seat that falls free goes to whoever has waited    *)
(* longest, and no two wait at one position.                                *)
THEOREM FirstIsServed == (Spec \/ GradebookSpec) => FirstComeFirstServed
<1> DEFINE Served ==
      mode = "serial" =>
         \A x \in Sections, s \in Students : \A t \in Students \ {s} :
            /\ (/\ entry[<<s, x>>] = "WAITING" /\ entry'[<<s, x>>] = "PROMOTED"
                /\ entry[<<t, x>>] = "WAITING")
                   => position[<<s, x>>] < position[<<t, x>>]
            /\ (entry'[<<s, x>>] = "WAITING" /\ entry'[<<t, x>>] = "WAITING")
                   => position'[<<s, x>>] # position'[<<t, x>>]
<1>1. ASSUME Registration, Registration', Registers PROVE Served
  <2>1. TablesOK /\ HandlersOK /\ Lined /\ Registered
    BY <1>1 DEF Registration, Seated, Registered
  <2>2. SUFFICES ASSUME mode = "serial", NEW x \in Sections, NEW s \in Students, NEW t \in Students \ {s}
                 PROVE  /\ (/\ entry[<<s, x>>] = "WAITING" /\ entry'[<<s, x>>] = "PROMOTED"
                            /\ entry[<<t, x>>] = "WAITING")
                               => position[<<s, x>>] < position[<<t, x>>]
                        /\ (entry'[<<s, x>>] = "WAITING" /\ entry'[<<t, x>>] = "WAITING")
                               => position'[<<s, x>>] # position'[<<t, x>>]
    OBVIOUS
  <2>3. mode' = mode
    BY <1>1, <2>1, HandlerStep, StatementStep DEF Registers, Does, StatementDoes
  <2>4. PlacesDiffer'
    BY <1>1, <2>2, <2>3 DEF Registration, Lined
  <2>5. ASSUME entry'[<<s, x>>] = "WAITING", entry'[<<t, x>>] = "WAITING"
        PROVE  position'[<<s, x>>] # position'[<<t, x>>]
    BY <2>2, <2>4, <2>5 DEF PlacesDiffer, Waiting
  <2>6. ASSUME entry[<<s, x>>] = "WAITING", entry'[<<s, x>>] = "PROMOTED", entry[<<t, x>>] = "WAITING"
        PROVE  position[<<s, x>>] < position[<<t, x>>]
    <3>1. <<s, x>> \in Seats /\ <<t, x>> \in Seats /\ s \in Waiting(x) /\ t \in Waiting(x) /\ s # t
      BY <2>2, <2>6, SeatsType DEF Waiting
    <3>2. ASSUME NEW h \in Handlers, NEW place, Does(h, place)
          PROVE  s \in FirstWaiting(x)
      <4>1. Seat(h) \in Seats /\ Seat(h) = <<call[h].student, call[h].section>>
        BY <2>1, SeatType
      <4>2. EntryPromoted(h, place) /\ Seat(h) = <<s, x>>
        BY <2>1, <2>6, <3>1, <3>2, <4>1 DEF Does, sameEntries, EntryPromoted, EntryEnds, EntryQueued, TablesOK
      <4>3. s = call[h].student /\ x = call[h].section /\ pc[h] = "mark"
        BY <4>1, <4>2 DEF EntryPromoted
      <4>4. InLine(h) /\ call[h].promoting
        BY <2>1, <2>2, <4>3 DEF Lined, HandlersOK, Told
      <4>5. QED
        BY <4>3, <4>4 DEF InLine, Giving
    <3>3. ~Statement
      BY <2>1, <2>6, <3>1, StatementStep DEF StatementDoes, sameEntries, EntryEnds, TablesOK
    <3>4. s \in FirstWaiting(x)
      BY <1>1, <2>1, <3>2, <3>3, HandlerStep DEF Registers
    <3>5. position[<<s, x>>] <= position[<<t, x>>]
      BY <3>1, <3>4 DEF FirstWaiting
    <3>6. position[<<s, x>>] # position[<<t, x>>]
      BY <2>1, <2>2, <3>1 DEF Lined, PlacesDiffer
    <3>7. position[<<s, x>>] \in Nat /\ position[<<t, x>>] \in Nat
      BY <2>1, <3>1 DEF TablesOK
    <3>8. QED
      BY <3>5, <3>6, <3>7
  <2>7. QED
    BY <2>5, <2>6
<1>2. Registration /\ Registration' /\ [Registers]_vars => [Served]_vars
  BY <1>1
<1>3. QED
  BY <1>2, RegistrationHolds, PTL DEF FirstComeFirstServed

-----------------------------------------------------------------------------
(* Calls on attempts and grades *)

QuizStops == {"close", "count", "open", "save", "submit", "grade"}
GradeStops == {"idle", "passback", "write", "cancel releases", "release", "downgrade", "request",
               "start chain", "cancel chain", "clamp", "apply", "withdraw", "complete", "refuse"}
Stops == QuizStops \cup GradeStops

Jobs == [about : Nat, number : Nat, answers : 0..100, points : 0..100,
         status : {"DRAFT", "SUBMITTED", "GRADED"}, scored : BOOLEAN]

ClerksOK == attempt \in Seq(Attempts) /\ at \in [Clerks -> Stops] /\ job \in [Clerks -> Jobs]

\* Call w goes on to stop, the others stay where they are.
ClerkMoves(w, stop) ==
    /\ at' \in [Clerks -> Stops] /\ job' \in [Clerks -> Jobs]
    /\ at'[w] = stop
    /\ \A v \in Clerks \ {w} : at'[v] = at[v] /\ job'[v] = job[v]
    /\ at[w] = "idle" => Busy < Slots

LEMMA NoJobType == NoJob \in Jobs
BY DEF NoJob, Jobs

LEMMA BeginMoves ==
    ASSUME ClerksOK, NEW w \in Clerks, NEW stop \in Stops, NEW what \in Jobs, Begin(w, stop, what)
    PROVE  ClerkMoves(w, stop) /\ at[w] = "idle" /\ job'[w] = what
BY DEF ClerksOK, Begin, ClerkMoves

LEMMA ProceedMoves ==
    ASSUME ClerksOK, NEW w \in Clerks, NEW stop \in Stops, Proceed(w, stop), at[w] # "idle"
    PROVE  ClerkMoves(w, stop) /\ (stop # "idle" => job'[w] = job[w])
BY NoJobType DEF ClerksOK, Proceed, ClerkMoves

Touching == {"close", "save", "submit", "grade"}

\* The call writes the attempt it is about.
Touches(w, stop) ==
    \E r \in Attempts :
        LET old == attempt[job[w].about] IN
        /\ at[w] \in Touching
        /\ stop = "count" => at[w] = "close"
        /\ attempt' = [attempt EXCEPT ![job[w].about] = r]
        /\ r.number = old.number
        /\ IF at[w] = "save" THEN r.status = old.status /\ r.auto = old.auto
           ELSE r.status # "DRAFT"
        /\ at[w] = "grade" => ~r.auto
        /\ \/ ~r.auto
           \/ r.auto = old.auto
           \/ at[w] = "submit" /\ r.points = r.answers

\* The call adds an attempt.
Opens(w, stop) ==
    /\ at[w] = "open" /\ stop = "idle"
    /\ \E r \in Attempts : /\ attempt' = Append(attempt, r)
                           /\ r.number = job[w].number /\ ~r.auto

\* What a step of a call does to the attempts, by the stop it goes to.
ClerkDoes(w, stop) ==
    /\ stop \in Stops /\ ClerkMoves(w, stop)
    /\ attempt' = attempt \/ Touches(w, stop) \/ Opens(w, stop)
    /\ stop \in Touching \cup {"open"} => attempt' = attempt
    /\ stop \in {"close", "save", "submit"} => at[w] = "idle" /\ job'[w].about \in Drafts
    /\ stop = "grade" => job'[w].about \in DOMAIN attempt
    /\ stop = "submit" => job'[w].status # "DRAFT"
    /\ stop = "count" => \/ Drafts = {} /\ attempt' = attempt
                         \/ Touches(w, stop)
    /\ stop = "open" => /\ at[w] = "count" /\ Len(attempt) < MaxAttempts[mode]
                        /\ job'[w].number = Len(attempt) + 1

\* What a call works on is there, and a draft is not scored.
Works(w) ==
    /\ at[w] \in Touching => job[w].about \in DOMAIN attempt
    /\ at[w] = "submit" => job[w].status # "DRAFT"

DraftsUnscored == \A i \in Drafts : ~attempt[i].auto

AttemptsOK == ClerksOK /\ DraftsUnscored /\ \A w \in Clerks : Works(w)

LEMMA AttemptType ==
    ASSUME ClerksOK, NEW i \in DOMAIN attempt
    PROVE  attempt[i] \in Attempts /\ i \in Nat
BY ElementOfSeq DEF ClerksOK

QuizCall(w) == TakeQuiz(w) \/ EndQuizCall(w) \/ Dies(w)

LEMMA QuizCallDoes ==
    ASSUME TablesOK, ClerksOK, NEW w \in Clerks, Works(w), QuizCall(w)
    PROVE  \E stop \in QuizStops \cup {"idle", "passback"} : ClerkDoes(w, stop)
<1> DEFINE Goal == \E stop \in QuizStops \cup {"idle", "passback"} : ClerkDoes(w, stop)
<1>1. ASSUME NEW i \in DOMAIN attempt, NEW place \in {"save", "close"}, i \in Drafts,
             NEW what \in Jobs, what.about = i, Begin(w, place, what), attempt' = attempt
      PROVE  Goal
  <2>1. ClerkMoves(w, place) /\ at[w] = "idle" /\ job'[w] = what
    BY <1>1, BeginMoves DEF Stops, QuizStops
  <2>2. ClerkDoes(w, place)
    BY <1>1, <2>1 DEF ClerkDoes, Stops, QuizStops, Touching
  <2>3. QED
    BY <2>2 DEF QuizStops
<1>2. CASE StartAttempt(w)
  <2>1. CASE Drafts = {} /\ Begin(w, "count", NoJob) /\ attempt' = attempt
    <3>1. ClerkMoves(w, "count") /\ at[w] = "idle"
      BY <2>1, BeginMoves, NoJobType DEF Stops, QuizStops
    <3>2. ClerkDoes(w, "count")
      BY <2>1, <3>1 DEF ClerkDoes, Stops, QuizStops, Touching
    <3>3. QED
      BY <3>2 DEF QuizStops
  <2>2. ASSUME NEW i \in Current, Begin(w, "close", [NoJob EXCEPT !.about = i]), attempt' = attempt
        PROVE  Goal
    <3>1. i \in Drafts /\ i \in DOMAIN attempt
      BY <2>2 DEF Current, Drafts
    <3>2. i \in Nat
      BY <3>1, AttemptType
    <3>3. [NoJob EXCEPT !.about = i] \in Jobs /\ [NoJob EXCEPT !.about = i].about = i
      BY <3>2, NoJobType DEF Jobs
    <3>4. QED
      BY <1>1, <2>2, <3>1, <3>3
  <2>3. QED
    BY <1>2, <2>1, <2>2 DEF StartAttempt
<1>3. ASSUME NEW i \in DOMAIN attempt, NEW s \in Earned, SaveDraft(w, i, s)
      PROVE  Goal
  <2> DEFINE what == [NoJob EXCEPT !.about = i, !.answers = s]
  <2>1. i \in Nat /\ s \in 0..100 /\ i \in Drafts
    BY <1>3, AttemptType, AssessmentsAssumption DEF SaveDraft, Savable, Drafts
  <2>2. what \in Jobs /\ what.about = i
    BY <2>1, NoJobType DEF Jobs
  <2>3. Begin(w, "save", what) /\ attempt' = attempt
    BY <1>3 DEF SaveDraft
  <2> HIDE DEF what
  <2>4. QED
    BY <1>1, <2>1, <2>2, <2>3
<1>4. ASSUME NEW i \in DOMAIN attempt, NEW s \in Given, Grade(w, i, s)
      PROVE  Goal
  <2> DEFINE what == [NoJob EXCEPT !.about = i, !.points = s]
  <2>1. i \in Nat /\ s \in 0..100
    BY AttemptType, AssessmentsAssumption
  <2>2. what \in Jobs /\ what.about = i
    BY <2>1, NoJobType DEF Jobs
  <2>3. Begin(w, "grade", what) /\ attempt' = attempt
    BY <1>4 DEF Grade
  <2> HIDE DEF what
  <2>4. ClerkMoves(w, "grade") /\ at[w] = "idle" /\ job'[w] = what
    BY <2>2, <2>3, BeginMoves DEF Stops, QuizStops
  <2>5. ClerkDoes(w, "grade")
    BY <2>2, <2>3, <2>4 DEF ClerkDoes, Stops, QuizStops, Touching
  <2>6. QED
    BY <2>5 DEF QuizStops
<1>5. ASSUME NEW i \in DOMAIN attempt, NEW s \in Earned \cup {attempt[i].answers}, NEW scored \in BOOLEAN,
             NEW status \in {"SUBMITTED", "GRADED"}, Submit(w, i, s, status, scored)
      PROVE  Goal
  <2> DEFINE what == [NoJob EXCEPT !.about = i, !.answers = s, !.status = status, !.scored = scored]
  <2>1. i \in Nat /\ s \in 0..100 /\ i \in Drafts
    BY <1>5, AttemptType, AssessmentsAssumption DEF Submit, Drafts, Attempts
  <2>2. what \in Jobs /\ what.about = i /\ what.status = status
    BY <2>1, NoJobType DEF Jobs
  <2>3. Begin(w, "submit", what) /\ attempt' = attempt
    BY <1>5 DEF Submit
  <2> HIDE DEF what
  <2>4. ClerkMoves(w, "submit") /\ at[w] = "idle" /\ job'[w] = what
    BY <2>2, <2>3, BeginMoves DEF Stops, QuizStops
  <2>5. ClerkDoes(w, "submit")
    BY <2>1, <2>2, <2>3, <2>4 DEF ClerkDoes, Stops, QuizStops, Touching
  <2>6. QED
    BY <2>5 DEF QuizStops
\* A row is written and the call goes on.
<1>6. ASSUME at[w] \in Touching, NEW stop \in {"idle", "passback", "count"}, Proceed(w, stop),
             Touches(w, stop)
      PROVE  Goal
  <2>1. ClerkMoves(w, stop)
    BY <1>6, ProceedMoves DEF Stops, QuizStops, GradeStops, Touching
  <2>2. ClerkDoes(w, stop)
    BY <1>6, <2>1 DEF ClerkDoes, Stops, QuizStops, GradeStops, Touching
  <2>3. QED
    BY <2>2 DEF QuizStops
<1> DEFINE i == job[w].about
           old == attempt[i]
<1>7. at[w] \in Touching => i \in DOMAIN attempt /\ old \in Attempts /\ job[w] \in Jobs
  BY AttemptType DEF Works, ClerksOK
<1>8. CASE CloseExpired(w)
  <2> DEFINE r == [old EXCEPT !.status = "SUBMITTED"]
  <2>1. at[w] = "close" /\ Proceed(w, "count") /\ attempt' = [attempt EXCEPT ![i] = r]
    BY <1>7, <1>8 DEF CloseExpired, On, Touching
  <2>2. r \in Attempts /\ r.number = old.number /\ r.status # "DRAFT" /\ r.auto = old.auto
    BY <1>7, <2>1 DEF Attempts, Touching
  <2> HIDE DEF r
  <2>3. Touches(w, "count")
    BY <2>1, <2>2 DEF Touches, Touching
  <2>4. QED
    BY <1>6, <2>1, <2>3 DEF Touching
<1>9. CASE WriteDraft(w)
  <2> DEFINE r == [old EXCEPT !.answers = job[w].answers]
  <2>1. at[w] = "save" /\ Proceed(w, "idle") /\ attempt' = [attempt EXCEPT ![i] = r]
    BY <1>7, <1>9 DEF WriteDraft, On, Touching
  <2>2. r \in Attempts /\ r.number = old.number /\ r.status = old.status /\ r.auto = old.auto
    BY <1>7, <2>1 DEF Attempts, Jobs, Touching
  <2> HIDE DEF r
  <2>3. Touches(w, "idle")
    BY <2>1, <2>2 DEF Touches, Touching
  <2>4. QED
    BY <1>6, <2>1, <2>3 DEF Touching
<1>10. CASE WriteGraded(w)
  <2> DEFINE r == [old EXCEPT !.points = job[w].points, !.auto = FALSE, !.status = "GRADED"]
  <2>1. at[w] = "grade" /\ Proceed(w, "passback") /\ attempt' = [attempt EXCEPT ![i] = r]
    BY <1>7, <1>10 DEF WriteGraded, On, Touching
  <2>2. r \in Attempts /\ r.number = old.number /\ r.status # "DRAFT" /\ ~r.auto
    BY <1>7, <2>1 DEF Attempts, Jobs, Touching
  <2> HIDE DEF r
  <2>3. Touches(w, "passback")
    BY <2>1, <2>2 DEF Touches, Touching
  <2>4. QED
    BY <1>6, <2>1, <2>3 DEF Touching
<1>11. CASE WriteSubmitted(w)
  <2> DEFINE handedIn == [old EXCEPT !.answers = job[w].answers, !.status = job[w].status]
             r == IF job[w].scored THEN [handedIn EXCEPT !.points = job[w].answers, !.auto = TRUE]
                  ELSE handedIn
             stop == IF job[w].status = "GRADED" THEN "passback" ELSE "idle"
  <2>1. at[w] = "submit" /\ Proceed(w, stop) /\ attempt' = [attempt EXCEPT ![i] = r]
    BY <1>7, <1>11 DEF WriteSubmitted, On, Touching
  <2>2. handedIn \in Attempts /\ handedIn.number = old.number /\ handedIn.auto = old.auto
        /\ handedIn.status = job[w].status /\ handedIn.answers = job[w].answers
    BY <1>7, <2>1 DEF Attempts, Jobs, Touching
  <2> HIDE DEF handedIn
  <2>3. r \in Attempts /\ r.number = old.number /\ r.status = job[w].status
        /\ (r.auto = old.auto \/ r.points = r.answers)
    BY <1>7, <2>1, <2>2 DEF Attempts, Jobs, Touching
  <2>4. job[w].status # "DRAFT"
    BY <2>1 DEF Works
  <2> HIDE DEF r
  <2>5. Touches(w, stop)
    BY <2>1, <2>3, <2>4 DEF Touches, Touching
  <2>6. QED
    BY <1>6, <2>1, <2>5 DEF Touching
<1>12. ASSUME at[w] \in {"count", "passback"} \/ Dies(w), Proceed(w, "idle"), attempt' = attempt
       PROVE  Goal
  <2>1. at[w] # "idle" /\ "idle" \in Stops
    BY <1>12 DEF Dies, Stops, GradeStops
  <2>2. ClerkMoves(w, "idle")
    BY <1>12, <2>1, ProceedMoves
  <2>3. ClerkDoes(w, "idle")
    BY <1>12, <2>1, <2>2 DEF ClerkDoes, Touching
  <2>4. QED
    BY <2>3 DEF QuizStops
<1>13. CASE CountAttempts(w)
  <2>1. at[w] = "count" /\ attempt' = attempt
    BY <1>13 DEF CountAttempts, On
  <2>2. CASE ~LimitReached(Len(attempt))
    <3> DEFINE n == Len(attempt) + 1
               what == [NoJob EXCEPT !.number = n]
    <3>1. at' = [at EXCEPT ![w] = "open"] /\ job' = [job EXCEPT ![w] = what]
      BY <1>13, <2>2 DEF CountAttempts
    <3>2. Len(attempt) \in Nat /\ n \in Nat
      BY LenProperties DEF ClerksOK
    <3> HIDE DEF n
    <3>3. what \in Jobs /\ what.number = n
      BY <3>2, NoJobType DEF Jobs
    <3> HIDE DEF what
    <3>4. ClerkMoves(w, "open") /\ job'[w] = what
      BY <2>1, <3>1, <3>3 DEF ClerkMoves, ClerksOK, Stops, QuizStops
    <3>5. Len(attempt) < MaxAttempts[mode]
      <4>1. MaxAttempts[mode] \in Nat
        BY AssessmentsAssumption DEF TablesOK
      <4>2. QED
        BY <2>2, <3>2, <4>1 DEF LimitReached
    <3>6. ClerkDoes(w, "open")
      BY <2>1, <3>3, <3>4, <3>5 DEF n, ClerkDoes, Stops, QuizStops, Touching
    <3>7. QED
      BY <3>6 DEF QuizStops
  <2>3. QED
    BY <1>12, <1>13, <2>1, <2>2 DEF CountAttempts
<1>14. CASE OpenAttempt(w)
  <2> DEFINE r == [number |-> job[w].number, status |-> "DRAFT", answers |-> 0,
                   points |-> 0, auto |-> FALSE, expired |-> FALSE]
  <2>1. at[w] = "open" /\ Proceed(w, "idle") /\ attempt' = Append(attempt, r) /\ "idle" \in Stops
    BY <1>14 DEF OpenAttempt, On, Stops, GradeStops
  <2>2. r \in Attempts /\ r.number = job[w].number /\ ~r.auto
    BY DEF ClerksOK, Jobs, Attempts
  <2> HIDE DEF r
  <2>3. ClerkMoves(w, "idle")
    BY <2>1, ProceedMoves
  <2>4. ClerkDoes(w, "idle")
    BY <2>1, <2>2, <2>3 DEF ClerkDoes, Opens, Touching
  <2>5. QED
    BY <2>4 DEF QuizStops
<1>15. QED
  BY <1>2, <1>3, <1>4, <1>5, <1>8, <1>9, <1>10, <1>11, <1>12, <1>13, <1>14
     DEF QuizCall, TakeQuiz, EndQuizCall, Dies, On

-----------------------------------------------------------------------------
(* What a step of a call on the grade does. *)

Grades == [workflow : {"DRAFT", "SUBMITTED", "APPROVED"}, score : 0..100]

OverrideRows == [asked : BOOLEAN, score : 0..100, approved : BOOLEAN, withdrawn : BOOLEAN,
                 chain : {"none", "open", "over"}]

Sheets == [grade : Grades, amends : BOOLEAN, next : {"idle", "cancel releases", "release"},
           override : Overrides \cup {NoSheet.override}, approves : BOOLEAN]

\* Where a call has an override in hand, and where that is stored.
Settling == {"start chain", "cancel chain", "clamp", "apply", "withdraw", "complete", "refuse"}
Deciding == Settling \cup {"request"}

GradesOK ==
    /\ grade \in Grades /\ resit \in BOOLEAN /\ releases \in Nat
    /\ override \in [Overrides -> OverrideRows]
    /\ sheet \in [Clerks -> Sheets]
    /\ \A w \in Clerks : at[w] \in Deciding => sheet[w].override \in Overrides

\* The call goes on to stop with its sheet of paper.
Papers(w, stop) ==
    /\ ClerkMoves(w, stop) /\ stop \in GradeStops
    /\ sheet' \in [Clerks -> Sheets]
    /\ \A v \in Clerks \ {w} : sheet'[v] = sheet[v]

LEMMA NoSheetType == NoSheet \in Sheets /\ Ungraded \in Grades
<1>1. Ungraded \in Grades
  BY DEF Ungraded, Grades
<1>2. QED
  BY <1>1 DEF NoSheet, Sheets

LEMMA TakePapers ==
    ASSUME ClerksOK, GradesOK, NEW w \in Clerks, NEW stop \in GradeStops, NEW paper \in Sheets,
           Take(w, stop, paper)
    PROVE  Papers(w, stop) /\ at[w] = "idle" /\ sheet'[w] = paper
<1>1. ClerkMoves(w, stop) /\ at[w] = "idle"
  BY BeginMoves, NoJobType DEF Take, Stops
<1>2. QED
  BY <1>1 DEF Take, GradesOK, Papers

LEMMA PreparePapers ==
    ASSUME ClerksOK, GradesOK, NEW w \in Clerks, NEW stop \in GradeStops, NEW paper \in Sheets,
           Prepare(w, stop, paper), at[w] # "idle"
    PROVE  Papers(w, stop) /\ sheet'[w] = paper
<1>1. ClerkMoves(w, stop)
  BY DEF Prepare, ClerksOK, ClerkMoves, Stops
<1>2. QED
  BY <1>1 DEF Prepare, GradesOK, Papers

LEMMA FinishPapers ==
    ASSUME ClerksOK, GradesOK, NEW w \in Clerks, NEW stop \in GradeStops,
           Finish(w, stop), at[w] # "idle"
    PROVE  Papers(w, stop) /\ (stop # "idle" => sheet'[w] = sheet[w])
<1>1. ClerkMoves(w, stop)
  BY ProceedMoves DEF Finish, Stops
<1>2. QED
  BY <1>1, NoSheetType DEF Finish, GradesOK, Papers

\* What is about to be written stays below the cap, or is what is there.
Capped(score) == resit => score <= Cap \/ score = grade.score

GradeWritten(w, stop) ==
    /\ \/ at[w] = "write" /\ stop \in {"idle", "cancel releases", "release"}
       \/ at[w] = "apply" /\ stop = "idle"
    /\ grade' = sheet[w].grade

SameStand(r, old) ==
    r.asked = old.asked /\ r.approved = old.approved /\ r.withdrawn = old.withdrawn

\* How the row of override o becomes r.
Turns(w, stop, o, r) ==
    LET old == override[o]
        inHand == o = sheet[w].override
        goesOn == sheet'[w].override = o
    IN
    \/ /\ at[w] = "request" /\ stop = "start chain" /\ inHand /\ goesOn
       /\ r.asked /\ ~r.approved /\ ~r.withdrawn /\ r.chain = "none"
    \/ at[w] = "start chain" /\ stop = "idle" /\ inHand /\ SameStand(r, old)
    \/ /\ at[w] = "cancel chain" /\ stop \in {"clamp", "withdraw"} /\ inHand /\ goesOn
       /\ SameStand(r, old) /\ r.chain # "open"
    \/ /\ at[w] = "apply" /\ stop = "idle" /\ inHand
       /\ r.asked = old.asked /\ r.approved /\ r.withdrawn = old.withdrawn /\ r.chain = old.chain
    \/ /\ at[w] = "withdraw" /\ stop = "idle" /\ inHand
       /\ r.asked = old.asked /\ r.approved = old.approved
       /\ r.withdrawn = (old.withdrawn \/ Pending(o)) /\ r.chain = old.chain
    \/ /\ at[w] = "refuse" /\ stop = "idle" /\ inHand
       /\ r.asked = old.asked /\ r.approved = old.approved /\ r.withdrawn /\ r.chain = old.chain
    \/ /\ at[w] = "idle" /\ stop \in {"complete", "refuse"} /\ goesOn
       /\ SameStand(r, old) /\ old.chain = "open" /\ r.chain = "over"

OverrideWritten(w, stop) ==
    \E o \in Overrides, r \in OverrideRows :
        override' = [override EXCEPT ![o] = r] /\ Turns(w, stop, o, r)

\* What a step of a call does to the grade and to the overrides, by the stop it goes to.
GradeDoes(w, stop) ==
    /\ Papers(w, stop)
    /\ attempt' = attempt /\ resit' = resit /\ releases' \in Nat
    /\ grade' = grade \/ GradeWritten(w, stop)
    /\ \/ /\ override' = override
          /\ stop \notin {"start chain", "clamp", "withdraw", "complete", "refuse"}
       \/ OverrideWritten(w, stop)
    /\ stop \in Deciding => sheet'[w].override \in Overrides
    /\ stop = "write" => /\ grade' = grade /\ override' = override
                         /\ sheet'[w].amends \/ grade.workflow # "APPROVED"
                         /\ Capped(sheet'[w].grade.score)
    /\ stop = "apply" => /\ grade' = grade /\ override' = override
                         /\ at[w] \in {"clamp", "complete"}
                         /\ sheet'[w].override = sheet[w].override
                         /\ Capped(sheet'[w].grade.score)
    /\ stop = "request" => override' = override /\ ~override[sheet'[w].override].asked
    /\ stop = "cancel chain" => override' = override /\ Pending(sheet'[w].override)

LEMMA GradeDoesClerk ==
    ASSUME NEW w \in Clerks, NEW stop, GradeDoes(w, stop)
    PROVE  ClerkDoes(w, stop)
BY DEF GradeDoes, Papers, ClerkDoes, Stops, GradeStops, QuizStops, Touching

LEMMA ClampedType ==
    ASSUME NEW score \in 0..100
    PROVE  Clamped(score) \in 0..100 /\ Capped(Clamped(score))
BY GradebookAssumption DEF Clamped, Capped

LEMMA GradeStepDoes ==
    ASSUME ClerksOK, GradesOK, NEW w \in Clerks, GradeStep(w)
    PROVE  \E stop : GradeDoes(w, stop)
<1> DEFINE Goal == \E stop : GradeDoes(w, stop)
           rest == UNCHANGED <<attempt, resit>>
\* The call goes on and leaves grade and overrides alone.
<1>1. ASSUME NEW stop \in GradeStops \ (Deciding \cup {"write"}), Papers(w, stop), rest,
             UNCHANGED <<grade, override>>, releases' \in Nat
      PROVE  Goal
  <2>1. GradeDoes(w, stop)
    BY <1>1 DEF GradeDoes, Deciding, Settling
  <2>2. QED
    BY <2>1
\* A grade is about to be written.
<1>2. ASSUME Papers(w, "write"), UNCHANGED <<attempt, resit, grade, override, releases>>,
             sheet'[w].amends \/ grade.workflow # "APPROVED", Capped(sheet'[w].grade.score)
      PROVE  Goal
  <2>1. GradeDoes(w, "write")
    BY <1>2 DEF GradeDoes, Deciding, Settling, GradesOK
  <2>2. QED
    BY <2>1
<1>3. ASSUME NEW change \in Changes, EnterGrade(w, change)
      PROVE  Goal
  <2> DEFINE workflow == IF change.workflow = "none" THEN grade.workflow ELSE change.workflow
             score == IF change.score = 0 THEN grade.score ELSE Clamped(change.score)
             g == [workflow |-> workflow, score |-> score]
             amends == NeedsAuthority(change.workflow)
             next == AfterEntry(change.workflow)
             paper == [NoSheet EXCEPT !.grade = g, !.amends = amends, !.next = next]
  <2>1. /\ Take(w, "write", paper) /\ UNCHANGED <<attempt, grade, resit, releases, override>>
    BY <1>3 DEF EnterGrade
  <2>2. change.workflow \in {"none", "DRAFT", "SUBMITTED", "APPROVED"} /\ change.score \in 0..100
    BY GradebookAssumption DEF Changes
  <2>3. g \in Grades /\ g.score = score /\ Capped(score)
    <3>1. grade.workflow \in {"DRAFT", "SUBMITTED", "APPROVED"} /\ grade.score \in 0..100
      BY DEF GradesOK, Grades
    <3>2. Clamped(change.score) \in 0..100 /\ Capped(Clamped(change.score))
      BY <2>2, ClampedType
    <3>3. Capped(grade.score)
      BY DEF Capped
    <3>4. QED
      BY <2>2, <3>1, <3>2, <3>3 DEF Grades
  <2>4. next \in {"idle", "cancel releases", "release"}
    BY DEF AfterEntry
  <2>5. amends \in BOOLEAN /\ (amends \/ grade.workflow # "APPROVED")
    BY DEF NeedsAuthority
  <2> HIDE DEF g, amends, next
  <2>6. paper \in Sheets /\ paper.grade = g /\ paper.amends = amends
    BY <2>3, <2>4, <2>5, NoSheetType DEF Sheets
  <2> HIDE DEF paper
  <2>7. Papers(w, "write") /\ sheet'[w] = paper
    BY <2>1, <2>6, TakePapers DEF GradeStops
  <2>8. QED
    BY <1>2, <2>1, <2>3, <2>5, <2>6, <2>7
<1>4. CASE Downgrade(w)
  <2> DEFINE g == [grade EXCEPT !.workflow = "DRAFT"]
             paper == [NoSheet EXCEPT !.grade = g]
  <2>1. at[w] = "downgrade" /\ UNCHANGED <<attempt, grade, resit, releases, override>>
    BY <1>4 DEF Downgrade, On
  <2>2. CASE grade.workflow = "SUBMITTED"
    <3>1. Prepare(w, "write", paper)
      BY <1>4, <2>2 DEF Downgrade
    <3>2. g \in Grades /\ g.score = grade.score
      BY DEF GradesOK, Grades
    <3> HIDE DEF g
    <3>3. paper \in Sheets /\ paper.grade = g
      BY <3>2, NoSheetType DEF Sheets
    <3> HIDE DEF paper
    <3>4. Papers(w, "write") /\ sheet'[w] = paper
      BY <2>1, <3>1, <3>3, PreparePapers DEF GradeStops
    <3>5. QED
      BY <1>2, <2>1, <2>2, <3>2, <3>3, <3>4 DEF Capped
  <2>3. CASE Finish(w, "idle")
    BY <1>1, <2>1, <2>3, FinishPapers DEF GradeStops, Deciding, Settling, GradesOK
  <2>4. QED
    BY <1>4, <2>2, <2>3 DEF Downgrade
<1>5. CASE Passback(w)
  <2> DEFINE g == PassedBack(job[w].points)
             paper == [NoSheet EXCEPT !.grade = g]
  <2>1. at[w] = "passback" /\ UNCHANGED <<attempt, grade, resit, releases, override>>
    BY <1>5 DEF Passback, On
  <2>2. CASE grade.workflow # "APPROVED" /\ Prepare(w, "write", paper)
    <3>1. job[w].points \in 0..100
      BY DEF ClerksOK, Jobs
    <3>2. g \in Grades /\ g.score = Clamped(job[w].points) /\ Capped(Clamped(job[w].points))
      BY <3>1, ClampedType DEF GradesOK, Grades, PassedBack
    <3> HIDE DEF g
    <3>3. paper \in Sheets /\ paper.grade = g
      BY <3>2, NoSheetType DEF Sheets
    <3> HIDE DEF paper
    <3>4. Papers(w, "write") /\ sheet'[w] = paper
      BY <2>1, <2>2, <3>3, PreparePapers DEF GradeStops
    <3>5. QED
      BY <1>2, <2>1, <2>2, <3>2, <3>3, <3>4
  <2>3. CASE Finish(w, "idle")
    BY <1>1, <2>1, <2>3, FinishPapers DEF GradeStops, Deciding, Settling, GradesOK
  <2>4. QED
    BY <1>5, <2>2, <2>3 DEF Passback
<1>6. CASE WriteGrade(w)
  <2> DEFINE stop == sheet[w].next
  <2>1. at[w] = "write" /\ Finish(w, stop) /\ grade' = sheet[w].grade
        /\ UNCHANGED <<attempt, resit, releases, override>>
    BY <1>6 DEF WriteGrade, On
  <2>2. stop \in {"idle", "cancel releases", "release"}
    BY DEF GradesOK, Sheets
  <2> HIDE DEF stop
  <2>3. Papers(w, stop)
    BY <2>1, <2>2, FinishPapers DEF GradeStops
  <2>4. GradeDoes(w, stop)
    BY <2>1, <2>2, <2>3 DEF GradeDoes, GradeWritten, Deciding, Settling, GradesOK
  <2>5. QED
    BY <2>4
<1>7. CASE CancelReleases(w) \/ StartRelease(w)
  <2>1. at[w] # "idle" /\ Finish(w, "idle") /\ UNCHANGED <<attempt, grade, resit, override>>
        /\ releases' \in {0, releases, releases + 1}
    BY <1>7 DEF CancelReleases, StartRelease, On
  <2>2. releases' \in Nat
    BY <2>1 DEF GradesOK
  <2>3. QED
    BY <1>1, <2>1, <2>2, FinishPapers DEF GradeStops, Deciding, Settling
<1>8. CASE ReleaseRefused(w)
  <2>1. Take(w, "downgrade", NoSheet) /\ UNCHANGED <<attempt, grade, resit, override>> /\ releases' \in Nat
    BY <1>8 DEF ReleaseRefused, GradesOK
  <2>2. QED
    BY <1>1, <2>1, TakePapers, NoSheetType DEF GradeStops, Deciding, Settling
<1>9. CASE GradingDies(w)
  <2>1. at[w] # "idle" /\ Finish(w, "idle") /\ UNCHANGED <<attempt, grade, resit, releases, override>>
    BY <1>9 DEF GradingDies, Dies, Finish
  <2>2. QED
    BY <1>1, <2>1, FinishPapers DEF GradeStops, Deciding, Settling, GradesOK
<1>10. ASSUME NEW points \in Earned \cup Given, Graded(w, points)
       PROVE  Goal
  <2> DEFINE what == [NoJob EXCEPT !.points = points]
  <2>1. what \in Jobs
    <3>1. points \in 0..100
      BY AssessmentsAssumption
    <3>2. QED
      BY <3>1, NoJobType DEF Jobs
  <2>2. Begin(w, "passback", what) /\ UNCHANGED <<attempt, grade, resit, releases, override, sheet>>
    BY <1>10 DEF Graded, gradeVars
  <2> HIDE DEF what
  <2>3. ClerkMoves(w, "passback")
    BY <2>1, <2>2, BeginMoves DEF Stops, GradeStops
  <2>4. Papers(w, "passback")
    BY <2>2, <2>3 DEF Papers, GradeStops, GradesOK
  <2>5. QED
    BY <1>1, <2>2, <2>4 DEF GradeStops, Deciding, Settling, GradesOK
<1>11. ASSUME NEW o \in Overrides, NEW s \in Proposed, RequestOverride(w, o, s)
       PROVE  Goal
  <2> DEFINE g == [NoSheet.grade EXCEPT !.score = s]
             paper == [NoSheet EXCEPT !.override = o, !.grade = g]
  <2>1. Take(w, "request", paper) /\ UNCHANGED <<attempt, grade, resit, releases, override>>
        /\ ~override[o].asked
    BY <1>11, NoSheetType DEF RequestOverride, Sheets
  <2>2. g \in Grades
    BY GradebookAssumption, NoSheetType DEF Sheets, Grades
  <2> HIDE DEF g
  <2>3. paper \in Sheets /\ paper.override = o
    BY <2>2, NoSheetType DEF Sheets
  <2> HIDE DEF paper
  <2>4. Papers(w, "request") /\ sheet'[w] = paper
    BY <2>1, <2>3, TakePapers DEF GradeStops
  <2>5. GradeDoes(w, "request")
    BY <2>1, <2>3, <2>4 DEF GradeDoes, GradesOK
  <2>6. QED
    BY <2>5
<1>12. ASSUME NEW o \in Overrides, NEW approves \in BOOLEAN, DecideOverride(w, o, approves)
       PROVE  Goal
  <2> DEFINE paper == [NoSheet EXCEPT !.override = o, !.approves = approves]
  <2>1. Take(w, "cancel chain", paper) /\ UNCHANGED <<attempt, grade, resit, releases, override>>
        /\ Pending(o)
    BY <1>12 DEF DecideOverride
  <2>2. paper \in Sheets /\ paper.override = o
    BY NoSheetType DEF Sheets
  <2> HIDE DEF paper
  <2>3. Papers(w, "cancel chain") /\ sheet'[w] = paper
    BY <2>1, <2>2, TakePapers DEF GradeStops
  <2>4. GradeDoes(w, "cancel chain")
    BY <2>1, <2>2, <2>3 DEF GradeDoes, GradesOK
  <2>5. QED
    BY <2>4
\* The row of an override is written.
<1>13. ASSUME NEW stop \in GradeStops \ {"write", "apply", "request", "cancel chain"}, Papers(w, stop), rest,
              grade' = grade \/ GradeWritten(w, stop), releases' = releases,
              OverrideWritten(w, stop), stop \in Deciding => sheet'[w].override \in Overrides
       PROVE  Goal
  <2>1. GradeDoes(w, stop)
    BY <1>13 DEF GradeDoes, GradesOK
  <2>2. QED
    BY <2>1
<1>14. ASSUME NEW o \in Overrides, NEW approves \in BOOLEAN, ChainDecides(w, o, approves)
       PROVE  Goal
  <2> DEFINE paper == [NoSheet EXCEPT !.override = o]
             r == [override[o] EXCEPT !.chain = "over"]
             stop == IF approves THEN "complete" ELSE "refuse"
  <2>1. Take(w, stop, paper) /\ UNCHANGED <<attempt, grade, resit, releases>>
        /\ override[o].chain = "open" /\ override' = [override EXCEPT ![o] = r]
    BY <1>14 DEF ChainDecides, Set
  <2>2. paper \in Sheets /\ paper.override = o
    BY NoSheetType DEF Sheets
  <2>3. r \in OverrideRows /\ SameStand(r, override[o]) /\ r.chain = "over"
    BY DEF GradesOK, OverrideRows, SameStand
  <2>4. stop \in {"complete", "refuse"} /\ stop \in GradeStops
    BY DEF GradeStops
  <2> HIDE DEF paper, r, stop
  <2>5. Papers(w, stop) /\ sheet'[w] = paper /\ at[w] = "idle"
    BY <2>1, <2>2, <2>4, TakePapers
  <2>6. Turns(w, stop, o, r)
    BY <2>1, <2>2, <2>3, <2>4, <2>5 DEF Turns
  <2>7. OverrideWritten(w, stop)
    BY <2>1, <2>3, <2>6 DEF OverrideWritten
  <2>8. QED
    BY <1>13, <2>1, <2>2, <2>4, <2>5, <2>7 DEF GradeStops
<1> DEFINE o == sheet[w].override
           old == override[o]
<1>15. at[w] \in Deciding => o \in Overrides /\ old \in OverrideRows /\ sheet[w] \in Sheets
  BY DEF GradesOK
\* A call with an override in hand writes its row and goes on.
<1>16. ASSUME at[w] \in Deciding, NEW stop \in {"idle", "start chain", "clamp", "withdraw"}, Finish(w, stop),
              rest, releases' = releases, grade' = grade \/ GradeWritten(w, stop),
              NEW r \in OverrideRows, override' = [override EXCEPT ![o] = r],
              sheet'[w].override = o => Turns(w, stop, o, r), stop = "idle" => Turns(w, stop, o, r)
       PROVE  Goal
  <2>1. Papers(w, stop) /\ (stop # "idle" => sheet'[w] = sheet[w])
    BY <1>16, FinishPapers DEF GradeStops, Deciding, Settling
  <2>2. OverrideWritten(w, stop)
    BY <1>15, <1>16, <2>1 DEF OverrideWritten
  <2>3. QED
    BY <1>13, <1>15, <1>16, <2>1, <2>2 DEF GradeStops, Deciding, Settling
<1>17. CASE StoreOverride(w)
  <2> DEFINE r == [NoOverride EXCEPT !.asked = TRUE, !.score = sheet[w].grade.score]
  <2>1. at[w] = "request" /\ Finish(w, "start chain") /\ rest /\ UNCHANGED <<grade, releases>>
        /\ override' = [override EXCEPT ![o] = r]
    BY <1>17 DEF StoreOverride, Set, On
  <2>2. r \in OverrideRows /\ r.asked /\ ~r.approved /\ ~r.withdrawn /\ r.chain = "none"
    <3>1. sheet[w].grade.score \in 0..100
      BY <1>15, <2>1 DEF Sheets, Grades, Deciding
    <3>2. /\ NoOverride \in OverrideRows /\ ~NoOverride.approved /\ ~NoOverride.withdrawn
          /\ NoOverride.chain = "none"
      BY DEF NoOverride, OverrideRows
    <3>3. QED
      BY <3>1, <3>2 DEF OverrideRows
  <2> HIDE DEF r
  <2>3. sheet'[w].override = o => Turns(w, "start chain", o, r)
    BY <2>1, <2>2 DEF Turns
  <2>4. QED
    BY <1>16, <2>1, <2>2, <2>3 DEF Deciding
<1>18. CASE StartChain(w)
  <2>1. at[w] = "start chain" /\ Finish(w, "idle") /\ rest /\ UNCHANGED <<grade, releases>>
    BY <1>18 DEF StartChain, On
  <2>2. PICK c \in {"open", "none"} : override' = [override EXCEPT ![o] = [old EXCEPT !.chain = c]]
    BY <1>18 DEF StartChain, Set
  <2> DEFINE r == [old EXCEPT !.chain = c]
  <2>3. r \in OverrideRows /\ SameStand(r, old)
    BY <1>15, <2>1 DEF OverrideRows, SameStand, Deciding, Settling
  <2>4. override' = [override EXCEPT ![o] = r]
    BY <2>2
  <2> HIDE DEF r
  <2>5. Turns(w, "idle", o, r)
    BY <2>1, <2>3 DEF Turns
  <2>6. QED
    BY <1>16, <2>1, <2>3, <2>4, <2>5 DEF Deciding, Settling
<1>19. CASE CancelChain(w)
  <2> DEFINE r == [old EXCEPT !.chain = Cancelled(@)]
             stop == IF sheet[w].approves THEN "clamp" ELSE "withdraw"
  <2>1. at[w] = "cancel chain" /\ Finish(w, stop) /\ rest /\ UNCHANGED <<grade, releases>>
        /\ override' = [override EXCEPT ![o] = r]
    BY <1>19 DEF CancelChain, Set, On
  <2>2. r \in OverrideRows /\ SameStand(r, old) /\ r.chain # "open"
    BY <1>15, <2>1 DEF OverrideRows, SameStand, Deciding, Settling, Cancelled
  <2>3. stop \in {"clamp", "withdraw"}
    OBVIOUS
  <2> HIDE DEF r, stop
  <2>4. sheet'[w].override = o => Turns(w, stop, o, r)
    BY <2>1, <2>2, <2>3 DEF Turns
  <2>5. QED
    BY <1>16, <2>1, <2>2, <2>3, <2>4 DEF Deciding, Settling
<1>20. CASE Apply(w)
  <2> DEFINE r == [old EXCEPT !.approved = TRUE]
  <2>1. at[w] = "apply" /\ Finish(w, "idle") /\ rest /\ UNCHANGED releases
        /\ grade' = sheet[w].grade /\ override' = [override EXCEPT ![o] = r]
    BY <1>20 DEF Apply, Set, On
  <2>2. r \in OverrideRows /\ r.asked = old.asked /\ r.approved /\ r.withdrawn = old.withdrawn
        /\ r.chain = old.chain
    BY <1>15, <2>1 DEF OverrideRows, Deciding, Settling
  <2> HIDE DEF r
  <2>3. Turns(w, "idle", o, r) /\ GradeWritten(w, "idle")
    BY <2>1, <2>2 DEF Turns, GradeWritten
  <2>4. QED
    BY <1>16, <2>1, <2>2, <2>3 DEF Deciding, Settling
<1>21. CASE Withdraw(w)
  <2> DEFINE r == [old EXCEPT !.withdrawn = @ \/ Pending(o)]
  <2>1. at[w] = "withdraw" /\ Finish(w, "idle") /\ rest /\ UNCHANGED <<grade, releases>>
        /\ override' = [override EXCEPT ![o] = r]
    BY <1>21 DEF Withdraw, Set, On
  <2>2. r \in OverrideRows /\ r.asked = old.asked /\ r.approved = old.approved
        /\ r.withdrawn = (old.withdrawn \/ Pending(o)) /\ r.chain = old.chain
    BY <1>15, <2>1 DEF OverrideRows, Deciding, Settling
  <2> HIDE DEF r
  <2>3. Turns(w, "idle", o, r)
    BY <2>1, <2>2 DEF Turns
  <2>4. QED
    BY <1>16, <2>1, <2>2, <2>3 DEF Deciding, Settling
<1>22. CASE Refuse(w)
  <2> DEFINE r == [old EXCEPT !.withdrawn = TRUE]
  <2>1. at[w] = "refuse" /\ Finish(w, "idle") /\ rest /\ UNCHANGED <<grade, releases>>
        /\ override' = [override EXCEPT ![o] = r]
    BY <1>22 DEF Refuse, Set, On
  <2>2. r \in OverrideRows /\ r.asked = old.asked /\ r.approved = old.approved
        /\ r.withdrawn /\ r.chain = old.chain
    BY <1>15, <2>1 DEF OverrideRows, Deciding, Settling
  <2> HIDE DEF r
  <2>3. Turns(w, "idle", o, r)
    BY <2>1, <2>2 DEF Turns
  <2>4. QED
    BY <1>16, <2>1, <2>2, <2>3 DEF Deciding, Settling
\* The proposal of the override in hand is about to be applied.
<1>23. ASSUME at[w] \in {"clamp", "complete"},
              Prepare(w, "apply", [sheet[w] EXCEPT !.grade = Proposal(o)]),
              UNCHANGED <<attempt, grade, resit, releases, override>>
       PROVE  Goal
  <2> DEFINE g == Proposal(o)
             paper == [sheet[w] EXCEPT !.grade = g]
  <2>1. o \in Overrides /\ old \in OverrideRows /\ sheet[w] \in Sheets
    BY <1>15, <1>23 DEF Deciding, Settling
  <2>2. g \in Grades /\ Capped(g.score)
    <3>1. old.score \in 0..100
      BY <2>1 DEF OverrideRows
    <3>2. Clamped(old.score) \in 0..100 /\ Capped(Clamped(old.score))
      BY <3>1, ClampedType
    <3>3. QED
      BY <3>2 DEF Proposal, Grades
  <2>3. Prepare(w, "apply", paper)
    BY <1>23
  <2> HIDE DEF g
  <2>4. paper \in Sheets /\ paper.grade = g /\ paper.override = o
    BY <2>1, <2>2 DEF Sheets
  <2> HIDE DEF paper
  <2>5. Papers(w, "apply") /\ sheet'[w] = paper
    BY <1>23, <2>3, <2>4, PreparePapers DEF GradeStops
  <2>6. GradeDoes(w, "apply")
    BY <1>23, <2>1, <2>2, <2>4, <2>5 DEF GradeDoes, GradesOK
  <2>7. QED
    BY <2>6
<1>24. CASE Clamp(w)
  BY <1>23, <1>24 DEF Clamp, On
<1>25. CASE Complete(w)
  <2>1. CASE Pending(o)
    BY <1>23, <1>25, <2>1 DEF Complete, On
  <2>2. CASE ~Pending(o)
    <3>1. at[w] = "complete" /\ Finish(w, "idle") /\ UNCHANGED <<attempt, grade, resit, releases, override>>
      BY <1>25, <2>2 DEF Complete, On
    <3>2. QED
      BY <1>1, <3>1, FinishPapers DEF GradeStops, Deciding, Settling, GradesOK
  <2>3. QED
    BY <2>1, <2>2
<1>26. QED
  BY <1>3, <1>4, <1>5, <1>6, <1>7, <1>8, <1>9, <1>10, <1>11, <1>12, <1>14, <1>17, <1>18, <1>19,
     <1>20, <1>21, <1>22, <1>24, <1>25 DEF GradeStep

-----------------------------------------------------------------------------
(* What any step does to attempts and grades, and that their types stand it. *)

GradebookDoes ==
    \/ UNCHANGED <<assessmentVars, gradeVars>>
    \/ Quiet /\ UNCHANGED gradeVars /\ \E i \in DOMAIN attempt : Expire(i)
    \/ \E w \in Clerks, stop \in QuizStops \cup {"idle", "passback"} :
          ClerkDoes(w, stop) /\ UNCHANGED gradeVars
    \/ Quiet /\ UNCHANGED <<assessmentVars, grade, override, sheet>> /\ resit' \in BOOLEAN /\ releases' \in Nat
    \/ \E w \in Clerks : \E stop : GradeDoes(w, stop)

Kept == AttemptsOK /\ GradesOK

LEMMA GradebookStep ==
    ASSUME Registration, Kept, [GradebookNext]_<<vars, gradebookVars>>
    PROVE  mode' = mode /\ GradebookDoes
<1>1. /\ TablesOK /\ Registered /\ ClerksOK /\ GradesOK /\ \A w \in Clerks : Works(w)
  BY DEF Registration, Seated, Registered, Kept, AttemptsOK
<1>2. mode' = mode
  <2>1. [Registers]_vars
    BY RegistersInGradebook
  <2>2. QED
    BY <1>1, <2>1, HandlerStep, StatementStep DEF Registers, Does, StatementDoes, vars
<1>3. ASSUME UNCHANGED gradebookVars PROVE GradebookDoes
  BY <1>3 DEF gradebookVars, GradebookDoes
<1>4. ASSUME QuizStep, UNCHANGED gradeVars PROVE GradebookDoes
  <2>1. ASSUME NEW w \in Clerks, QuizCall(w) PROVE GradebookDoes
    <3>1. PICK stop \in QuizStops \cup {"idle", "passback"} : ClerkDoes(w, stop)
      BY <1>1, <2>1, QuizCallDoes
    <3>2. QED
      BY <1>4, <3>1 DEF GradebookDoes
  <2>2. CASE Quiet /\ \E i \in DOMAIN attempt : Expire(i)
    BY <1>4, <2>2 DEF GradebookDoes
  <2>3. QED
    BY <1>4, <2>1, <2>2 DEF QuizStep, QuizCall
<1>5. ASSUME RegisterResit \/ ReleaseApproved PROVE GradebookDoes
  <2>1. Quiet /\ UNCHANGED <<assessmentVars, grade, override, sheet>>
    BY <1>5 DEF RegisterResit, ReleaseApproved
  <2>2. resit \in BOOLEAN /\ releases \in Nat
    BY <1>1 DEF GradesOK
  <2>3. resit' \in BOOLEAN
    BY <1>5, <2>2 DEF RegisterResit, ReleaseApproved
  <2>4. releases' = releases \/ (releases > 0 /\ releases' = releases - 1)
    BY <1>5 DEF RegisterResit, ReleaseApproved
  <2>5. releases' \in Nat
    BY <2>2, <2>4
  <2>6. QED
    BY <2>1, <2>3, <2>5 DEF GradebookDoes
<1>6. ASSUME NEW w \in Clerks, GradeStep(w) PROVE GradebookDoes
  BY <1>1, <1>6, GradeStepDoes DEF GradebookDoes
<1>7. GradebookDoes
  BY <1>3, <1>4, <1>5, <1>6 DEF GradebookNext, TakerStep, gradebookVars
<1>8. QED
  BY <1>2, <1>7

\* The attempts after call w wrote the one it is about.
LEMMA Touched ==
    ASSUME ClerksOK, NEW w \in Clerks, Works(w), NEW stop, Touches(w, stop)
    PROVE  LET i == job[w].about IN
           /\ i \in DOMAIN attempt
           /\ attempt' \in Seq(Attempts) /\ Len(attempt') = Len(attempt)
           /\ DOMAIN attempt' = DOMAIN attempt
           /\ \A j \in DOMAIN attempt \ {i} : attempt'[j] = attempt[j]
           /\ attempt'[i].number = attempt[i].number
           /\ at[w] = "save" => /\ attempt'[i].status = attempt[i].status
                                /\ attempt'[i].auto = attempt[i].auto
           /\ at[w] # "save" => attempt'[i].status # "DRAFT"
           /\ at[w] = "grade" => ~attempt'[i].auto
           /\ \/ ~attempt'[i].auto
              \/ attempt'[i].auto = attempt[i].auto
              \/ at[w] = "submit" /\ attempt'[i].points = attempt'[i].answers
<1> DEFINE i == job[w].about
<1>1. PICK r \in Attempts :
        /\ at[w] \in Touching
        /\ attempt' = [attempt EXCEPT ![i] = r]
        /\ r.number = attempt[i].number
        /\ IF at[w] = "save" THEN r.status = attempt[i].status /\ r.auto = attempt[i].auto
           ELSE r.status # "DRAFT"
        /\ at[w] = "grade" => ~r.auto
        /\ ~r.auto \/ r.auto = attempt[i].auto \/ (at[w] = "submit" /\ r.points = r.answers)
  BY DEF Touches
<1>2. i \in DOMAIN attempt /\ DOMAIN attempt = 1 .. Len(attempt)
  BY <1>1, LenProperties DEF Works, ClerksOK
<1>3. /\ attempt' \in Seq(Attempts) /\ Len(attempt') = Len(attempt)
      /\ \A j \in DOMAIN attempt : attempt'[j] = IF j = i THEN r ELSE attempt[j]
  BY <1>1, <1>2, ExceptSeq DEF ClerksOK
<1>4. DOMAIN attempt' = DOMAIN attempt
  BY <1>1
<1>5. QED
  BY <1>1, <1>2, <1>3, <1>4

LEMMA Opened ==
    ASSUME ClerksOK, NEW w, NEW stop, Opens(w, stop)
    PROVE  LET n == Len(attempt) + 1 IN
           /\ attempt' \in Seq(Attempts) /\ Len(attempt) \in Nat /\ Len(attempt') = n
           /\ DOMAIN attempt' = DOMAIN attempt \cup {n} /\ n \notin DOMAIN attempt
           /\ \A j \in DOMAIN attempt : attempt'[j] = attempt[j] /\ j \in 1 .. Len(attempt)
           /\ attempt'[n].number = job[w].number /\ ~attempt'[n].auto
<1>1. PICK r \in Attempts : attempt' = Append(attempt, r) /\ r.number = job[w].number /\ ~r.auto
  BY DEF Opens
<1>2. attempt \in Seq(Attempts) /\ Len(attempt) \in Nat /\ DOMAIN attempt = 1 .. Len(attempt)
  BY LenProperties DEF ClerksOK
<1>3. /\ attempt' \in Seq(Attempts) /\ Len(attempt') = Len(attempt) + 1
      /\ \A j \in 1 .. Len(attempt) : attempt'[j] = attempt[j]
      /\ attempt'[Len(attempt) + 1] = r
  BY <1>1, <1>2, AppendProperties
<1>4. DOMAIN attempt' = 1 .. (Len(attempt) + 1)
  BY <1>3, LenProperties
<1>5. QED
  BY <1>1, <1>2, <1>3, <1>4

LEMMA Expired ==
    ASSUME ClerksOK, NEW i \in DOMAIN attempt, Expire(i)
    PROVE  /\ attempt' \in Seq(Attempts) /\ Len(attempt') = Len(attempt)
           /\ DOMAIN attempt' = DOMAIN attempt
           /\ \A j \in DOMAIN attempt :
                 /\ attempt'[j].number = attempt[j].number
                 /\ attempt'[j].status = attempt[j].status /\ attempt'[j].auto = attempt[j].auto
                 /\ attempt'[j].points = attempt[j].points
                 /\ attempt'[j].answers = attempt[j].answers
           /\ UNCHANGED <<at, job>>
<1> DEFINE r == [attempt[i] EXCEPT !.expired = TRUE]
<1>1. attempt[i] \in Attempts
  BY AttemptType
<1>2. /\ r \in Attempts /\ r.number = attempt[i].number /\ r.status = attempt[i].status
      /\ r.auto = attempt[i].auto /\ r.points = attempt[i].points /\ r.answers = attempt[i].answers
  BY <1>1 DEF Attempts
<1>3. attempt' = [attempt EXCEPT ![i] = r] /\ UNCHANGED <<at, job>>
  BY DEF Expire
<1> HIDE DEF r
<1>4. DOMAIN attempt = 1 .. Len(attempt)
  BY LenProperties DEF ClerksOK
<1>5. /\ attempt' \in Seq(Attempts) /\ Len(attempt') = Len(attempt)
      /\ \A j \in DOMAIN attempt : attempt'[j] = IF j = i THEN r ELSE attempt[j]
  BY <1>2, <1>3, <1>4, ExceptSeq DEF ClerksOK
<1>6. QED
  BY <1>2, <1>3, <1>5

LEMMA ClerkKeeps ==
    ASSUME AttemptsOK, NEW w \in Clerks, NEW stop, ClerkDoes(w, stop)
    PROVE  AttemptsOK'
<1>1. ClerksOK /\ DraftsUnscored /\ \A v \in Clerks : Works(v)
  BY DEF AttemptsOK
<1>2. attempt' \in Seq(Attempts) /\ DOMAIN attempt \subseteq DOMAIN attempt'
  <2>1. CASE attempt' = attempt
    BY <1>1, <2>1 DEF ClerksOK
  <2>2. CASE Touches(w, stop)
    BY <1>1, <2>2, Touched
  <2>3. CASE Opens(w, stop)
    BY <1>1, <2>3, Opened
  <2>4. QED
    BY <2>1, <2>2, <2>3 DEF ClerkDoes
<1>3. ClerksOK'
  BY <1>2 DEF ClerkDoes, ClerkMoves, ClerksOK
<1>4. DraftsUnscored'
  <2>1. CASE attempt' = attempt
    BY <1>1, <2>1 DEF DraftsUnscored, Drafts
  <2>2. CASE Touches(w, stop)
    BY <1>1, <2>2, Touched DEF DraftsUnscored, Drafts
  <2>3. CASE Opens(w, stop)
    BY <1>1, <2>3, Opened DEF DraftsUnscored, Drafts
  <2>4. QED
    BY <2>1, <2>2, <2>3 DEF ClerkDoes
<1>5. ASSUME NEW v \in Clerks \ {w} PROVE Works(v)'
  BY <1>1, <1>2 DEF ClerkDoes, ClerkMoves, Works
<1>6. Works(w)'
  BY <1>2 DEF ClerkDoes, ClerkMoves, Works, Touching, Drafts
<1>7. QED
  BY <1>3, <1>4, <1>5, <1>6 DEF AttemptsOK

LEMMA GradeKeeps ==
    ASSUME GradesOK, NEW w \in Clerks, NEW stop, GradeDoes(w, stop)
    PROVE  GradesOK'
<1>1. grade' \in Grades
  BY DEF GradeDoes, GradeWritten, GradesOK, Sheets
<1>2. override' \in [Overrides -> OverrideRows]
  BY DEF GradeDoes, OverrideWritten, GradesOK
<1>3. ASSUME NEW v \in Clerks, at'[v] \in Deciding PROVE sheet'[v].override \in Overrides
  BY <1>3 DEF GradeDoes, Papers, ClerkMoves, GradesOK
<1>4. QED
  BY <1>1, <1>2, <1>3 DEF GradeDoes, Papers, GradesOK

LEMMA KeptStep ==
    ASSUME Registration, Kept, [GradebookNext]_<<vars, gradebookVars>>
    PROVE  Kept'
<1>1. GradebookDoes /\ AttemptsOK /\ GradesOK
  BY GradebookStep DEF Kept
<1>2. CASE UNCHANGED <<assessmentVars, gradeVars>>
  BY <1>1, <1>2 DEF assessmentVars, gradeVars, Kept, AttemptsOK, ClerksOK, DraftsUnscored, Drafts,
                    Works, GradesOK
<1>3. ASSUME NEW i \in DOMAIN attempt, Expire(i), UNCHANGED gradeVars PROVE Kept'
  <2>1. AttemptsOK'
    BY <1>1, <1>3, Expired DEF AttemptsOK, ClerksOK, DraftsUnscored, Drafts, Works
  <2>2. GradesOK'
    BY <1>1, <1>3 DEF Expire, GradesOK, gradeVars
  <2>3. QED
    BY <2>1, <2>2 DEF Kept
<1>4. ASSUME NEW w \in Clerks, NEW stop \in QuizStops \cup {"idle", "passback"}, ClerkDoes(w, stop),
             UNCHANGED gradeVars
      PROVE  Kept'
  <2>1. AttemptsOK'
    BY <1>1, <1>4, ClerkKeeps
  <2>2. GradesOK'
    BY <1>1, <1>4 DEF ClerkDoes, ClerkMoves, GradesOK, gradeVars, Deciding, Settling, QuizStops
  <2>3. QED
    BY <2>1, <2>2 DEF Kept
<1>5. CASE UNCHANGED <<assessmentVars, grade, override, sheet>> /\ resit' \in BOOLEAN /\ releases' \in Nat
  BY <1>1, <1>5 DEF assessmentVars, Kept, AttemptsOK, ClerksOK, DraftsUnscored, Drafts, Works, GradesOK
<1>6. ASSUME NEW w \in Clerks, NEW stop, GradeDoes(w, stop) PROVE Kept'
  BY <1>1, <1>6, GradeDoesClerk, ClerkKeeps, GradeKeeps DEF Kept
<1>7. QED
  BY <1>1, <1>2, <1>3, <1>4, <1>5, <1>6 DEF GradebookDoes

LEMMA KeptInit == GradebookInit => Kept
<1>1. SUFFICES ASSUME GradebookInit PROVE Kept
  OBVIOUS
<1>2. AttemptsOK
  <2>1. attempt \in Seq(Attempts) /\ DOMAIN attempt = {}
    BY <1>1, EmptySeq DEF GradebookInit, AssessmentsInit
  <2>2. QED
    BY <1>1, <2>1, NoJobType
       DEF GradebookInit, AssessmentsInit, AttemptsOK, ClerksOK, DraftsUnscored, Drafts, Works, Touching,
           Stops, GradeStops
<1>3. NoOverride \in OverrideRows
  BY DEF NoOverride, OverrideRows
<1>4. GradesOK
  BY <1>1, <1>3, NoSheetType
     DEF GradebookInit, AssessmentsInit, GradesOK, Deciding, Settling
<1>5. QED
  BY <1>2, <1>4 DEF Kept

-----------------------------------------------------------------------------
(* The number of attempts *)

BusyClerks == {w \in Clerks : at[w] # "idle"}

\* Calls that counted less attempts than the quiz allows and have not opened one yet.
Opening == {w \in Clerks : at[w] = "open"}

Counts ==
    /\ Cardinality(BusyClerks) <= Slots
    /\ Len(attempt) + Cardinality(Opening) < MaxAttempts[mode] + Slots

LEMMA ClerksCounted ==
    /\ \A T \in SUBSET Clerks : IsFiniteSet(T) /\ Cardinality(T) \in Nat
    /\ \A S, T \in SUBSET Clerks : S \subseteq T => Cardinality(S) <= Cardinality(T)
<1>1. IsFiniteSet(Clerks)
  BY AssessmentsAssumption
<1>2. \A T \in SUBSET Clerks : IsFiniteSet(T) /\ Cardinality(T) \in Nat
  BY <1>1, FS_Subset, FS_CardinalityType
<1>3. QED
  BY <1>2, FS_Subset

LEMMA BusyBounds == Cardinality(BusyClerks) \in Nat /\ Cardinality(BusyClerks) <= Busy
<1> DEFINE H == {h \in Handlers : pc[h] # "idle"}
           U == H \cup BusyClerks
<1>1. BusyClerks \in SUBSET Clerks /\ H \in SUBSET Handlers
  BY DEF BusyClerks
<1>2. IsFiniteSet(BusyClerks) /\ IsFiniteSet(H)
  BY <1>1, ClerksCounted, Counted
<1>3. IsFiniteSet(U)
  BY <1>2, FS_Union
<1>4. BusyClerks \in SUBSET U
  OBVIOUS
<1>5. Cardinality(BusyClerks) <= Cardinality(U)
  BY <1>3, <1>4, FS_Subset
<1>6. Busy = Cardinality(U)
  BY DEF Busy, BusyClerks
<1>7. QED
  BY <1>2, <1>5, <1>6, FS_CardinalityType

LEMMA SlotsType ==
    ASSUME TablesOK
    PROVE  Slots \in Nat /\ Slots > 0 /\ MaxAttempts[mode] \in Nat
BY AssessmentsAssumption DEF TablesOK, Slots

LEMMA BusyStays ==
    ASSUME TablesOK, ClerksOK, Counts, mode' = mode, NEW w \in Clerks, NEW stop, ClerkMoves(w, stop)
    PROVE  Cardinality(BusyClerks') <= Slots
<1>1. /\ BusyClerks \in SUBSET Clerks /\ BusyClerks' \in SUBSET Clerks
      /\ BusyClerks' \subseteq BusyClerks \cup {w}
  BY DEF BusyClerks, ClerkMoves
<1>2. IsFiniteSet(BusyClerks) /\ Cardinality(BusyClerks) \in Nat /\ Cardinality(BusyClerks') \in Nat
  BY <1>1, ClerksCounted
<1>3. CASE at[w] = "idle"
  <2>1. Cardinality(BusyClerks) < Slots
    <3>1. Busy < Slots
      BY <1>3 DEF ClerkMoves
    <3>2. IsFiniteSet({h \in Handlers : pc[h] # "idle"} \cup BusyClerks)
      <4>1. IsFiniteSet({h \in Handlers : pc[h] # "idle"})
        BY Counted
      <4>2. QED
        BY <1>2, <4>1, FS_Union
    <3>3. Busy \in Nat
      BY <3>2, FS_CardinalityType DEF Busy, BusyClerks
    <3>4. QED
      BY <1>2, <3>1, <3>3, BusyBounds, SlotsType
  <2>2. /\ IsFiniteSet(BusyClerks \cup {w})
        /\ Cardinality(BusyClerks \cup {w})
              = IF w \in BusyClerks THEN Cardinality(BusyClerks) ELSE Cardinality(BusyClerks) + 1
    BY <1>2, FS_AddElement
  <2>3. Cardinality(BusyClerks') <= Cardinality(BusyClerks \cup {w})
    BY <1>1, <2>2, FS_Subset
  <2>4. QED
    BY <1>2, <2>1, <2>2, <2>3, SlotsType
<1>4. CASE at[w] # "idle"
  <2>1. BusyClerks' \subseteq BusyClerks
    BY <1>1, <1>4 DEF BusyClerks
  <2>2. Cardinality(BusyClerks') <= Cardinality(BusyClerks)
    BY <1>1, <2>1, ClerksCounted
  <2>3. QED
    BY <1>2, <2>2, SlotsType DEF Counts
<1>5. QED
  BY <1>3, <1>4

LEMMA ClerkCounts ==
    ASSUME TablesOK, AttemptsOK, Counts, mode' = mode, NEW w \in Clerks, NEW stop, ClerkDoes(w, stop)
    PROVE  Counts'
<1>1. ClerksOK /\ Works(w) /\ ClerkMoves(w, stop)
  BY DEF AttemptsOK, ClerkDoes
<1>2. Slots' = Slots /\ MaxAttempts[mode]' = MaxAttempts[mode]
  BY DEF Slots
<1>3. Cardinality(BusyClerks') <= Slots
  BY <1>1, BusyStays
<1>4. Opening \in SUBSET Clerks /\ Opening' \in SUBSET Clerks /\ Opening' \subseteq Opening \cup {w}
  BY <1>1 DEF Opening, ClerkMoves
<1>5. /\ Cardinality(Opening) \in Nat /\ Cardinality(Opening') \in Nat /\ IsFiniteSet(Opening)
      /\ Len(attempt) \in Nat
  BY <1>1, <1>4, ClerksCounted, LenProperties DEF ClerksOK
<1>6. Len(attempt) + Cardinality(Opening) < MaxAttempts[mode] + Slots
  BY DEF Counts
<1>7. Len(attempt') + Cardinality(Opening') < MaxAttempts[mode] + Slots
  \* It counted less attempts than allowed: no more calls are about to open one than may overlap.
  <2>1. CASE stop = "open"
    <3>1. attempt' = attempt /\ Len(attempt) < MaxAttempts[mode]
      BY <2>1 DEF ClerkDoes, Touching
    <3>2. Opening' \subseteq BusyClerks' /\ BusyClerks' \in SUBSET Clerks
      BY DEF Opening, BusyClerks
    <3>3. Cardinality(Opening') <= Cardinality(BusyClerks')
      BY <1>4, <3>2, ClerksCounted
    <3>4. Cardinality(BusyClerks') \in Nat
      BY <3>2, ClerksCounted
    <3>5. QED
      BY <1>3, <1>5, <3>1, <3>3, <3>4, SlotsType
  <2>2. CASE stop # "open"
    <3>1. Opening' \subseteq Opening \ {w}
      BY <1>1, <1>4, <2>2 DEF Opening, ClerkMoves
    <3>2. CASE Opens(w, stop)
      <4>1. Len(attempt') = Len(attempt) + 1
        BY <1>1, <3>2, Opened
      <4>2. w \in Opening
        BY <3>2 DEF Opens, Opening
      <4>3. IsFiniteSet(Opening \ {w}) /\ Cardinality(Opening \ {w}) = Cardinality(Opening) - 1
        BY <1>5, <4>2, FS_RemoveElement
      <4>4. Cardinality(Opening') <= Cardinality(Opening \ {w})
        BY <3>1, <4>3, FS_Subset
      <4>5. QED
        BY <1>5, <1>6, <4>1, <4>3, <4>4, SlotsType
    <3>3. CASE attempt' = attempt \/ Touches(w, stop)
      <4>1. Len(attempt') = Len(attempt)
        BY <1>1, <3>3, Touched
      <4>2. Cardinality(Opening') <= Cardinality(Opening)
        BY <1>4, <3>1, ClerksCounted
      <4>3. QED
        BY <1>5, <1>6, <4>1, <4>2, SlotsType
    <3>4. QED
      BY <3>2, <3>3 DEF ClerkDoes
  <2>3. QED
    BY <2>1, <2>2
<1>8. QED
  BY <1>2, <1>3, <1>7 DEF Counts

LEMMA CountsStep ==
    ASSUME Registration, Kept, Counts, [GradebookNext]_<<vars, gradebookVars>>
    PROVE  Counts'
<1>1. TablesOK /\ AttemptsOK /\ ClerksOK /\ mode' = mode /\ GradebookDoes
  BY GradebookStep DEF Registration, Seated, Registered, Kept, AttemptsOK
<1>2. ASSUME UNCHANGED at, Len(attempt') = Len(attempt) PROVE Counts'
  BY <1>1, <1>2 DEF Counts, BusyClerks, Opening, Slots
<1>3. ASSUME NEW i \in DOMAIN attempt, Expire(i) PROVE Counts'
  BY <1>1, <1>2, <1>3, Expired
<1>4. ASSUME NEW w \in Clerks, NEW stop, ClerkDoes(w, stop) PROVE Counts'
  BY <1>1, <1>4, ClerkCounts
<1>5. QED
  BY <1>1, <1>2, <1>3, <1>4, GradeDoesClerk DEF GradebookDoes, assessmentVars

-----------------------------------------------------------------------------
(* Attempts and grades, one call at a time *)

\* One at a time, no other call works beside one that does.
LEMMA ClerksAlone ==
    ASSUME Counts, mode = "serial"
    PROVE  \A v, w \in Clerks : at[v] # "idle" /\ at[w] # "idle" => v = w
<1>1. Cardinality(BusyClerks) <= 1
  BY DEF Counts, Slots
<1>2. BusyClerks \in SUBSET Clerks
  BY DEF BusyClerks
<1>3. IsFiniteSet(BusyClerks) /\ Cardinality(BusyClerks) \in Nat
  BY <1>2, ClerksCounted
<1>4. CASE Cardinality(BusyClerks) = 0
  <2>1. BusyClerks = {}
    BY <1>3, <1>4, FS_EmptySet
  <2>2. QED
    BY <2>1 DEF BusyClerks
<1>5. CASE Cardinality(BusyClerks) = 1
  <2>1. \E x : BusyClerks = {x}
    BY <1>3, <1>5, FS_Singleton
  <2>2. QED
    BY <2>1 DEF BusyClerks
<1>6. QED
  BY <1>1, <1>3, <1>4, <1>5

LEMMA QuietIdle ==
    ASSUME Quiet, mode = "serial", NEW w \in Clerks
    PROVE  at[w] = "idle"
<1>1. Cardinality(BusyClerks) <= 0 /\ Cardinality(BusyClerks) \in Nat
  BY BusyBounds DEF Quiet
<1>2. BusyClerks \in SUBSET Clerks
  BY DEF BusyClerks
<1>3. IsFiniteSet(BusyClerks)
  BY <1>2, ClerksCounted
<1>4. BusyClerks = {}
  BY <1>1, <1>3, FS_EmptySet
<1>5. QED
  BY <1>4 DEF BusyClerks

LEMMA OtherClerksIdle ==
    ASSUME Counts, Counts', mode = "serial", mode' = mode, NEW w \in Clerks, NEW stop, ClerkMoves(w, stop)
    PROVE  \A v \in Clerks \ {w} : at[v] = "idle" /\ at'[v] = "idle"
<1>1. CASE at[w] = "idle"
  <2>1. Busy < 1
    BY <1>1 DEF ClerkMoves, Slots
  <2>2. IsFiniteSet({h \in Handlers : pc[h] # "idle"} \cup BusyClerks)
    <3>1. IsFiniteSet({h \in Handlers : pc[h] # "idle"})
      BY Counted
    <3>2. IsFiniteSet(BusyClerks)
      BY ClerksCounted DEF BusyClerks
    <3>3. QED
      BY <3>1, <3>2, FS_Union
  <2>3. Busy \in Nat
    BY <2>2, FS_CardinalityType DEF Busy, BusyClerks
  <2>4. Quiet
    BY <2>1, <2>3 DEF Quiet
  <2>5. QED
    BY <2>4, QuietIdle DEF ClerkMoves
<1>2. CASE at[w] # "idle"
  BY <1>2, ClerksAlone DEF ClerkMoves
<1>3. QED
  BY <1>1, <1>2

\* At most one attempt is a draft, and what calls have in hand is true of the attempts.
Order(w) ==
    /\ at[w] \in {"count", "open"} => Drafts = {}
    /\ at[w] = "open" => job[w].number = Len(attempt) + 1
    /\ at[w] \in {"close", "save", "submit"} => job[w].about \in Drafts

Numbered ==
    /\ \A i, j \in Drafts : i = j
    /\ \A i \in DOMAIN attempt : attempt[i].number = i
    /\ \A i \in DOMAIN attempt : attempt[i].auto => attempt[i].points = attempt[i].answers

Apart == mode = "serial" => Numbered /\ \A w \in Clerks : Order(w)

LEMMA ClerkApart ==
    ASSUME AttemptsOK, Counts, Counts', mode = "serial", mode' = mode, Apart,
           NEW w \in Clerks, NEW stop, ClerkDoes(w, stop)
    PROVE  Apart'
<1>1. /\ ClerksOK /\ DraftsUnscored /\ Works(w) /\ Numbered /\ Order(w)
      /\ ClerkMoves(w, stop) /\ at'[w] = stop
  BY DEF AttemptsOK, Apart, ClerkDoes, ClerkMoves
<1>2. \A v \in Clerks \ {w} : Order(v)'
  BY <1>1, OtherClerksIdle DEF Order
<1>3. CASE attempt' = attempt
  <2>1. Numbered'
    BY <1>1, <1>3 DEF Numbered, Drafts
  <2>2. Order(w)'
    <3>1. Drafts' = Drafts
      BY <1>3 DEF Drafts
    <3>2. stop = "count" => Drafts = {}
      <4>1. ASSUME stop = "count", Touches(w, stop) PROVE Drafts = {}
        <5>1. at[w] = "close" /\ job[w].about \in Drafts
          BY <1>1, <4>1 DEF Touches, Order
        <5>2. attempt'[job[w].about].status # "DRAFT"
          BY <1>1, <4>1, <5>1, Touched
        <5>3. QED
          BY <1>3, <5>1, <5>2 DEF Drafts
      <4>2. QED
        BY <4>1 DEF ClerkDoes
    <3>3. stop = "open" => Drafts = {}
      BY <1>1 DEF ClerkDoes, Order
    <3>4. QED
      BY <1>1, <1>3, <3>1, <3>2, <3>3 DEF ClerkDoes, Order
  <2>3. QED
    BY <1>2, <2>1, <2>2 DEF Apart
<1>4. CASE Touches(w, stop)
  <2> DEFINE i == job[w].about
  <2>1. /\ i \in DOMAIN attempt /\ DOMAIN attempt' = DOMAIN attempt
        /\ \A j \in DOMAIN attempt \ {i} : attempt'[j] = attempt[j]
        /\ attempt'[i].number = attempt[i].number
        /\ at[w] = "save" => /\ attempt'[i].status = attempt[i].status
                             /\ attempt'[i].auto = attempt[i].auto
        /\ at[w] # "save" => attempt'[i].status # "DRAFT"
        /\ at[w] = "grade" => ~attempt'[i].auto
        /\ \/ ~attempt'[i].auto
           \/ attempt'[i].auto = attempt[i].auto
           \/ at[w] = "submit" /\ attempt'[i].points = attempt'[i].answers
    BY <1>1, <1>4, Touched
  <2>2. at[w] \in Touching /\ (stop = "count" => at[w] = "close")
    BY <1>4 DEF Touches
  <2>3. Drafts' \subseteq Drafts /\ (at[w] # "save" => i \notin Drafts')
    BY <2>1 DEF Drafts
  <2>4. attempt'[i].auto => attempt'[i].points = attempt'[i].answers
    <3>1. CASE at[w] \in {"close", "save", "submit"}
      <4>1. ~attempt[i].auto
        BY <1>1, <3>1 DEF Order, DraftsUnscored
      <4>2. QED
        BY <2>1, <4>1
    <3>2. CASE at[w] = "grade"
      BY <2>1, <3>2
    <3>3. QED
      BY <2>2, <3>1, <3>2 DEF Touching
  <2>5. Numbered'
    BY <1>1, <2>1, <2>3, <2>4 DEF Numbered
  <2>6. Order(w)'
    <3>1. stop = "count" => Drafts' = {}
      <4>1. ASSUME stop = "count", NEW j \in Drafts' PROVE FALSE
        <5>1. i \in Drafts /\ j \in Drafts /\ i \notin Drafts'
          BY <1>1, <2>2, <2>3, <4>1 DEF Order
        <5>2. QED
          BY <1>1, <4>1, <5>1 DEF Numbered
      <4>2. QED
        BY <4>1
    <3>2. stop \notin {"open", "close", "save", "submit"}
      BY <1>1, <1>4, <2>2 DEF ClerkDoes, Touching
    <3>3. QED
      BY <1>1, <3>1, <3>2 DEF Order
  <2>7. QED
    BY <1>2, <2>5, <2>6 DEF Apart
<1>5. CASE Opens(w, stop)
  <2> DEFINE n == Len(attempt) + 1
  <2>1. /\ DOMAIN attempt' = DOMAIN attempt \cup {n}
        /\ \A j \in DOMAIN attempt : attempt'[j] = attempt[j]
        /\ attempt'[n].number = job[w].number /\ ~attempt'[n].auto
    BY <1>1, <1>5, Opened
  <2>2. Drafts = {} /\ job[w].number = n /\ stop = "idle"
    BY <1>1, <1>5 DEF Opens, Order
  <2>3. \A j \in Drafts' : j = n
    BY <2>1, <2>2 DEF Drafts
  <2> HIDE DEF n
  <2>4. Numbered'
    BY <1>1, <2>1, <2>2, <2>3 DEF Numbered
  <2>5. Order(w)'
    BY <1>1, <2>2 DEF Order
  <2>6. QED
    BY <1>2, <2>4, <2>5 DEF Apart
<1>6. QED
  BY <1>3, <1>4, <1>5 DEF ClerkDoes

LEMMA ApartStep ==
    ASSUME Registration, Kept, Counts, Apart, [GradebookNext]_<<vars, gradebookVars>>
    PROVE  Apart'
<1>1. AttemptsOK /\ ClerksOK /\ mode' = mode /\ GradebookDoes /\ Counts'
  BY GradebookStep, CountsStep DEF Kept, AttemptsOK
<1>2. SUFFICES ASSUME mode = "serial" PROVE Apart'
  BY <1>1 DEF Apart
<1>3. ASSUME UNCHANGED assessmentVars PROVE Apart'
  BY <1>1, <1>3 DEF assessmentVars, Apart, Numbered, Order, Drafts
<1>4. ASSUME Quiet, NEW i \in DOMAIN attempt, Expire(i) PROVE Apart'
  <2>1. \A w \in Clerks : at'[w] = "idle"
    BY <1>1, <1>2, <1>4, QuietIdle, Expired
  <2>2. Numbered
    BY <1>2 DEF Apart
  <2>3. /\ DOMAIN attempt' = DOMAIN attempt
        /\ \A j \in DOMAIN attempt :
              /\ attempt'[j].number = attempt[j].number
              /\ attempt'[j].status = attempt[j].status /\ attempt'[j].auto = attempt[j].auto
              /\ attempt'[j].points = attempt[j].points
              /\ attempt'[j].answers = attempt[j].answers
    BY <1>1, <1>4, Expired
  <2>4. Drafts' = Drafts
    BY <2>3 DEF Drafts
  <2>5. Numbered'
    BY <2>2, <2>3, <2>4 DEF Numbered
  <2>6. QED
    BY <2>1, <2>5 DEF Apart, Order
<1>5. ASSUME NEW w \in Clerks, NEW stop, ClerkDoes(w, stop) PROVE Apart'
  BY <1>1, <1>2, <1>5, ClerkApart
<1>6. QED
  BY <1>1, <1>3, <1>4, <1>5, GradeDoesClerk DEF GradebookDoes, assessmentVars

\* An override that was not asked for is not decided, and while its chain is open it is
\* pending.
Standing(o) ==
    /\ ~override[o].asked => ~Decided(o)
    /\ override[o].chain = "open" => Pending(o)

\* What a call will write is still what it may write.
SheetHolds(w) ==
    /\ at[w] = "write" => /\ sheet[w].amends \/ grade.workflow # "APPROVED"
                          /\ Capped(sheet[w].grade.score)
    /\ at[w] = "apply" => Capped(sheet[w].grade.score)
    /\ at[w] = "request" => ~override[sheet[w].override].asked
    /\ at[w] \in Settling => Pending(sheet[w].override)
    /\ at[w] \in Settling \ {"cancel chain"} => override[sheet[w].override].chain # "open"

SheetsHold ==
    mode = "serial" =>
        (\A o \in Overrides : Standing(o)) /\ (\A w \in Clerks : SheetHolds(w))

\* How the row of the override in hand changes, if its call holds what it may write.
LEMMA TurnsRight ==
    ASSUME GradesOK, NEW w \in Clerks, SheetHolds(w), NEW stop, NEW o \in Overrides, NEW r \in OverrideRows,
           Standing(o), Turns(w, stop, o, r), override' = [override EXCEPT ![o] = r]
    PROVE  /\ Standing(o)'
           /\ Decided(o) => r.approved = override[o].approved /\ r.withdrawn = override[o].withdrawn
<1>1. /\ override'[o] = r /\ override[o] \in OverrideRows
      /\ override[o].approved \in BOOLEAN /\ override[o].withdrawn \in BOOLEAN
      /\ override[o].asked \in BOOLEAN
  BY DEF GradesOK, OverrideRows
<1>2. CASE at[w] = "request"
  BY <1>1, <1>2 DEF Turns, SheetHolds, Standing, Decided, Pending
<1>3. CASE at[w] \in Settling
  BY <1>1, <1>3 DEF Turns, SheetHolds, Settling, SameStand, Standing, Decided, Pending
<1>4. CASE at[w] = "idle"
  BY <1>1, <1>4 DEF Turns, SameStand, Standing, Decided, Pending
<1>5. QED
  BY <1>2, <1>3, <1>4 DEF Turns, Settling

LEMMA GradeHolds ==
    ASSUME GradesOK, GradesOK', Counts, Counts', mode = "serial", mode' = mode, SheetsHold,
           NEW w \in Clerks, NEW stop, GradeDoes(w, stop)
    PROVE  SheetsHold'
<1>1. /\ \A o \in Overrides : Standing(o)
      /\ SheetHolds(w) /\ Papers(w, stop) /\ at'[w] = stop
  BY DEF SheetsHold, GradeDoes, Papers, ClerkMoves
<1>2. \A v \in Clerks \ {w} : SheetHolds(v)'
  <2>1. \A v \in Clerks \ {w} : at'[v] = "idle"
    BY <1>1, OtherClerksIdle DEF Papers
  <2>2. QED
    BY <2>1 DEF SheetHolds, Settling
<1>3. ASSUME override' = override PROVE SheetsHold'
  <2>1. \A o \in Overrides : Standing(o)'
    BY <1>1, <1>3 DEF Standing, Decided, Pending
  <2>2. CASE stop = "write"
    <3>1. SheetHolds(w)'
      BY <1>1, <2>2 DEF GradeDoes, SheetHolds, Capped, Settling
    <3>2. QED
      BY <1>2, <2>1, <3>1 DEF SheetsHold
  <2>3. CASE stop = "apply"
    <3>1. /\ sheet'[w].override = sheet[w].override /\ at[w] \in {"clamp", "complete"}
          /\ Capped(sheet'[w].grade.score) /\ grade' = grade /\ resit' = resit
      BY <2>3 DEF GradeDoes
    <3>2. Pending(sheet[w].override) /\ override[sheet[w].override].chain # "open"
      BY <1>1, <3>1 DEF SheetHolds, Settling
    <3>3. SheetHolds(w)'
      BY <1>1, <1>3, <2>3, <3>1, <3>2 DEF SheetHolds, Capped, Pending, Settling
    <3>4. QED
      BY <1>2, <2>1, <3>3 DEF SheetsHold
  <2>4. CASE stop = "request"
    <3>1. SheetHolds(w)'
      BY <1>1, <1>3, <2>4 DEF GradeDoes, SheetHolds, Settling
    <3>2. QED
      BY <1>2, <2>1, <3>1 DEF SheetsHold
  <2>5. CASE stop = "cancel chain"
    <3>1. SheetHolds(w)'
      BY <1>1, <1>3, <2>5 DEF GradeDoes, SheetHolds, Settling, Pending
    <3>2. QED
      BY <1>2, <2>1, <3>1 DEF SheetsHold
  <2>6. CASE stop \notin Deciding \cup {"write"}
    <3>1. SheetHolds(w)'
      BY <1>1, <2>6 DEF SheetHolds, Deciding, Settling
    <3>2. QED
      BY <1>2, <2>1, <3>1 DEF SheetsHold
  <2>7. CASE stop \in {"start chain", "clamp", "withdraw", "complete", "refuse"}
    <3>1. PICK o \in Overrides, r \in OverrideRows :
             override' = [override EXCEPT ![o] = r] /\ Turns(w, stop, o, r)
      BY <2>7 DEF GradeDoes, OverrideWritten
    <3>2. override[o] = r
      BY <1>3, <3>1 DEF GradesOK
    <3>3. sheet'[w].override = o /\ r.chain # "open"
      BY <2>7, <3>1 DEF Turns
    <3>4. Pending(o)
      BY <1>1, <2>7, <3>1, <3>2 DEF Turns, SheetHolds, Settling, Pending, Standing, SameStand
    <3>5. SheetHolds(w)'
      BY <1>1, <1>3, <2>7, <3>2, <3>3, <3>4 DEF SheetHolds, Pending, Settling
    <3>6. QED
      BY <1>2, <2>1, <3>5 DEF SheetsHold
  <2>8. QED
    BY <2>2, <2>3, <2>4, <2>5, <2>6, <2>7 DEF Deciding, Settling
<1>4. ASSUME NEW o \in Overrides, NEW r \in OverrideRows,
             override' = [override EXCEPT ![o] = r], Turns(w, stop, o, r)
      PROVE  SheetsHold'
  <2>1. override'[o] = r /\ override[o] \in OverrideRows
        /\ \A p \in Overrides \ {o} : override'[p] = override[p]
    BY <1>4 DEF GradesOK
  <2>2. Standing(o)'
    BY <1>1, <1>4, TurnsRight
  <2>3. \A p \in Overrides \ {o} : Standing(p)'
    BY <1>1, <2>1 DEF Standing, Decided, Pending
  <2>4. CASE stop = "idle"
    <3>1. SheetHolds(w)'
      BY <1>1, <2>4 DEF SheetHolds, Settling
    <3>2. QED
      BY <1>2, <2>2, <2>3, <3>1 DEF SheetsHold
  <2>5. CASE stop # "idle"
    <3>1. sheet'[w].override = o /\ r.chain # "open" /\ stop \in Settling \ {"cancel chain", "apply"}
      BY <1>4, <2>5 DEF Turns, Settling
    <3>2. r.asked /\ ~r.approved /\ ~r.withdrawn
      BY <1>1, <1>4, <2>5 DEF Turns, SheetHolds, Settling, Pending, Standing, SameStand
    <3>3. SheetHolds(w)'
      BY <1>1, <2>1, <3>1, <3>2 DEF SheetHolds, Pending, Settling
    <3>4. QED
      BY <1>2, <2>2, <2>3, <3>3 DEF SheetsHold
  <2>6. QED
    BY <2>4, <2>5
<1>5. QED
  BY <1>3, <1>4 DEF GradeDoes, OverrideWritten

LEMMA SheetsHoldStep ==
    ASSUME Registration, Kept, Counts, SheetsHold, [GradebookNext]_<<vars, gradebookVars>>
    PROVE  SheetsHold'
<1>1. /\ GradesOK /\ ClerksOK /\ GradesOK' /\ mode' = mode /\ GradebookDoes /\ Counts'
  BY GradebookStep, KeptStep, CountsStep DEF Kept, AttemptsOK
<1>2. SUFFICES ASSUME mode = "serial" PROVE SheetsHold'
  BY <1>1 DEF SheetsHold
<1>3. (\A o \in Overrides : Standing(o)) /\ (\A w \in Clerks : SheetHolds(w))
  BY <1>2 DEF SheetsHold
<1>4. ASSUME UNCHANGED override PROVE \A o \in Overrides : Standing(o)'
  BY <1>3, <1>4 DEF Standing, Decided, Pending
<1>5. ASSUME UNCHANGED <<assessmentVars, gradeVars>> PROVE SheetsHold'
  BY <1>1, <1>2, <1>3, <1>5 DEF assessmentVars, gradeVars, SheetsHold, SheetHolds, Standing, Decided,
                                Pending, Capped
<1>6. ASSUME Quiet, UNCHANGED <<at, override>> PROVE SheetsHold'
  <2>1. \A w \in Clerks : at'[w] = "idle"
    BY <1>2, <1>6, QuietIdle
  <2>2. QED
    BY <1>4, <1>6, <2>1 DEF SheetsHold, SheetHolds, Settling
<1>7. ASSUME NEW w \in Clerks, NEW stop \in QuizStops \cup {"idle", "passback"}, ClerkDoes(w, stop),
             UNCHANGED gradeVars
      PROVE  SheetsHold'
  <2>1. at'[w] = stop /\ \A v \in Clerks \ {w} : at'[v] = "idle"
    BY <1>1, <1>2, <1>7, OtherClerksIdle DEF ClerkDoes, ClerkMoves
  <2>2. \A v \in Clerks : SheetHolds(v)'
    BY <1>7, <2>1 DEF SheetHolds, Settling, QuizStops
  <2>3. QED
    BY <1>4, <1>7, <2>2 DEF SheetsHold, gradeVars
<1>8. ASSUME NEW w \in Clerks, NEW stop, GradeDoes(w, stop) PROVE SheetsHold'
  BY <1>1, <1>2, <1>8, GradeHolds
<1>9. QED
  BY <1>1, <1>5, <1>6, <1>7, <1>8, Expired DEF GradebookDoes, assessmentVars, gradeVars

-----------------------------------------------------------------------------
(* The gradebook as a whole *)

Gradebook == Kept /\ Counts /\ Apart /\ SheetsHold

LEMMA GradebookInitially == GradebookInit => Gradebook
<1>1. SUFFICES ASSUME GradebookInit PROVE Gradebook
  OBVIOUS
<1>2. Kept /\ Registration
  BY <1>1, KeptInit, RegistrationInit DEF GradebookInit
<1>3. attempt = <<>> /\ (\A w \in Clerks : at[w] = "idle") /\ Drafts = {} /\ DOMAIN attempt = {}
      /\ Len(attempt) = 0
  BY <1>1 DEF GradebookInit, AssessmentsInit, Drafts
<1>4. Counts
  <2>1. BusyClerks = {} /\ Opening = {}
    BY <1>3 DEF BusyClerks, Opening
  <2>2. Cardinality(BusyClerks) = 0 /\ Cardinality(Opening) = 0
    BY <2>1, FS_EmptySet
  <2>3. QED
    BY <1>2, <1>3, <2>2, SlotsType DEF Counts, Registration, Seated, Registered
<1>5. Apart
  BY <1>3 DEF Apart, Numbered, Order
<1>6. SheetsHold
  BY <1>1, <1>3 DEF GradebookInit, NoOverride, SheetsHold, Standing, SheetHolds, Settling, Decided
<1>7. QED
  BY <1>2, <1>4, <1>5, <1>6 DEF Gradebook

LEMMA GradebookKept ==
    Registration /\ Gradebook /\ [GradebookNext]_<<vars, gradebookVars>> => Gradebook'
BY KeptStep, CountsStep, ApartStep, SheetsHoldStep DEF Gradebook

LEMMA GradebookHolds == GradebookSpec => [](Registration /\ Gradebook)
BY RegistrationHolds, GradebookInitially, GradebookKept, PTL DEF GradebookSpec

(* The attempts, the grade, the overrides and the calls on them keep their   *)
(* types, whatever overlaps or dies.                                        *)
THEOREM GradebookTypes == GradebookSpec => []GradebookTypeOK
<1> DEFINE Scoped == scope \in {"registration", "attempts", "grades"}
<1>1. GradebookInit => Scoped
  BY DEF GradebookInit
<1>2. Scoped /\ [GradebookNext]_<<vars, gradebookVars>> => Scoped'
  BY DEF GradebookNext, TakerStep, gradebookVars
<1>3. Registration /\ Gradebook /\ Scoped => GradebookTypeOK
  <2>1. ASSUME Registration, Gradebook, Scoped PROVE GradebookTypeOK
    <3>1. TypeOK
      BY <2>1 DEF Registration, Seated, Registered, TablesOK, HandlersOK, TypeOK, Places
    <3>2. AssessmentsTypeOK
      <4>1. ClerksOK
        BY <2>1 DEF Gradebook, Kept, AttemptsOK
      <4>2. Stops = {"idle", "close", "count", "open", "save", "submit", "grade", "passback",
                     "write", "cancel releases", "release", "downgrade", "request",
                     "start chain", "cancel chain", "clamp", "apply", "withdraw",
                     "complete", "refuse"}
        BY DEF Stops, QuizStops, GradeStops
      <4>3. QED
        BY <4>1, <4>2 DEF ClerksOK, AssessmentsTypeOK, Jobs
    <3>3. GradesOK
      BY <2>1 DEF Gradebook, Kept
    <3>4. QED
      BY <2>1, <3>1, <3>2, <3>3 DEF GradebookTypeOK, GradesOK, Grades, OverrideRows
  <2>2. QED
    BY <2>1
<1>4. QED
  BY <1>1, <1>2, <1>3, GradebookHolds, PTL DEF GradebookSpec

(* However many calls overlap and die, a student gets fewer attempts beyond *)
(* the limit than calls may overlap; one at a time none, and then no two    *)
(* attempts are drafts or carry one number.                                 *)
THEOREM AttemptsAreLimited == GradebookSpec => []AttemptsWithinLimit
<1>1. ASSUME Registration, Gradebook PROVE AttemptsWithinLimit
  <2>1. TablesOK /\ ClerksOK /\ Counts /\ Apart
    BY <1>1 DEF Registration, Seated, Registered, Gradebook, Kept, AttemptsOK
  <2>2. Len(attempt) < MaxAttempts[mode] + Slots
    <3>1. Opening \in SUBSET Clerks
      BY DEF Opening
    <3>2. Cardinality(Opening) \in Nat /\ Len(attempt) \in Nat
      BY <2>1, <3>1, ClerksCounted, LenProperties DEF ClerksOK
    <3>3. QED
      BY <2>1, <3>2, SlotsType DEF Counts
  <2>3. ASSUME mode = "serial"
        PROVE  /\ Cardinality(Drafts) <= 1
               /\ \A i, j \in DOMAIN attempt : attempt[i].number = attempt[j].number => i = j
    <3>1. Numbered
      BY <2>1, <2>3 DEF Apart
    <3>2. CASE Drafts = {}
      BY <3>1, <3>2, FS_EmptySet DEF Numbered
    <3>3. ASSUME NEW i \in Drafts PROVE Cardinality(Drafts) <= 1
      <4>1. Drafts = {i}
        BY <3>1, <3>3 DEF Numbered
      <4>2. Cardinality({i}) = 1
        BY FS_Singleton
      <4>3. QED
        BY <4>1, <4>2
    <3>4. \A i, j \in DOMAIN attempt : attempt[i].number = attempt[j].number => i = j
      BY <3>1 DEF Numbered
    <3>5. QED
      BY <3>2, <3>3, <3>4
  <2>4. QED
    BY <2>2, <2>3 DEF AttemptsWithinLimit
<1>2. Registration /\ Gradebook => AttemptsWithinLimit
  BY <1>1
<1>3. QED
  BY <1>2, GradebookHolds, PTL

(* One call at a time, a score given at submission is what the stored       *)
(* answers earn, whatever is saved, expires or is graded later.             *)
THEOREM ScoreTellsAnswers == GradebookSpec => []GradedAsAnswered
<1>1. Registration /\ Gradebook => GradedAsAnswered
  BY DEF Gradebook, Apart, Numbered, GradedAsAnswered
<1>2. QED
  BY <1>1, GradebookHolds, PTL

\* What the steps of the calls, one at a time, leave of the grade and of decided overrides.
LEMMA SerialStep ==
    ASSUME Registration, Gradebook, mode = "serial", [GradebookNext]_<<vars, gradebookVars>>
    PROVE  /\ UNCHANGED grade \/
                 \E w \in Clerks :
                    /\ \/ On(w, "write") /\ (sheet[w].amends \/ grade.workflow # "APPROVED")
                       \/ On(w, "apply") /\ Pending(sheet[w].override)
                    /\ grade' = sheet[w].grade /\ Capped(sheet[w].grade.score)
           /\ \A o \in Overrides : Decided(o) =>
                 /\ override'[o].approved = override[o].approved
                 /\ override'[o].withdrawn = override[o].withdrawn
<1>1. GradebookDoes /\ GradesOK /\ SheetsHold
  BY GradebookStep DEF Gradebook, Kept
<1>2. (\A o \in Overrides : Standing(o)) /\ (\A w \in Clerks : SheetHolds(w))
  BY <1>1 DEF SheetsHold
<1>3. ASSUME NEW w \in Clerks, NEW stop, GradeDoes(w, stop), grade' # grade
      PROVE  /\ \/ On(w, "write") /\ (sheet[w].amends \/ grade.workflow # "APPROVED")
                \/ On(w, "apply") /\ Pending(sheet[w].override)
             /\ grade' = sheet[w].grade /\ Capped(sheet[w].grade.score)
  BY <1>2, <1>3 DEF GradeDoes, GradeWritten, SheetHolds, On, Settling
<1>4. ASSUME NEW w \in Clerks, NEW stop, GradeDoes(w, stop), NEW p \in Overrides, Decided(p)
      PROVE  override'[p].approved = override[p].approved /\ override'[p].withdrawn = override[p].withdrawn
  <2>1. CASE override' = override
    BY <2>1
  <2>2. ASSUME NEW o \in Overrides, NEW r \in OverrideRows,
               override' = [override EXCEPT ![o] = r], Turns(w, stop, o, r)
        PROVE  override'[p].approved = override[p].approved /\ override'[p].withdrawn = override[p].withdrawn
    <3>1. Standing(o) /\ SheetHolds(w)
      BY <1>2
    <3>2. Decided(o) => r.approved = override[o].approved /\ r.withdrawn = override[o].withdrawn
      BY <1>1, <2>2, <3>1, TurnsRight
    <3>3. override'[p] = IF p = o THEN r ELSE override[p]
      BY <1>1, <2>2 DEF GradesOK
    <3>4. QED
      BY <1>4, <3>2, <3>3
  <2>3. QED
    BY <1>4, <2>1, <2>2 DEF GradeDoes, OverrideWritten
<1>5. UNCHANGED <<grade, override>> \/ \E w \in Clerks : \E stop : GradeDoes(w, stop)
  BY <1>1 DEF GradebookDoes, gradeVars
<1>6. QED
  BY <1>3, <1>4, <1>5

(* One call at a time, an approved grade changes only by an entry of somebody *)
(* who may amend it or by an override decided for the first time, and an    *)
(* override once decided stays as it was decided.                           *)
THEOREM ApprovedStands == GradebookSpec => ApprovedGradeStands
<1> DEFINE Stands ==
      mode = "serial" =>
         /\ grade.workflow = "APPROVED" /\ grade' # grade =>
               \E w \in Clerks :
                  \/ On(w, "write") /\ sheet[w].amends
                  \/ On(w, "apply") /\ Pending(sheet[w].override)
         /\ \A o \in Overrides : Decided(o) =>
               /\ override'[o].approved = override[o].approved
               /\ override'[o].withdrawn = override[o].withdrawn
<1>1. ASSUME Registration, Gradebook, [GradebookNext]_<<vars, gradebookVars>> PROVE Stands
  BY <1>1, SerialStep
<1>2. Registration /\ Gradebook /\ [GradebookNext]_<<vars, gradebookVars>>
         => [Stands]_<<vars, gradebookVars>>
  BY <1>1
<1>3. QED
  BY <1>2, GradebookHolds, PTL DEF GradebookSpec, ApprovedGradeStands

(* One call at a time, no way of writing a score stores more than the cap    *)
(* once a resit is registered.                                              *)
THEOREM CapIsEnforced == GradebookSpec => CapEnforced
<1> DEFINE Enforced == mode = "serial" /\ resit /\ grade'.score # grade.score => grade'.score <= Cap
<1>1. ASSUME Registration, Gradebook, [GradebookNext]_<<vars, gradebookVars>> PROVE Enforced
  BY <1>1, SerialStep DEF Capped
<1>2. Registration /\ Gradebook /\ [GradebookNext]_<<vars, gradebookVars>>
         => [Enforced]_<<vars, gradebookVars>>
  BY <1>1
<1>3. QED
  BY <1>2, GradebookHolds, PTL DEF GradebookSpec, CapEnforced
=============================================================================
