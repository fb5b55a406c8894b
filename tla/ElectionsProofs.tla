--------------------------- MODULE ElectionsProofs --------------------------
(***************************************************************************)
(* Proofs about Elections, for any number of voters, candidates, positions *)
(* and overlapping calls, in both modes.                                   *)
(***************************************************************************)
EXTENDS Elections, FiniteSetTheorems, TLAPS

\* What a call holds: a voter, and candidates of different positions.
CallsHold ==
    /\ DOMAIN call = Handlers
    /\ \A h \in Handlers : call[h].voter \in Voters /\ call[h].choices \in Choices

\* The votes and the ballots are of voters, for candidates.
RollsHold ==
    /\ votes \subseteq Voters \X Candidates
    /\ ballots \in [Voters -> SUBSET SUBSET Candidates]

Rolls == CallsHold /\ RollsHold /\ OneVotePerPosition /\ RecordedWhole

\* The idle call names some voter and an empty ballot.
LEMMA NoCallHolds ==
    /\ NoCall \in [voter : Voters, choices : Choices, booth : BOOLEAN, next : {"DRAFT"}, cand : Candidates]
    /\ NoCall.voter \in Voters /\ NoCall.choices \in Choices
<1>1. (CHOOSE v \in Voters : TRUE) \in Voters /\ (CHOOSE c \in Candidates : TRUE) \in Candidates
  BY ElectionsAssumption
<1>2. {} \in Choices
  BY DEF Choices
<1>3. QED
  BY <1>1, <1>2 DEF NoCall

\* Before the first ballot nothing is recorded.
LEMMA RollsInit == Init => Rolls
<1>1. SUFFICES ASSUME Init PROVE Rolls
  OBVIOUS
<1>2. CallsHold
  BY <1>1, NoCallHolds DEF Init, CallsHold
<1>3. RollsHold /\ OneVotePerPosition
  BY <1>1 DEF Init, RollsHold, OneVotePerPosition
<1>4. RecordedWhole
  BY <1>1 DEF Init, RecordedWhole
<1>5. QED
  BY <1>2, <1>3, <1>4 DEF Rolls

\* A step that goes on with a call, or ends it, leaves the calls in order.
LEMMA GotoHolds ==
    ASSUME CallsHold, NEW h \in Handlers, NEW place, Goto(h, place)
    PROVE  CallsHold'
<1>1. CASE place = "idle"
  <2>1. call' = [call EXCEPT ![h] = NoCall]
    BY <1>1 DEF Goto
  <2>2. QED
    BY <2>1, NoCallHolds DEF CallsHold
<1>2. CASE place # "idle"
  BY <1>2 DEF Goto, CallsHold
<1>3. QED
  BY <1>1, <1>2

\* A call that begins with a voter and a ballot leaves the calls in order.
LEMMA BeginHolds ==
    ASSUME CallsHold, NEW h \in Handlers, NEW place, NEW what, Begin(h, place, what),
           what.voter \in Voters, what.choices \in Choices
    PROVE  CallsHold'
BY DEF CallsHold, Begin

\* What does not touch the three tables keeps what is said of them.
LEMMA TablesKept ==
    ASSUME RollsHold, OneVotePerPosition, RecordedWhole, UNCHANGED <<hasVoted, votes, ballots>>
    PROVE  (RollsHold /\ OneVotePerPosition /\ RecordedWhole)'
BY DEF RollsHold, OneVotePerPosition, RecordedWhole

\* One more set in a family adds its elements to the union.
LEMMA UnionAdds ==
    ASSUME NEW S, NEW B, NEW T, T = S \cup {B}
    PROVE  UNION T = (UNION S) \cup B
<1>1. \A x : x \in UNION T <=> \E C \in T : x \in C
  OBVIOUS
<1>2. \A x : x \in UNION S <=> \E C \in S : x \in C
  OBVIOUS
<1>3. \A x : x \in UNION T <=> x \in UNION S \/ x \in B
  BY <1>1, <1>2
<1>4. QED
  BY <1>3

\* The transaction that records a ballot.
LEMMA RecordStep ==
    ASSUME Rolls, NEW h \in Handlers, Record(h)
    PROVE  Rolls'
<1> DEFINE v == call[h].voter
           choices == call[h].choices
<1>1. /\ v \in Voters
      /\ choices \subseteq Candidates
      /\ \A c \in choices, d \in choices : PositionOf[c] = PositionOf[d] => c = d
  BY DEF Rolls, CallsHold, Choices
<1>2. CallsHold'
  <2>1. PICK place : Goto(h, place)
    BY DEF Record
  <2>2. QED
    BY <2>1, GotoHolds DEF Rolls
<1>3. CASE ~Accepted(v, choices)
  <2>1. UNCHANGED <<hasVoted, votes, ballots>>
    BY <1>3 DEF Record
  <2>2. QED
    BY <1>2, <2>1, TablesKept DEF Rolls
<1>4. CASE Accepted(v, choices)
  <2>1. \A c \in choices, d \in Candidates : PositionOf[d] = PositionOf[c] => <<v, d>> \notin votes
    BY <1>4 DEF Accepted, Duplicate
  <2>2. /\ hasVoted' = hasVoted \cup {v}
        /\ votes' = votes \cup {<<v, c>> : c \in choices}
        /\ ballots' = [ballots EXCEPT ![v] = @ \cup {choices}]
    <3>1. {d \in choices : ~Duplicate(v, d)} = choices
      BY <1>4 DEF Accepted
    <3>2. QED
      BY <1>4, <3>1 DEF Record
  <2>3. \A w, c : <<w, c>> \in votes' <=> <<w, c>> \in votes \/ (w = v /\ c \in choices)
    BY <2>2
  <2>4. RollsHold'
    BY <1>1, <2>2 DEF Rolls, RollsHold
  <2>5. OneVotePerPosition'
    BY <1>1, <2>1, <2>3 DEF Rolls, OneVotePerPosition
  <2>6. RecordedWhole'
    <3>1. SUFFICES ASSUME NEW w \in Voters
                   PROVE  /\ w \in hasVoted' <=> ballots'[w] # {}
                          /\ {c \in Candidates : <<w, c>> \in votes'} = UNION ballots'[w]
      BY DEF RecordedWhole
    <3>2. /\ w \in hasVoted <=> ballots[w] # {}
          /\ {c \in Candidates : <<w, c>> \in votes} = UNION ballots[w]
      BY DEF Rolls, RecordedWhole
    <3>3. CASE w # v
      <4>1. ballots'[w] = ballots[w]
        BY <2>2, <3>3 DEF Rolls, RollsHold
      <4>2. w \in hasVoted' <=> w \in hasVoted
        BY <2>2, <3>3
      <4>3. \A c : <<w, c>> \in votes' <=> <<w, c>> \in votes
        BY <2>3, <3>3
      <4>4. QED
        BY <3>2, <4>1, <4>2, <4>3
    <3>4. CASE w = v
      <4>1. ballots'[w] = ballots[w] \cup {choices}
        BY <2>2, <3>4 DEF Rolls, RollsHold
      <4>2. UNION ballots'[w] = (UNION ballots[w]) \cup choices
        BY <4>1, UnionAdds
      <4>3. w \in hasVoted' /\ ballots'[w] # {}
        BY <2>2, <3>4, <4>1
      <4>4. {c \in Candidates : <<w, c>> \in votes'}
              = {c \in Candidates : <<w, c>> \in votes} \cup choices
        BY <1>1, <2>3, <3>4
      <4>5. {c \in Candidates : <<w, c>> \in votes'} = UNION ballots'[w]
        BY <3>2, <4>2, <4>4
      <4>6. QED
        BY <4>3, <4>5
    <3>5. QED
      BY <3>3, <3>4
  <2>7. QED
    BY <1>2, <2>4, <2>5, <2>6 DEF Rolls
<1>5. QED
  BY <1>3, <1>4

\* A new call holds a voter and a ballot without two candidates for a position.
LEMMA StartStep ==
    ASSUME CallsHold, NEW h \in Handlers, Start(h)
    PROVE  CallsHold' /\ UNCHANGED <<hasVoted, votes, ballots>>
<1>1. CASE Look(h)
  <2> DEFINE what == [NoCall EXCEPT !.next = Derived]
  <2>1. what.voter \in Voters /\ what.choices \in Choices
    BY NoCallHolds
  <2>2. Begin(h, "sync", what)
    BY <1>1 DEF Look
  <2>3. CallsHold'
    <3> HIDE DEF what
    <3>1. QED
      BY <2>1, <2>2, BeginHolds
  <2>4. QED
    BY <2>2, <2>3 DEF Begin, tables
<1>2. ASSUME NEW c \in Candidates, Nominate(h, c)
      PROVE  CallsHold' /\ UNCHANGED <<hasVoted, votes, ballots>>
  <2> DEFINE what == [NoCall EXCEPT !.cand = c]
  <2>1. what.voter \in Voters /\ what.choices \in Choices
    BY NoCallHolds
  <2>2. Begin(h, "nominate", what)
    BY <1>2 DEF Nominate
  <2>3. CallsHold'
    <3> HIDE DEF what
    <3>1. QED
      BY <2>1, <2>2, BeginHolds
  <2>4. QED
    BY <2>2, <2>3 DEF Begin, tables
<1>3. ASSUME NEW v \in Voters, IssueBoothCredential(h, v)
      PROVE  CallsHold' /\ UNCHANGED <<hasVoted, votes, ballots>>
  <2> DEFINE what == [NoCall EXCEPT !.voter = v]
  <2>1. what.voter \in Voters /\ what.choices \in Choices
    BY NoCallHolds
  <2>2. Begin(h, "issue", what)
    BY <1>3 DEF IssueBoothCredential
  <2>3. CallsHold'
    <3> HIDE DEF what
    <3>1. QED
      BY <2>1, <2>2, BeginHolds
  <2>4. QED
    BY <2>2, <2>3 DEF Begin, tables
<1>4. ASSUME NEW v \in Voters, NEW C \in Choices, NEW b \in BOOLEAN, CastVote(h, v, C, b)
      PROVE  CallsHold' /\ UNCHANGED <<hasVoted, votes, ballots>>
  <2> DEFINE what == [NoCall EXCEPT !.voter = v, !.choices = C, !.booth = b]
  <2>1. what.voter \in Voters /\ what.choices \in Choices
    BY NoCallHolds
  <2>2. Begin(h, "ballot", what)
    BY <1>4 DEF CastVote
  <2>3. CallsHold'
    <3> HIDE DEF what
    <3>1. QED
      BY <2>1, <2>2, BeginHolds
  <2>4. QED
    BY <2>2, <2>3 DEF Begin, tables
<1>5. CASE StartCertification(h)
  BY <1>5, NoCallHolds, BeginHolds DEF StartCertification, Begin, tables
<1>6. QED
  BY <1>1, <1>2, <1>3, <1>4, <1>5 DEF Start

\* Every other statement of a handler, and its death, leaves the ballots alone.
LEMMA OtherStep ==
    ASSUME CallsHold, NEW h \in Handlers, (Step(h) /\ ~Record(h)) \/ Die(h)
    PROVE  CallsHold' /\ UNCHANGED <<hasVoted, votes, ballots>>
<1>1. \E place : Goto(h, place)
  BY DEF Step, Sync, AddCandidate, Issue, ReadCandidates, Clear, Initiate, Certify, Die
<1>2. CallsHold'
  BY <1>1, GotoHolds
<1>3. UNCHANGED <<hasVoted, votes, ballots>>
  BY DEF Step, Sync, AddCandidate, Issue, ReadCandidates, Clear, Initiate, Certify, Die, tables
<1>4. QED
  BY <1>2, <1>3

\* The clock, managers and the end of the chain leave calls and ballots alone.
LEMMA StatementStep ==
    ASSUME \/ Tick
           \/ \E s \in Edits : Update(s)
           \/ \E c \in Candidates : ReviewCandidate(c)
           \/ \E approved \in BOOLEAN : EndChain(approved)
           \/ PublishResults
    PROVE  UNCHANGED <<call, hasVoted, votes, ballots>>
BY DEF Tick, Update, ReviewCandidate, EndChain, PublishResults, tables

LEMMA RollsStep == Rolls /\ [Next]_vars => Rolls'
<1>1. SUFFICES ASSUME Rolls, [Next]_vars PROVE Rolls'
  OBVIOUS
<1>2. ASSUME CallsHold', UNCHANGED <<hasVoted, votes, ballots>>
      PROVE  Rolls'
  BY <1>1, <1>2, TablesKept DEF Rolls
<1>3. ASSUME NEW h \in Handlers, Start(h)
      PROVE  Rolls'
  BY <1>1, <1>2, <1>3, StartStep DEF Rolls
<1>4. ASSUME NEW h \in Handlers, Step(h) \/ Die(h)
      PROVE  Rolls'
  <2>1. CASE Record(h)
    BY <1>1, <2>1, RecordStep
  <2>2. CASE ~Record(h)
    BY <1>1, <1>2, <1>4, <2>2, OtherStep DEF Rolls
  <2>3. QED
    BY <2>1, <2>2
<1>5. ASSUME UNCHANGED <<call, hasVoted, votes, ballots>>
      PROVE  Rolls'
  BY <1>1, <1>2, <1>5 DEF Rolls, CallsHold
<1>6. CASE UNCHANGED vars
  BY <1>5, <1>6 DEF vars, tables
<1>7. CASE Next
  BY <1>3, <1>4, <1>5, <1>7, StatementStep DEF Next
<1>8. QED
  BY <1>1, <1>6, <1>7

LEMMA RollsAlways == Spec => []Rolls
BY RollsInit, RollsStep, PTL DEF Spec

\* However ballots overlap and handlers die, nobody has two votes for one position.
THEOREM VotedOnce == Spec => []OneVotePerPosition
<1>1. Rolls => OneVotePerPosition
  BY DEF Rolls
<1>2. QED
  BY <1>1, RollsAlways, PTL

\* However ballots overlap and handlers die, a ballot is recorded whole or not at all.
THEOREM BallotsWhole == Spec => []RecordedWhole
<1>1. Rolls => RecordedWhole
  BY DEF Rolls
<1>2. QED
  BY <1>1, RollsAlways, PTL

-----------------------------------------------------------------------------
(* Ballots, one call at a time *)

\* What call h has checked is still so: the voting is open and the voter has not voted, the
\* candidates are approved.
Minded(h) ==
    /\ pc[h] \in {"ballot", "record"} => VotingPhase /\ call[h].voter \notin hasVoted
    /\ pc[h] = "record" => \A c \in call[h].choices : cand[c] = "APPROVED"
    /\ pc[h] = "issue" => call[h].voter \notin hasVoted

OneAtATime == \A g, h \in Handlers : pc[g] # "idle" /\ pc[h] # "idle" => g = h

Orderly ==
    /\ OneAtATime
    /\ \A h \in Handlers : Minded(h)
    /\ credential \cap hasVoted = {}

Places == DOMAIN pc = Handlers

Ruled == Places /\ (mode = "serial" => Orderly)

\* Free, one call at a time, means that no call is under way.
LEMMA FreeMeansIdle ==
    ASSUME mode = "serial", Free
    PROVE  \A h \in Handlers : pc[h] = "idle"
<1> DEFINE W == {h \in Handlers : pc[h] # "idle"}
<1>1. IsFiniteSet(W)
  BY ElectionsAssumption, FS_Subset
<1>2. Cardinality(W) \in Nat /\ Cardinality(W) < 1
  BY <1>1, FS_CardinalityType DEF Free, Limit
<1>3. W = {}
  BY <1>1, <1>2, FS_EmptySet
<1>4. QED
  BY <1>3

LEMMA RuledInit == Init => Ruled
BY DEF Init, Ruled, Places, Orderly, OneAtATime, Minded

\* A call begins when no other is under way.
LEMMA BeginOrderly ==
    ASSUME mode = "serial", Places, CallsHold, Orderly, NEW h \in Handlers, NEW place, NEW what,
           Begin(h, place, what), place \notin {"record"},
           place = "ballot" => VotingPhase /\ what.voter \notin hasVoted,
           place = "issue" => what.voter \notin hasVoted
    PROVE  Orderly'
<1>1. \A g \in Handlers : pc[g] = "idle"
  BY FreeMeansIdle DEF Begin
<1>2. /\ pc'[h] = place /\ call'[h] = what
      /\ \A g \in Handlers \ {h} : pc'[g] = "idle"
      /\ UNCHANGED <<credential, hasVoted, status, period>>
  BY <1>1 DEF Begin, Places, CallsHold, tables
<1>3. VotingPhase' <=> VotingPhase
  BY <1>2 DEF VotingPhase, Now
<1>4. \A g \in Handlers : Minded(g)'
  BY <1>2, <1>3 DEF Minded
<1>5. QED
  BY <1>2, <1>4 DEF Orderly, OneAtATime

LEMMA StartOrderly ==
    ASSUME mode = "serial", Places, CallsHold, Orderly, NEW h \in Handlers, Start(h)
    PROVE  Orderly'
<1>1. ASSUME Look(h) \/ StartCertification(h) PROVE Orderly'
  BY <1>1, BeginOrderly DEF Look, StartCertification
<1>2. ASSUME NEW c \in Candidates, Nominate(h, c) PROVE Orderly'
  BY <1>2, BeginOrderly DEF Nominate
<1>3. ASSUME NEW v \in Voters, IssueBoothCredential(h, v) PROVE Orderly'
  <2> DEFINE what == [NoCall EXCEPT !.voter = v]
  <2>1. what.voter = v
    BY NoCallHolds
  <2>2. Begin(h, "issue", what) /\ v \notin hasVoted
    BY <1>3 DEF IssueBoothCredential, MayAskCredential
  <2> HIDE DEF what
  <2>3. QED
    BY <2>1, <2>2, BeginOrderly
<1>4. ASSUME NEW v \in Voters, NEW C \in Choices, NEW b \in BOOLEAN, CastVote(h, v, C, b)
      PROVE  Orderly'
  <2> DEFINE what == [NoCall EXCEPT !.voter = v, !.choices = C, !.booth = b]
  <2>1. what.voter = v
    BY NoCallHolds
  <2>2. Begin(h, "ballot", what) /\ v \notin hasVoted /\ VotingPhase
    BY <1>4 DEF CastVote
  <2> HIDE DEF what
  <2>3. QED
    BY <2>1, <2>2, BeginOrderly
<1>5. QED
  BY <1>1, <1>2, <1>3, <1>4 DEF Start

\* A call that is under way is the only one.
LEMMA OnlyCall ==
    ASSUME Places, CallsHold, Orderly, NEW h \in Handlers, pc[h] # "idle", NEW place, Goto(h, place)
    PROVE  /\ pc'[h] = place
           /\ place # "idle" => call' = call
           /\ \A g \in Handlers \ {h} : pc[g] = "idle" /\ pc'[g] = "idle"
           /\ OneAtATime'
           /\ \A g \in Handlers \ {h} : Minded(g)'
BY DEF Places, Orderly, OneAtATime, Goto, Minded

LEMMA StepOrderly ==
    ASSUME Places, CallsHold, Orderly, NEW h \in Handlers, (Step(h) /\ ~Record(h)) \/ Die(h)
    PROVE  Orderly'
<1>1. PICK place : Goto(h, place)
  BY DEF Step, Sync, AddCandidate, Issue, ReadCandidates, Clear, Initiate, Certify, Die
<1>2. pc[h] # "idle"
  BY DEF Step, Sync, AddCandidate, Issue, ReadCandidates, Clear, Initiate, Certify, Die, At
<1>3. hasVoted' = hasVoted
  BY DEF Step, Sync, AddCandidate, Issue, ReadCandidates, Clear, Initiate, Certify, Die, tables
<1>4. credential' \cap hasVoted = {}
  <2>1. CASE Issue(h)
    BY <2>1 DEF Issue, At, Orderly, Minded
  <2>2. CASE ~Issue(h)
    BY <2>2 DEF Step, Sync, AddCandidate, ReadCandidates, Clear, Initiate, Certify, Die, tables, Orderly
  <2>3. QED
    BY <2>1, <2>2
<1>5. pc'[h] = place /\ OneAtATime' /\ \A g \in Handlers \ {h} : Minded(g)'
  BY <1>1, <1>2, OnlyCall
<1>6. Minded(h)'
  <2>1. CASE ReadCandidates(h)
    <3>1. PICK to \in {"record", "idle"} :
             Goto(h, to) /\ (to = "record" => \A c \in call[h].choices : cand[c] = "APPROVED")
      BY <2>1 DEF ReadCandidates, ValidChoice
    <3>2. pc'[h] = to /\ (to = "record" => call' = call)
      BY <3>1, <1>2, OnlyCall
    <3>3. UNCHANGED <<status, period, cand, hasVoted>> /\ pc[h] = "ballot"
      BY <2>1 DEF ReadCandidates, tables, At
    <3>4. VotingPhase /\ call[h].voter \notin hasVoted
      BY <3>3 DEF Orderly, Minded
    <3>5. VotingPhase'
      BY <3>3, <3>4 DEF VotingPhase, Now
    <3>6. QED
      BY <3>1, <3>2, <3>3, <3>4, <3>5 DEF Minded
  <2>2. CASE ~ReadCandidates(h)
    <3>1. PICK to \in {"idle", "certify"} : Goto(h, to)
      BY <2>2 DEF Step, Sync, AddCandidate, Issue, Clear, Initiate, Certify, Die
    <3>2. pc'[h] = to
      BY <3>1, <1>2, OnlyCall
    <3>3. QED
      BY <3>2 DEF Minded
  <2>3. QED
    BY <2>1, <2>2
<1>7. QED
  BY <1>3, <1>4, <1>5, <1>6 DEF Orderly

LEMMA RecordOrderly ==
    ASSUME Places, CallsHold, Orderly, NEW h \in Handlers, Record(h)
    PROVE  Orderly'
<1>1. PICK place \in {"clear", "idle"} : Goto(h, place)
  BY DEF Record
<1>2. pc[h] = "record"
  BY DEF Record, At
<1>3. pc'[h] = place /\ OneAtATime' /\ \A g \in Handlers \ {h} : Minded(g)'
  BY <1>1, <1>2, OnlyCall
<1>4. Minded(h)'
  BY <1>3 DEF Minded
<1>5. \/ hasVoted' = hasVoted \cup {call[h].voter} /\ credential' = credential \ {call[h].voter}
      \/ hasVoted' = hasVoted /\ credential' = credential
  BY DEF Record
<1>6. credential' \cap hasVoted' = {}
  BY <1>5 DEF Orderly
<1>7. QED
  BY <1>3, <1>4, <1>6 DEF Orderly

\* The clock, managers and the end of the chain wait until no call is under way.
LEMMA StatementOrderly ==
    ASSUME mode = "serial", Orderly,
           \/ Tick
           \/ \E s \in Edits : Update(s)
           \/ \E c \in Candidates : ReviewCandidate(c)
           \/ \E approved \in BOOLEAN : EndChain(approved)
           \/ PublishResults
    PROVE  Orderly'
<1>1. Free /\ UNCHANGED <<pc, credential, hasVoted>>
  BY DEF Tick, Update, ReviewCandidate, EndChain, PublishResults, tables
<1>2. \A h \in Handlers : pc[h] = "idle" /\ pc'[h] = "idle"
  BY <1>1, FreeMeansIdle
<1>3. QED
  BY <1>1, <1>2 DEF Orderly, OneAtATime, Minded

LEMMA RuledStep ==
    ASSUME Rolls, Ruled, [Next]_vars
    PROVE  Ruled' /\ mode' = mode
<1>1. mode' = mode /\ Places'
  <2>1. mode' = mode
    BY Zenon DEF Next, vars, Start, Step, Look, Nominate, IssueBoothCredential, CastVote,
       StartCertification, Begin, Sync, AddCandidate, Issue, ReadCandidates, Record, Clear, Initiate,
       Certify, Die, Tick, Update, ReviewCandidate, EndChain, PublishResults
  <2>2. ASSUME NEW h \in Handlers, Start(h) PROVE Places'
    BY <2>2 DEF Ruled, Places, Start, Look, Nominate, IssueBoothCredential, CastVote,
       StartCertification, Begin
  <2>3. ASSUME NEW h \in Handlers, Step(h) \/ Die(h) PROVE Places'
    BY <2>3 DEF Ruled, Places, Step, Sync, AddCandidate, Issue, ReadCandidates, Record, Clear,
       Initiate, Certify, Die, Goto
  <2>4. UNCHANGED pc => Places'
    BY DEF Ruled, Places
  <2>5. QED
    BY <2>1, <2>2, <2>3, <2>4 DEF Next, vars, Tick, Update, ReviewCandidate, EndChain, PublishResults
<1>2. SUFFICES ASSUME mode = "serial" PROVE Orderly'
  BY <1>1 DEF Ruled
<1>3. Places /\ CallsHold /\ Orderly
  BY <1>2 DEF Ruled, Rolls
<1>4. ASSUME NEW h \in Handlers, Start(h) PROVE Orderly'
  BY <1>2, <1>3, <1>4, StartOrderly
<1>5. ASSUME NEW h \in Handlers, Step(h) \/ Die(h) PROVE Orderly'
  BY <1>3, <1>5, StepOrderly, RecordOrderly
<1>6. CASE UNCHANGED vars
  BY <1>3, <1>6 DEF vars, tables, Orderly, OneAtATime, Minded, VotingPhase, Now
<1>7. QED
  BY <1>2, <1>3, <1>4, <1>5, <1>6, StatementOrderly DEF Next

\* What a step does to one voter's ballots, one call at a time.
Rightly(v) ==
    /\ ballots'[v] # ballots[v] =>
          /\ ballots[v] = {}
          /\ status = "VOTING_OPEN" /\ Now = "voting"
          /\ \A c \in Candidates : <<v, c>> \in votes' => cand[c] = "APPROVED"
    /\ v \in credential' => v \notin hasVoted'

LEMMA RecordRightly ==
    ASSUME Rolls, Orderly, NEW h \in Handlers, Record(h), NEW v \in Voters, ballots'[v] # ballots[v]
    PROVE  /\ ballots[v] = {}
           /\ status = "VOTING_OPEN" /\ Now = "voting"
           /\ \A c \in Candidates : <<v, c>> \in votes' => cand[c] = "APPROVED"
<1>1. /\ Accepted(call[h].voter, call[h].choices)
      /\ ballots' = [ballots EXCEPT ![call[h].voter] = @ \cup {call[h].choices}]
      /\ votes' = votes \cup {<<call[h].voter, c>> : c \in {d \in call[h].choices : ~Duplicate(call[h].voter, d)}}
  BY DEF Record
<1>2. call[h].voter = v
  BY <1>1 DEF Rolls, RollsHold
<1>3. VotingPhase /\ v \notin hasVoted /\ \A c \in call[h].choices : cand[c] = "APPROVED"
  BY <1>2 DEF Record, At, Orderly, Minded
<1>4. ballots[v] = {} /\ \A c \in Candidates : <<v, c>> \notin votes
  <2>1. ballots[v] = {}
    BY <1>3 DEF Rolls, RecordedWhole
  <2>2. {c \in Candidates : <<v, c>> \in votes} = {}
    BY <2>1 DEF Rolls, RecordedWhole
  <2>3. QED
    BY <2>1, <2>2
<1>5. \A c \in Candidates : <<v, c>> \in votes' => c \in call[h].choices
  BY <1>1, <1>4
<1>6. QED
  BY <1>3, <1>4, <1>5 DEF VotingPhase

(* Calls that do not overlap record a ballot of somebody who had none, for   *)
(* approved candidates and while the voting is open; a voter who has voted  *)
(* holds no credential.                                                     *)
THEOREM BallotsAreRuled == Spec => BallotsByTheRules
<1>1. ASSUME Rolls, Ruled, [Next]_vars, mode = "serial", NEW v \in Voters
      PROVE  Rightly(v)
  <2>1. Orderly /\ Orderly'
    BY <1>1, RuledStep DEF Ruled
  <2>2. v \in credential' => v \notin hasVoted'
    BY <2>1 DEF Orderly
  <2>3. ballots' = ballots \/ \E h \in Handlers : Record(h)
    <3>1. ASSUME NEW h \in Handlers, Start(h) PROVE ballots' = ballots
      BY <1>1, <3>1, StartStep DEF Rolls
    <3>2. ASSUME NEW h \in Handlers, Step(h) \/ Die(h), ~Record(h) PROVE ballots' = ballots
      BY <1>1, <3>2, OtherStep DEF Rolls
    <3>3. UNCHANGED vars => ballots' = ballots
      BY DEF vars, tables
    <3>4. QED
      BY <1>1, <3>1, <3>2, <3>3, StatementStep DEF Next
  <2>4. QED
    BY <1>1, <2>1, <2>2, <2>3, RecordRightly DEF Rightly
<1>2. Rolls /\ Ruled /\ [Next]_vars =>
          [mode = "serial" => \A v \in Voters :
              /\ ballots'[v] # ballots[v] =>
                    /\ ballots[v] = {}
                    /\ status = "VOTING_OPEN" /\ Now = "voting"
                    /\ \A c \in Candidates : <<v, c>> \in votes' => cand[c] = "APPROVED"
              /\ v \in credential' => v \notin hasVoted']_vars
  BY <1>1 DEF Rightly
<1>3. Rolls /\ Ruled /\ [Next]_vars => Ruled'
  BY RuledStep
<1>4. QED
  BY RollsInit, RollsStep, RuledInit, <1>2, <1>3, PTL DEF Spec, BallotsByTheRules
=============================================================================
