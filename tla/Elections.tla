----------------------------- MODULE Elections ------------------------------
(***************************************************************************)
(* One campus election (apps/api/src/elections): nominations, the phases   *)
(* that follow the calendar, booth credentials, ballots, and certification *)
(* by a workflow.  The election row, the voter row and the candidates are  *)
(* read before the transaction that records a ballot, and every change of  *)
(* the election's status is an unconditional update by id.                 *)
(***************************************************************************)
EXTENDS Integers, FiniteSets, Sequences

CONSTANTS
    Voters,
    Candidates,
    PositionOf,   \* PositionOf[c]: the position candidate c stands for
    Edits,        \* statuses a manager may set by hand
    Handlers      \* the calls that may overlap in mode "overlap"

ASSUME ElectionsAssumption ==
    /\ Voters # {} /\ Candidates # {} /\ Edits # {}
    /\ IsFiniteSet(Handlers)

VARIABLES
    mode,        \* "serial" or "overlap"
    period,      \* where the clock is between the four dates of the election
    status,      \* the stored ElectionStatus
    cand,        \* cand[c]: CandidateStatus, "none" before the nomination
    hasVoted,    \* voters whose voter row says so
    credential,  \* voters whose row holds a ballot token
    votes,       \* the ElectionVote rows: <<v, c>>
    ballots,     \* ballots[v]: the choices of the ballots of v that were answered as recorded
    chain,       \* the certification chain: "none", "open" or "over"
    instance,    \* whether the election row holds its workflowInstanceId
    pc, call

tables == <<status, cand, hasVoted, credential, votes, ballots, chain, instance>>
vars == <<mode, period, tables, pc, call>>

Periods == <<"before", "nomination", "between", "voting", "after">>

Statuses == {"DRAFT", "NOMINATIONS_OPEN", "NOMINATIONS_CLOSED", "VOTING_OPEN",
             "VOTING_CLOSED", "CERTIFICATION_PENDING", "PUBLISHED", "ARCHIVED"}

Terminal == {"CERTIFICATION_PENDING", "PUBLISHED", "ARCHIVED"}

NoCall == [voter |-> CHOOSE v \in Voters : TRUE, choices |-> {}, booth |-> FALSE,
           next |-> "DRAFT", cand |-> CHOOSE c \in Candidates : TRUE]

Init ==
    /\ mode \in {"serial", "overlap"}
    /\ period = 1
    /\ status = "DRAFT"
    /\ cand = [c \in Candidates |-> "none"]
    /\ hasVoted = {}
    /\ credential = {}
    /\ votes = {}
    /\ ballots = [v \in Voters |-> {}]
    /\ chain = "none"
    /\ instance = FALSE
    /\ pc = [h \in Handlers |-> "idle"]
    /\ call = [h \in Handlers |-> NoCall]

Limit == IF mode = "serial" THEN 1 ELSE Cardinality(Handlers)

Free == Cardinality({h \in Handlers : pc[h] # "idle"}) < Limit

Begin(h, place, what) ==
    /\ pc[h] = "idle"
    /\ Free
    /\ pc' = [pc EXCEPT ![h] = place]
    /\ call' = [call EXCEPT ![h] = what]
    /\ UNCHANGED <<mode, period, tables>>

At(h, place) == pc[h] = place

Goto(h, place) ==
    /\ pc' = [pc EXCEPT ![h] = place]
    /\ call' = IF place = "idle" THEN [call EXCEPT ![h] = NoCall] ELSE call

Now == Periods[period]

\* Where deriveElectionStatusFromDates returns null the status stays.
NoPhase == status

OnCalendar == status \notin Terminal

\* deriveElectionStatusFromDates.
Derived ==
    CASE ~OnCalendar -> NoPhase
      [] OnCalendar /\ Now = "before" -> "DRAFT"
      [] OnCalendar /\ Now = "nomination" -> "NOMINATIONS_OPEN"
      [] OnCalendar /\ Now = "between" -> "NOMINATIONS_CLOSED"
      [] OnCalendar /\ Now = "voting" -> "VOTING_OPEN"
      [] OnCalendar /\ Now = "after" ->
            IF status \in {"VOTING_OPEN", "NOMINATIONS_CLOSED", "VOTING_CLOSED"}
            THEN "VOTING_CLOSED" ELSE NoPhase

NominationPhase == status = "NOMINATIONS_OPEN" /\ Now = "nomination"

VotingPhase == status = "VOTING_OPEN" /\ Now = "voting"

-----------------------------------------------------------------------------
Tick ==
    /\ period < Len(Periods)
    /\ Free
    /\ period' = period + 1
    /\ UNCHANGED <<mode, tables, pc, call>>

(* The scheduler and syncLifecycle *)
Look(h) ==
    /\ Derived # status
    /\ Begin(h, "sync", [NoCall EXCEPT !.next = Derived])

Sync(h) ==
    /\ At(h, "sync")
    /\ status' = call[h].next
    /\ Goto(h, "idle")
    /\ UNCHANGED <<mode, period, cand, hasVoted, credential, votes, ballots, chain, instance>>

\* A manager's update; it does not look at the status there is.
Update(s) ==
    /\ Free
    /\ s # status
    /\ status' = s
    /\ UNCHANGED <<mode, period, cand, hasVoted, credential, votes, ballots, chain, instance, pc, call>>

Nominate(h, c) ==
    /\ NominationPhase
    /\ Begin(h, "nominate", [NoCall EXCEPT !.cand = c])

\* The unique key refuses a second nomination.
AddCandidate(h) ==
    /\ At(h, "nominate")
    /\ cand' = IF cand[call[h].cand] = "none"
               THEN [cand EXCEPT ![call[h].cand] = "PENDING"] ELSE cand
    /\ Goto(h, "idle")
    /\ UNCHANGED <<mode, period, status, hasVoted, credential, votes, ballots, chain, instance>>

ReviewCandidate(c) ==
    /\ Free
    /\ cand[c] # "none"
    /\ \E s \in {"APPROVED", "REJECTED"} : s # cand[c] /\ cand' = [cand EXCEPT ![c] = s]
    /\ UNCHANGED <<mode, period, status, hasVoted, credential, votes, ballots, chain, instance, pc, call>>

-----------------------------------------------------------------------------
MayAskCredential(v) == VotingPhase /\ v \notin hasVoted

IssueBoothCredential(h, v) ==
    /\ MayAskCredential(v)
    /\ Begin(h, "issue", [NoCall EXCEPT !.voter = v])

Issue(h) ==
    /\ At(h, "issue")
    /\ credential' = credential \cup {call[h].voter}
    /\ Goto(h, "idle")
    /\ UNCHANGED <<mode, period, status, cand, hasVoted, votes, ballots, chain, instance>>

\* castVote and castBoothVote check the phase and the voter row; the booth finds
\* the row by its token.  Choices are candidates of different positions.
CastVote(h, v, choices, booth) ==
    /\ VotingPhase
    /\ v \notin hasVoted
    /\ booth => v \in credential
    /\ Begin(h, "ballot", [NoCall EXCEPT !.voter = v, !.choices = choices, !.booth = booth])

\* Faulty variant: any candidate of the election is taken.
ValidChoice_Any(c) == cand[c] # "none"

ValidChoice(c) == cand[c] = "APPROVED"

ReadCandidates(h) ==
    /\ At(h, "ballot")
    /\ Goto(h, IF \A c \in call[h].choices : ValidChoice(c) THEN "record" ELSE "idle")
    /\ UNCHANGED <<mode, period, tables>>

\* Faulty variant: the unique key names the candidate, too.
Duplicate_SameCandidate(v, c) == <<v, c>> \in votes

\* The unique key of a vote: election, voter hash and position.
Duplicate(v, c) == \E d \in Candidates : PositionOf[d] = PositionOf[c] /\ <<v, d>> \in votes

\* Faulty variant: duplicates are skipped and the rest is kept.
Accepted_SkippingDuplicates(v, choices) == TRUE

\* A duplicate fails the whole createMany, and the transaction with it.
Accepted(v, choices) == \A c \in choices : ~Duplicate(v, c)

\* The transaction of recordBallotChoices.
Record(h) ==
    LET v == call[h].voter
        choices == call[h].choices
    IN  /\ At(h, "record")
        /\ IF Accepted(v, choices)
           THEN /\ hasVoted' = hasVoted \cup {v}
                /\ votes' = votes \cup {<<v, c>> : c \in {d \in choices : ~Duplicate(v, d)}}
                /\ ballots' = [ballots EXCEPT ![v] = @ \cup {choices}]
                /\ credential' = credential \ {v}
                /\ Goto(h, IF call[h].booth THEN "clear" ELSE "idle")
           ELSE Goto(h, "idle") /\ UNCHANGED <<hasVoted, votes, ballots, credential>>
        /\ UNCHANGED <<mode, period, status, cand, chain, instance>>

\* updateVoter once more, outside the transaction.
Clear(h) ==
    /\ At(h, "clear")
    /\ credential' = credential \ {call[h].voter}
    /\ Goto(h, "idle")
    /\ UNCHANGED <<mode, period, status, cand, hasVoted, votes, ballots, chain, instance>>

-----------------------------------------------------------------------------
StartCertification(h) ==
    /\ status \in {"VOTING_CLOSED", "CERTIFICATION_PENDING"}
    /\ ~instance
    /\ Begin(h, "initiate", NoCall)

Initiate(h) ==
    /\ At(h, "initiate")
    /\ chain' = "open"
    /\ Goto(h, "certify")
    /\ UNCHANGED <<mode, period, status, cand, hasVoted, credential, votes, ballots, instance>>

Certify(h) ==
    /\ At(h, "certify")
    /\ status' = "CERTIFICATION_PENDING"
    /\ instance' = TRUE
    /\ Goto(h, "idle")
    /\ UNCHANGED <<mode, period, cand, hasVoted, credential, votes, ballots, chain>>

\* The chain ends; completeCertificationFromWorkflow publishes, a refusal leaves
\* the election as it is.
EndChain(approved) ==
    /\ Free
    /\ chain = "open"
    /\ chain' = "over"
    /\ status' = IF approved THEN "PUBLISHED" ELSE status
    /\ UNCHANGED <<mode, period, cand, hasVoted, credential, votes, ballots, instance, pc, call>>

\* publishResults looks at no status.
PublishResults ==
    /\ Free
    /\ status # "PUBLISHED"
    /\ status' = "PUBLISHED"
    /\ UNCHANGED <<mode, period, cand, hasVoted, credential, votes, ballots, chain, instance, pc, call>>

Die(h) ==
    /\ pc[h] # "idle"
    /\ Goto(h, "idle")
    /\ UNCHANGED <<mode, period, tables>>

-----------------------------------------------------------------------------
\* Ballots name at most one candidate for a position; others are refused.
Choices == {C \in SUBSET Candidates : \A c, d \in C : PositionOf[c] = PositionOf[d] => c = d}

Start(h) ==
    \/ Look(h)
    \/ \E c \in Candidates : Nominate(h, c)
    \/ \E v \in Voters : IssueBoothCredential(h, v)
    \/ \E v \in Voters, C \in Choices, b \in BOOLEAN : CastVote(h, v, C, b)
    \/ StartCertification(h)

Step(h) ==
    \/ Sync(h) \/ AddCandidate(h) \/ Issue(h) \/ ReadCandidates(h) \/ Record(h) \/ Clear(h)
    \/ Initiate(h) \/ Certify(h)

Next ==
    \/ \E h \in Handlers : Start(h) \/ Step(h) \/ Die(h)
    \/ Tick
    \/ \E s \in Edits : Update(s)
    \/ \E c \in Candidates : ReviewCandidate(c)
    \/ \E approved \in BOOLEAN : EndChain(approved)
    \/ PublishResults

Spec == Init /\ [][Next]_vars

-----------------------------------------------------------------------------
TypeOK ==
    /\ mode \in {"serial", "overlap"}
    /\ period \in DOMAIN Periods
    /\ status \in Statuses
    /\ cand \in [Candidates -> {"none", "PENDING", "APPROVED", "REJECTED"}]
    /\ hasVoted \subseteq Voters
    /\ credential \subseteq Voters
    /\ votes \subseteq Voters \X Candidates
    /\ ballots \in [Voters -> SUBSET SUBSET Candidates]
    /\ chain \in {"none", "open", "over"}
    /\ instance \in BOOLEAN
    /\ pc \in [Handlers -> {"idle", "sync", "nominate", "issue", "ballot", "record", "clear",
                            "initiate", "certify"}]
    /\ call \in [Handlers -> [voter : Voters, choices : SUBSET Candidates, booth : BOOLEAN,
                              next : Statuses, cand : Candidates]]

(* However ballots overlap and handlers die, nobody has two votes for one    *)
(* position.                                                                *)
OneVotePerPosition ==
    \A v \in Voters : \A c, d \in Candidates :
        (<<v, c>> \in votes /\ <<v, d>> \in votes /\ PositionOf[c] = PositionOf[d]) => c = d

(* However ballots overlap and handlers die, a voter is marked as having     *)
(* voted exactly when a ballot of theirs was recorded, and the votes counted *)
(* are those of the recorded ballots, whole.                                *)
RecordedWhole ==
    \A v \in Voters :
        /\ v \in hasVoted <=> ballots[v] # {}
        /\ {c \in Candidates : <<v, c>> \in votes} = UNION ballots[v]

(* Calls that do not overlap record a ballot of somebody who had none, while *)
(* the voting is open, and a voter who has voted holds no credential.       *)
BallotsByTheRules ==
    [][mode = "serial" =>
         \A v \in Voters :
            /\ ballots'[v] # ballots[v] =>
                  /\ ballots[v] = {}
                  /\ status = "VOTING_OPEN" /\ Now = "voting"
                  /\ \A c \in Candidates : <<v, c>> \in votes' => cand[c] = "APPROVED"
            /\ v \in credential' => v \notin hasVoted']_vars
=============================================================================
