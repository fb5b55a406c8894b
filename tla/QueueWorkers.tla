---------------------------- MODULE QueueWorkers ----------------------------
(***************************************************************************)
(* What the senders of outgoing messages share: calls, listeners and       *)
(* BullMQ workers of the API that wait between two statements.  BullMQ     *)
(* hands a job to one worker at a time; when that worker dies, the job is  *)
(* found stalled and handed out again, once.                               *)
(***************************************************************************)
EXTENDS Naturals, FiniteSets

CONSTANTS
    Workers,        \* calls and workers that may overlap
    MaxFailures     \* bound on the deaths and failures where workers do not overlap

ASSUME WorkersAssumption ==
    /\ Workers # {} /\ IsFiniteSet(Workers)
    /\ MaxFailures \in Nat \ {0}

VARIABLES
    overlap,    \* whether all of Workers are there, or one
    failures,   \* processes that died and statements that failed so far
    at          \* at[w]: where w is

queueVars == <<overlap, failures, at>>

QueueInit ==
    /\ overlap \in BOOLEAN
    /\ failures = 0
    /\ at = [w \in Workers |-> "idle"]

OneWorker == CHOOSE w \in Workers : TRUE

Idle(w) == at[w] = "idle" /\ (overlap \/ w = OneWorker)

Move(w, place) == at' = [at EXCEPT ![w] = place]

Arrive(w, place) ==
    /\ Move(w, place)
    /\ UNCHANGED <<overlap, failures>>

\* w fails where it is; a worker that died is replaced.
Fails(w, place) ==
    /\ at[w] # "idle"
    /\ ~overlap
    /\ failures < MaxFailures
    /\ failures' = failures + 1
    /\ Move(w, place)
    /\ UNCHANGED overlap
=============================================================================
