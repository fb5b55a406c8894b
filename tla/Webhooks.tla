------------------------------ MODULE Webhooks ------------------------------
(***************************************************************************)
(* Outgoing webhooks (apps/api/src/integrations): one subscription, the    *)
(* listener that turns platform events into deliveries, and the attempts   *)
(* to post one, each with a row of its own that is given the answer.       *)
(* Without a queue the caller makes the attempts, one after the other.     *)
(* Where there is a queue the attempt should be a job, but BullMQ refuses  *)
(* the id the code gives it, so that the row is all that comes of it.      *)
(***************************************************************************)
EXTENDS QueueWorkers, Sequences

CONSTANTS
    Events,         \* what may be announced: platform events and test deliveries
    Tests,          \* the test deliveries among them
    MaxAttempts     \* MAX_ATTEMPTS

ASSUME WebhooksAssumption ==
    /\ Events # {}
    /\ Tests \subseteq Events
    /\ MaxAttempts \in Nat \ {0}

VARIABLES
    redis,      \* whether there is a queue
    hook,       \* the subscription: "none", "enabled" or "deleted"
    event,      \* event[e]: "none", "emitted", or "heard" when the listener read the hooks
    log,        \* log[e]: the delivery rows of e, in the order they were created
    seen,       \* seen[e]: how often the endpoint got e
    accepted,   \* accepted[e]: how often it accepted e
    delivery    \* delivery[w]: the event, row and attempt w works on, and the answer

subscription == <<redis, hook>>
endpoint == <<seen, accepted>>
webhookVars == <<subscription, event, log, endpoint, delivery>>

NoDelivery == [event |-> CHOOSE e \in Events : TRUE, row |-> 0, attempt |-> 1, ok |-> FALSE]

WebhookInit ==
    /\ redis \in BOOLEAN
    /\ hook \in {"none", "enabled"}
    /\ event = [e \in Events |-> "none"]
    /\ log = [e \in Events |-> <<>>]
    /\ seen = [e \in Events |-> 0]
    /\ accepted = [e \in Events |-> 0]
    /\ delivery = [w \in Workers |-> NoDelivery]

Finished(w) ==
    /\ Arrive(w, "idle")
    /\ delivery' = [delivery EXCEPT ![w] = NoDelivery]

-----------------------------------------------------------------------------
(* The subscription *)

Subscribe ==
    /\ hook = "none"
    /\ hook' = "enabled"
    /\ UNCHANGED <<redis, event, log, endpoint, delivery, queueVars>>

\* Deliveries that were begun carry the url and the secret: they go on.
Unsubscribe ==
    /\ hook = "enabled"
    /\ hook' = "deleted"
    /\ UNCHANGED <<redis, event, log, endpoint, delivery, queueVars>>

\* e is not under way; each event is announced once.
Fresh(e) ==
    /\ event[e] = "none"
    /\ log[e] = <<>>
    /\ \A w \in Workers : at[w] # "idle" => delivery[w].event # e

\* Some part of the system emits a platform event.
Emit(e) ==
    /\ Fresh(e)
    /\ event' = [event EXCEPT ![e] = "emitted"]
    /\ UNCHANGED <<subscription, log, endpoint, delivery, queueVars>>

\* An operator asks for a test delivery.
Test(w, e) ==
    /\ Idle(w)
    /\ hook = "enabled"
    /\ Fresh(e)
    /\ Arrive(w, "row")
    /\ delivery' = [delivery EXCEPT ![w] = [NoDelivery EXCEPT !.event = e]]
    /\ UNCHANGED <<subscription, event, log, endpoint>>

\* The listener reads who is subscribed by now.
Listen(w, e) ==
    /\ Idle(w)
    /\ event[e] = "emitted"
    /\ event' = [event EXCEPT ![e] = "heard"]
    /\ IF hook = "enabled"
       THEN /\ Arrive(w, "row")
            /\ delivery' = [delivery EXCEPT ![w] = [NoDelivery EXCEPT !.event = e]]
       ELSE UNCHANGED <<queueVars, delivery>>
    /\ UNCHANGED <<subscription, log, endpoint>>

-----------------------------------------------------------------------------
(* One attempt *)

\* enqueueDelivery: the row first, then the job, or at once the attempt itself.
CreateRow(w) ==
    LET d == delivery[w] IN
    /\ at[w] = "row"
    /\ log' = [log EXCEPT ![d.event] = Append(@, [attempt |-> d.attempt, answer |-> "open"])]
    /\ delivery' = [delivery EXCEPT ![w].row = Len(log[d.event]) + 1]
    /\ Arrive(w, IF redis THEN "add" ELSE "post")
    /\ UNCHANGED <<subscription, event, endpoint>>

\* BullMQ takes no id of its caller's that holds one ':': add throws, and so does the call.
AddJob(w) ==
    /\ at[w] = "add"
    /\ Finished(w)
    /\ UNCHANGED <<subscription, event, log, endpoint>>

\* Refused, accepted, or accepted with an answer that is not ok or comes after the timeout.
Post(w) ==
    LET e == delivery[w].event IN
    /\ at[w] = "post"
    /\ seen' = [seen EXCEPT ![e] = @ + 1]
    /\ \E takes, ok \in BOOLEAN :
          /\ ok => takes
          /\ accepted' = [accepted EXCEPT ![e] = @ + (IF takes THEN 1 ELSE 0)]
          /\ delivery' = [delivery EXCEPT ![w].ok = ok]
    /\ Arrive(w, "log")
    /\ UNCHANGED <<subscription, event, log>>

\* Faulty variants: one attempt too many; a failed attempt is the last.
Again_OffByOne(d) == ~d.ok /\ d.attempt <= MaxAttempts
Again_Never(d) == FALSE

Again(d) == ~d.ok /\ d.attempt < MaxAttempts

\* updateDelivery; a failed attempt is followed by enqueueDelivery of the next.
LogAnswer(w) ==
    LET d == delivery[w] IN
    /\ at[w] = "log"
    /\ log' = [log EXCEPT ![d.event][d.row].answer = IF d.ok THEN "success" ELSE "failed"]
    /\ IF Again(d)
       THEN /\ Arrive(w, "row")
            /\ delivery' = [delivery EXCEPT ![w].attempt = @ + 1]
       ELSE Finished(w)
    /\ UNCHANGED <<subscription, event, endpoint>>

-----------------------------------------------------------------------------
(* Faults *)

\* The process dies, or the statement it waits for fails: nothing takes the delivery up again.
DeliveryFails(w) ==
    /\ at[w] \in {"row", "add", "post", "log"}
    /\ Fails(w, "idle")
    /\ delivery' = [delivery EXCEPT ![w] = NoDelivery]
    /\ UNCHANGED <<subscription, event, log, endpoint>>

Deliver(w) ==
    \/ CreateRow(w) \/ AddJob(w) \/ Post(w) \/ LogAnswer(w)
    \/ \E e \in Events : Listen(w, e)

WebhookOther ==
    \/ Subscribe \/ Unsubscribe
    \/ \E e \in Events \ Tests : Emit(e)
    \/ \E w \in Workers : DeliveryFails(w) \/ \E e \in Tests : Test(w, e)

-----------------------------------------------------------------------------
(* Properties *)

WebhooksTypeOK ==
    /\ redis \in BOOLEAN
    /\ hook \in {"none", "enabled", "deleted"}
    /\ event \in [Events -> {"none", "emitted", "heard"}]
    /\ \A e \in Events : \A n \in 1..Len(log[e]) :
          log[e][n] \in [attempt : 1..MaxAttempts, answer : {"open", "failed", "success"}]
    /\ \A e \in Events : accepted[e] <= seen[e]

\* The log of deliveries can be believed, whatever fails and however deliveries overlap.  The
\* rows of an event are its attempts 1, 2, ..., at most MAX_ATTEMPTS, each made because the one
\* before it failed, so that an event whose acceptance is logged is never posted again.  A row
\* with an answer was posted, one that says success was accepted, and nothing is posted that
\* has no row.
LogTellsAttempts ==
    \A e \in Events :
        /\ Len(log[e]) <= MaxAttempts
        /\ seen[e] <= Len(log[e])
        /\ \A n \in 1..Len(log[e]) :
              /\ log[e][n].attempt = n
              /\ n < Len(log[e]) => log[e][n].answer = "failed"
              /\ log[e][n].answer # "open" => n <= seen[e]
              /\ log[e][n].answer = "success" => accepted[e] > 0

\* The event was accepted, or given up after MAX_ATTEMPTS attempts.
RowsSaying(e, answer) == {n \in 1..Len(log[e]) : log[e][n].answer = answer}
Told(e) ==
    RowsSaying(e, "success") # {} \/ Cardinality(RowsSaying(e, "failed")) = MaxAttempts
=============================================================================
