--------------------------- MODULE Announcements ----------------------------
(***************************************************************************)
(* The workflow engine composed with the announcement of its decisions:    *)
(* when the completion handler of an approved instance has returned, the   *)
(* engine emits workflow.completed, and the webhooks' listener delivers it *)
(* while the engine goes on; when the handler throws, nothing is emitted.  *)
(* Notices share the workers but no state with these two, so a behaviour   *)
(* follows either the engine with its webhooks, or the webhooks with other *)
(* events and failures, or scheduled notices (scope).                      *)
(***************************************************************************)
EXTENDS Workflow, Webhooks, Notices

\* The completion of an instance is one of the platform's events, and no test delivery.
ASSUME AnnouncementsAssumption == Instances \subseteq Events \ Tests

VARIABLE scope    \* "engine", "webhooks" or "notices"

announcementVars == <<vars, queueVars, webhookVars, noticeVars, scope>>

AnnouncementsInit ==
    /\ Init /\ QueueInit /\ WebhookInit /\ NoticeInit
    /\ scope \in {"engine", "webhooks", "notices"}
    /\ hook = IF scope = "engine" THEN "enabled" ELSE "none"
    /\ scope = "engine" => ~redis
    /\ scope = "notices" => redis
    /\ scope = "engine" => ~overlap
    /\ scope # "notices" => recipient = CHOOSE f \in Audiences : TRUE

Platform == <<queueVars, subscription, log, endpoint, delivery, noticeVars, scope>>

LastApproval(c) == req[c].action = "APPROVE" /\ OnLastStep(c)

\* Faulty variant: the event is emitted with the update, before the completion handler.
Completing_AtWrite(c) == pc[c] = "fetched" /\ LastApproval(c)

\* Requests whose handleCompleted is about to return or to throw.
Completing(c) == pc[c] = "effect" /\ LastApproval(c)

\* A step of a request, with the event it emits unless its handler throws.
HandleAndEmit(c) ==
    /\ scope = "engine"
    /\ Handle(c)
    /\ event' = IF Completing(c) /\ pc'[c] # "lost"
                THEN [event EXCEPT ![req[c].inst] = "emitted"]
                ELSE event
    /\ UNCHANGED Platform

OtherEngineStep ==
    /\ scope = "engine"
    /\ \/ \E i \in Instances, u \in Initiators : Initiate(i, u)
       \/ \E c \in Calls, i \in Instances, u \in Users, a \in Actions : Fetch(c, i, u, a)
       \/ Sweep
    /\ UNCHANGED <<Platform, event>>

DeliverOn(w) ==
    /\ scope # "notices"
    /\ Deliver(w)
    /\ UNCHANGED <<vars, noticeVars, scope>>

\* While the engine is followed nothing depends on the subscription until the event is emitted.
OtherWebhookStep ==
    /\ \/ scope = "webhooks" /\ WebhookOther
       \/ scope = "engine" /\ Unsubscribe /\ \E i \in Instances : event[i] # "none"
    /\ UNCHANGED <<vars, noticeVars, scope>>

AttendTo(w) ==
    /\ scope = "notices"
    /\ Attend(w)
    /\ UNCHANGED <<vars, webhookVars, recipient, scope>>

OtherNoticeStep ==
    /\ scope = "notices"
    /\ NoticeOther
    /\ UNCHANGED <<vars, webhookVars, recipient, scope>>

AnnouncementsNext ==
    \/ \E c \in Calls : HandleAndEmit(c)
    \/ OtherEngineStep
    \/ \E w \in Workers : DeliverOn(w) \/ AttendTo(w)
    \/ OtherWebhookStep \/ OtherNoticeStep

\* Requests, listeners and workers that were begun go on, and notices' jobs are taken.
AnnouncementsSpec ==
    /\ AnnouncementsInit
    /\ [][AnnouncementsNext]_announcementVars
    /\ \A c \in Calls : WF_announcementVars(HandleAndEmit(c))
    /\ \A w \in Workers : WF_announcementVars(DeliverOn(w))
    /\ \A w \in Workers : WF_announcementVars(AttendTo(w))

-----------------------------------------------------------------------------
\* What subscribers are told is true: when a workflow is announced as completed, its instance
\* is approved, for good, and the effect of the approval was applied, although requests and
\* handlers fail between the update, the handler and the event.  (Engine requests and sweeps
\* one at a time; nothing applies the effect of a decision whose handler threw or died.)
AnnouncedIsTrue ==
    \A i \in Instances :
        (scope = "engine" /\ (event[i] # "none" \/ seen[i] > 0))
            => row[i].status = "APPROVED" /\ Effects(i) # {}

\* Where there is no queue a completed workflow is announced: the last approval, once stored
\* while somebody is subscribed, leads to an acceptance by the endpoint or to MAX_ATTEMPTS
\* logged attempts, unless the completion handler throws or the subscription is deleted
\* meanwhile.  Test deliveries that were begun end so too.
Approving(i) == \E c \in Calls : Completing(c) /\ req[c].inst = i
Threw(i) == \E c \in Calls : pc[c] = "lost" /\ LastApproval(c) /\ req[c].inst = i
Testing(e) == \E w \in Workers : at[w] = "row" /\ delivery[w].event = e

Announced ==
    /\ \A i \in Instances :
          (Approving(i) /\ hook = "enabled" /\ ~redis)
              ~> (Told(i) \/ Threw(i) \/ hook = "deleted")
    /\ \A e \in Tests :
          (scope = "webhooks" /\ Testing(e) /\ ~redis) ~> (Told(e) \/ failures > 0)

\* Without faults a scheduled notice is sent or cancelled, and what was sent reaches its
\* recipient on every channel that quiet hours did not keep back, in a message of its own or
\* in a digest.
NoticeArrives == \A n \in Notices : Waiting(n) ~> (Settled(n) \/ failures > 0)
=============================================================================
