------------------------------ MODULE Notices -------------------------------
(***************************************************************************)
(* Scheduled notifications, the notification engine that hands a notice to *)
(* its channels, and the hourly digest of low-priority notices             *)
(* (apps/api/src/notifications).  A notice is the row of a scheduled       *)
(* notification to one recipient, with a delayed job of the same id.       *)
(***************************************************************************)
EXTENDS QueueWorkers

CONSTANTS
    Notices,     \* scheduled notifications
    ChannelsOf,  \* ChannelsOf[n]: the channels its template resolves to
    Low,         \* those of LOW priority to a recipient in digest mode
    Audiences,   \* who may be the recipients: functions from Notices to the users' numbers,
                 \* in the order of the flush
    Tries        \* attempts of a scheduled job

Channels == {"email", "sms", "push", "inApp"}
DigestDeferrable == {"email", "sms", "push"}

ASSUME NoticesAssumption ==
    /\ Notices # {}
    /\ ChannelsOf \in [Notices -> SUBSET Channels]
    /\ Low \subseteq Notices
    /\ Audiences \subseteq [Notices -> Nat]
    /\ Tries \in Nat \ {0}

VARIABLES
    recipient,  \* recipient[n]: one of Audiences
    notice,     \* notice[n]: ScheduledNotificationStatus, "none" before it is scheduled
    timer,      \* timer[n]: its delayed job, how often it was handed out, whether it stalled
    dispatches, \* channel jobs that wait: <<n, run, channel>>
    lost,       \* channel jobs that lost a worker
    buffer,     \* digest entries: <<n, run>>
    told,       \* told[x][ch]: digest messages on ch that entry x was part of, up to MaxTold
    muted,      \* <<n, ch>> that quiet hours kept back (it only serves NoticeArrives)
    handed,     \* handed[n][ch]: how often n was handed to channel ch or its digest
    got,        \* <<n, run, ch>> whose message went out, or was given up by the channel
    errand      \* errand[w]: what w works on

digests == <<buffer, told>>
channelJobs == <<dispatches, lost, got>>
tally == <<muted, handed>>
noticeVars == <<recipient, notice, timer, channelJobs, digests, tally, errand>>

MaxTold == 2
Reading == {"email", "sms"}
Runs == 1..(Tries + 1)
DigestEntries == Notices \X Runs

NoErrand == [notice |-> CHOOSE n \in Notices : TRUE, left |-> {}, channel |-> "inApp", batch |-> {}]
NoTimer == [state |-> "none", run |-> 0, stalled |-> FALSE]

NoticeInit ==
    /\ recipient \in Audiences
    /\ notice = [n \in Notices |-> "none"]
    /\ timer = [n \in Notices |-> NoTimer]
    /\ dispatches = {}
    /\ lost = {}
    /\ buffer = {}
    /\ told = [x \in DigestEntries |-> [ch \in Reading |-> 0]]
    /\ muted = {}
    /\ handed = [n \in Notices |-> [ch \in Channels |-> 0]]
    /\ got = {}
    /\ errand = [w \in Workers |-> NoErrand]

GoOn(w, place) ==
    /\ Arrive(w, place)
    /\ UNCHANGED errand

Back(w) ==
    /\ Arrive(w, "idle")
    /\ errand' = [errand EXCEPT ![w] = NoErrand]

SetOut(w, place, n) ==
    /\ Idle(w)
    /\ Arrive(w, place)
    /\ errand' = [errand EXCEPT ![w] = [NoErrand EXCEPT !.notice = n]]

-----------------------------------------------------------------------------
(* Scheduling and cancelling *)

Schedule(w, n) ==
    /\ notice[n] = "none"
    /\ SetOut(w, "timer", n)
    /\ notice' = [notice EXCEPT ![n] = "PENDING"]
    /\ UNCHANGED <<timer, channelJobs, digests, tally>>

SetTimer(w) ==
    /\ at[w] = "timer"
    /\ timer' = [timer EXCEPT ![errand[w].notice].state = "delayed"]
    /\ Back(w)
    /\ UNCHANGED <<notice, channelJobs, digests, tally>>

Cancellable(n) == notice[n] = "PENDING"

Cancel(w, n) ==
    /\ Cancellable(n)
    /\ SetOut(w, "remove", n)
    /\ UNCHANGED <<notice, timer, channelJobs, digests, tally>>

\* A job a worker has cannot be removed: the call throws.  One that is over can.
RemoveTimer(w) ==
    LET n == errand[w].notice IN
    /\ at[w] = "remove"
    /\ IF timer[n].state = "active"
       THEN Back(w) /\ UNCHANGED timer
       ELSE GoOn(w, "cancel") /\ timer' = [timer EXCEPT ![n].state = "none"]
    /\ UNCHANGED <<notice, channelJobs, digests, tally>>

\* By id, whatever the row says by now.
WriteCancelled(w) ==
    /\ at[w] = "cancel"
    /\ notice' = [notice EXCEPT ![errand[w].notice] = "CANCELLED"]
    /\ Back(w)
    /\ UNCHANGED <<timer, channelJobs, digests, tally>>

-----------------------------------------------------------------------------
(* Delivery of a scheduled notice *)

Fire(w, n) ==
    /\ timer[n].state = "delayed"
    /\ SetOut(w, "check", n)
    /\ timer' = [timer EXCEPT ![n].state = "active", ![n].run = @ + 1]
    /\ UNCHANGED <<notice, channelJobs, digests, tally>>

Over(n) == timer' = [timer EXCEPT ![n].state = "done"]

Due(n) == notice[n] = "PENDING"

Check(w) ==
    LET n == errand[w].notice IN
    /\ at[w] = "check"
    /\ IF Due(n)
       THEN GoOn(w, "quiet") /\ UNCHANGED timer
       ELSE Back(w) /\ Over(n)
    /\ UNCHANGED <<notice, channelJobs, digests, tally>>

\* NotificationEngineService.send: only the in-app channel is kept in quiet hours.
AskQuiet(w, quiet) ==
    LET chs == ChannelsOf[errand[w].notice]
        left == IF quiet THEN chs \cap {"inApp"} ELSE chs IN
    /\ at[w] = "quiet"
    /\ Arrive(w, IF left = {} THEN "sent" ELSE "digest")
    /\ errand' = [errand EXCEPT ![w].left = left]
    /\ muted' = muted \cup {<<errand[w].notice, ch>> : ch \in chs \ left}
    /\ UNCHANGED <<notice, timer, channelJobs, digests, handed>>

\* Faulty variant: the digest takes the in-app channel too.
Deferred_All(w) == IF errand[w].notice \in Low THEN errand[w].left ELSE {}

Deferred(w) ==
    IF errand[w].notice \in Low THEN errand[w].left \cap DigestDeferrable ELSE {}

\* The digest keeps what can wait as one entry.
Defer(w) ==
    LET n == errand[w].notice IN
    /\ at[w] = "digest"
    /\ IF Deferred(w) = {}
       THEN UNCHANGED <<buffer, tally>>
       ELSE /\ buffer' = buffer \cup {<<n, timer[n].run>>}
            /\ handed' = [handed EXCEPT ![n] =
                    [ch \in Channels |-> @[ch] + (IF ch \in Deferred(w) THEN 1 ELSE 0)]]
    /\ errand' = [errand EXCEPT ![w].left = @ \ Deferred(w)]
    /\ Arrive(w, IF errand[w].left \subseteq Deferred(w) THEN "sent" ELSE "hand")
    /\ UNCHANGED <<notice, timer, channelJobs, told, muted>>

\* enqueueAll: one job for each channel that is left.
Hand(w, ch) ==
    LET n == errand[w].notice IN
    /\ at[w] = "hand"
    /\ ch \in errand[w].left
    /\ dispatches' = dispatches \cup {<<n, timer[n].run, ch>>}
    /\ handed' = [handed EXCEPT ![n][ch] = @ + 1]
    /\ errand' = [errand EXCEPT ![w].left = @ \ {ch}]
    /\ Arrive(w, IF errand[w].left = {ch} THEN "sent" ELSE "hand")
    /\ UNCHANGED <<notice, timer, lost, got, digests, muted>>

WriteSent(w) ==
    LET n == errand[w].notice IN
    /\ at[w] = "sent"
    /\ notice' = [notice EXCEPT ![n] = "SENT"]
    /\ Over(n)
    /\ Back(w)
    /\ UNCHANGED <<channelJobs, digests, tally>>

\* A statement of the engine or the last update fails, some or all channels may have been
\* handed their job.
EngineThrows(w) ==
    /\ at[w] \in {"quiet", "digest", "hand", "sent"}
    /\ Fails(w, "failed")
    /\ UNCHANGED <<errand, notice, timer, channelJobs, digests, tally>>

\* Faulty variant: a failed attempt leaves the row as it was.
AfterFailure_Untouched == "PENDING"

AfterFailure == "FAILED"

Attempts(n) == timer[n].run - (IF timer[n].stalled THEN 1 ELSE 0)

\* The job has attempts left or not.
TryAgain(n) ==
    timer' = [timer EXCEPT ![n].state = IF Attempts(n) < Tries THEN "delayed" ELSE "done"]

\* The error is stored and thrown on.
WriteFailed(w) ==
    LET n == errand[w].notice IN
    /\ at[w] = "failed"
    /\ notice' = [notice EXCEPT ![n] = AfterFailure]
    /\ TryAgain(n)
    /\ Back(w)
    /\ UNCHANGED <<channelJobs, digests, tally>>

\* The row cannot be read, or the error cannot be stored: the row is left as it was.
DeliverThrows(w) ==
    /\ at[w] \in {"check", "failed"}
    /\ Fails(w, "idle")
    /\ TryAgain(errand[w].notice)
    /\ errand' = [errand EXCEPT ![w] = NoErrand]
    /\ UNCHANGED <<notice, channelJobs, digests, tally>>

-----------------------------------------------------------------------------
(* Channels *)

Pick(w, d) ==
    /\ Idle(w)
    /\ d \in dispatches
    /\ dispatches' = dispatches \ {d}
    /\ Arrive(w, "channel")
    /\ errand' = [errand EXCEPT ![w] =
            [NoErrand EXCEPT !.notice = d[1], !.channel = d[3], !.batch = {<<d[1], d[2]>>}]]
    /\ UNCHANGED <<notice, timer, lost, got, digests, tally>>

PickedJob(w) ==
    LET x == CHOOSE x \in errand[w].batch : TRUE IN <<x[1], x[2], errand[w].channel>>

\* What the channel cannot send is logged and dropped; push falls back to email first.
SendOut(w) ==
    /\ at[w] = "channel"
    /\ got' = got \cup {PickedJob(w)}
    /\ Back(w)
    /\ UNCHANGED <<notice, timer, dispatches, lost, digests, tally>>

-----------------------------------------------------------------------------
(* The hourly digest *)

Scan(w) ==
    /\ Idle(w)
    /\ buffer # {}
    /\ Arrive(w, "mail")
    /\ errand' = [errand EXCEPT ![w] = [NoErrand EXCEPT !.batch = buffer]]
    /\ UNCHANGED <<notice, timer, channelJobs, digests, tally>>

UserOf(x) == recipient[x[1]]

\* The entries of the user the flush is at: the first of those it read.
Page(w) == {x \in errand[w].batch : \A y \in errand[w].batch : UserOf(x) <= UserOf(y)}

Wanted(w, ch) == \E x \in Page(w) : ch \in ChannelsOf[x[1]]

Tell(w, ch) ==
    told' = [x \in DigestEntries |->
                IF x \in Page(w) /\ told[x][ch] < MaxTold
                THEN [told[x] EXCEPT ![ch] = @ + 1] ELSE told[x]]

Mail(w) ==
    /\ at[w] = "mail"
    /\ IF Wanted(w, "email") THEN Tell(w, "email") ELSE UNCHANGED told
    /\ GoOn(w, "text")
    /\ UNCHANGED <<notice, timer, channelJobs, buffer, tally>>

Text(w) ==
    /\ at[w] = "text"
    /\ IF Wanted(w, "sms") THEN Tell(w, "sms") ELSE UNCHANGED told
    /\ GoOn(w, "drop")
    /\ UNCHANGED <<notice, timer, channelJobs, buffer, tally>>

\* Faulty variant: every entry of the user is dropped, not only those that were read.
Dropped_User(w) == {x \in buffer : \E y \in Page(w) : UserOf(x) = UserOf(y)}

Dropped(w) == Page(w)

Drop(w) ==
    /\ at[w] = "drop"
    /\ buffer' = buffer \ Dropped(w)
    /\ IF errand[w].batch = Page(w)
       THEN Back(w)
       ELSE /\ Arrive(w, "mail")
            /\ errand' = [errand EXCEPT ![w].batch = @ \ Page(w)]
    /\ UNCHANGED <<notice, timer, channelJobs, told, tally>>

-----------------------------------------------------------------------------
(* Faults *)

\* The worker dies, or, outside the delivery of a notice, a statement fails; a job a dead
\* worker had is handed out again once.  A channel may have sent its message before.
ErrandFails(w) ==
    LET n == errand[w].notice
        delivering == at[w] \in {"check", "quiet", "digest", "hand", "sent", "failed"} IN
    /\ Fails(w, "idle")
    /\ timer' = IF delivering
                THEN [timer EXCEPT ![n].state = IF timer[n].stalled THEN "done" ELSE "delayed",
                                   ![n].stalled = TRUE]
                ELSE timer
    /\ IF at[w] = "channel" /\ PickedJob(w) \notin lost
       THEN /\ dispatches' = dispatches \cup {PickedJob(w)}
            /\ lost' = lost \cup {PickedJob(w)}
       ELSE UNCHANGED <<dispatches, lost>>
    /\ errand' = [errand EXCEPT ![w] = NoErrand]
    /\ UNCHANGED <<notice, got, digests, tally>>

Attend(w) ==
    \/ SetTimer(w) \/ RemoveTimer(w) \/ WriteCancelled(w)
    \/ Check(w) \/ Defer(w) \/ WriteSent(w) \/ WriteFailed(w)
    \/ \E quiet \in BOOLEAN : AskQuiet(w, quiet)
    \/ \E ch \in Channels : Hand(w, ch)
    \/ \E d \in dispatches : Pick(w, d)
    \/ \E n \in Notices : Fire(w, n)
    \/ SendOut(w)
    \/ Scan(w) \/ Mail(w) \/ Text(w) \/ Drop(w)

NoticeOther ==
    \E w \in Workers :
        \/ EngineThrows(w) \/ DeliverThrows(w) \/ ErrandFails(w)
        \/ \E n \in Notices : Schedule(w, n) \/ Cancel(w, n)

-----------------------------------------------------------------------------
(* Properties *)

NoticesTypeOK ==
    /\ notice \in [Notices -> {"none", "PENDING", "SENT", "FAILED", "CANCELLED"}]
    /\ timer \in [Notices -> [state : {"none", "delayed", "active", "done"},
                             run : 0..(Tries + 1), stalled : BOOLEAN]]
    /\ dispatches \cup lost \cup got \subseteq Notices \X Runs \X Channels
    /\ buffer \subseteq DigestEntries
    /\ muted \subseteq Notices \X Channels

\* The status of a scheduled notice tells what was sent.  However calls overlap, an attempt
\* that failed half-way is not made again: a channel is handed a notice once more only after
\* a worker died, which happens to a job once, or after two failures, that of the attempt
\* and that of storing its error.  One that is SENT was handed to every channel quiet hours
\* did not keep back, and until something fails one that waits was handed to none.  One call
\* at a time and until something fails a cancelled notice was not sent.
StatusTellsSent ==
    \A n \in Notices :
        /\ \A ch \in Channels :
              2 * handed[n][ch] <= 2 + failures + (IF timer[n].stalled THEN 1 ELSE 0)
        /\ notice[n] = "SENT" =>
              \A ch \in ChannelsOf[n] : handed[n][ch] > 0 \/ <<n, ch>> \in muted
        /\ failures = 0 /\ notice[n] = "PENDING" /\ timer[n].state # "active" =>
              \A ch \in Channels : handed[n][ch] = 0
        /\ failures = 0 /\ ~overlap /\ notice[n] = "CANCELLED" =>
              \A ch \in Channels : handed[n][ch] = 0

\* The digest loses nothing: however flushes overlap, fail or die, an entry with a channel
\* that can be read leaves the buffer only after it was in a message to its recipient; and
\* one flush at a time, until something fails, no entry is told twice on a channel.
DigestKept ==
    [][\A x \in buffer \ buffer' :
          /\ ChannelsOf[x[1]] \cap Reading # {} => \E ch \in Reading : told[x][ch] > 0
          /\ failures = 0 /\ ~overlap => \A ch \in Reading : told[x][ch] <= 1]_noticeVars

Reached(n, ch) ==
    \/ <<n, ch>> \in muted
    \/ \E run \in Runs : <<n, run, ch>> \in got
    \/ ch \in Reading /\ \E run \in Runs : told[<<n, run>>][ch] > 0

Settled(n) ==
    \/ notice[n] = "CANCELLED"
    \/ notice[n] = "SENT" /\ \A ch \in ChannelsOf[n] : Reached(n, ch)

Waiting(n) == failures = 0 /\ notice[n] = "PENDING" /\ timer[n].state = "delayed"
=============================================================================
