--------------------------- MODULE NotificationDelivery ---------------------------
(***************************************************************************)
(* From a platform event to the messages about it: the notification service *)
(* that records and fans out events (internal/notification/service.go), the *)
(* worker that delivers to webhooks and to one user's mailbox               *)
(* (internal/worker/notification_runner.go) and the reconciler              *)
(* (notification_reconciler.go).                                            *)
(*                                                                          *)
(* A webhook delivery is claimed row by row, under a lease that is the      *)
(* number of the attempt.  The mails of a user are sent in digests, inside  *)
(* a transaction that holds a lock of the user.  Rules, policies, templates *)
(* and adapters choose targets and reject messages: here they do so freely. *)
(***************************************************************************)
EXTENDS Integers, Sequences, SequencesExt, FiniteSets

CONSTANTS
  Events,       \* platform events
  Instances,    \* bound: the deliveries that are selected, the mails in a digest
                \*   (personalEmailDigestMaxEvents) and the faults that are met together
  Workers,      \* handlers of tasks at work at a time
  MaxAttempts   \* attempts of a mail: MaxRetry + 1 of the digest task

ASSUME NotificationAssumption ==
  /\ Events \subseteq Nat \ {0} /\ IsFiniteSet(Events)
  /\ \A i \in Instances : /\ i.deliveries \subseteq Events \X {"mail", "hook"}
                           /\ i.digest \in Nat \ {0} /\ i.faults \in Nat
  /\ MaxAttempts \in Nat \ {0}

Deliveries == UNION {i.deliveries : i \in Instances}
Mails == {d \in Deliveries : d[2] = "mail"}    \* one user's mailbox
Hooks == {d \in Deliveries : d[2] = "hook"}
Digest == <<0, "digest">>          \* the task notification:email-digest of the user

VARIABLES
  instance,   \* what rules and preferences select, and the limits
  event,      \* platform_events.notification_fanout_status
  row,        \* notification_deliveries: status, attempt_count, whether a lease is over
  line,       \* the mails by queued_at
  started,    \* mails whose started_at is within the cooldown
  lastLed,    \* the first mail of the last digest that was sent
  toQueue,    \* deliveries a process is about to queue, and whether it saw enqueue_failed
  queue,      \* tasks in the queue
  later,      \* a digest task waits for the end of the cooldown
  worker,     \* the handlers at work
  accepted,   \* messages that reached the receiver, per delivery
  lost,       \* messages among them of attempts that could not store it
  mailed,     \* digests sent and stored within the cooldown
  faults

vars == <<instance, event, row, line, started, lastLed, toQueue, queue, later, worker,
          accepted, lost, mailed, faults>>

Statuses == {"none", "pending", "enqueue_failed", "sending", "retry_pending",
             "succeeded", "failed"}
Results == {"succeeded", "failed"}
Answers == {"ok", "retry", "refused"}
Idle == [at |-> "idle"]

TypeOK ==
  /\ instance \in Instances
  /\ event \in [Events -> {"none", "pending", "completed"}]
  /\ row \in [Deliveries -> [status : Statuses, attempts : Nat, stale : BOOLEAN]]
  /\ line \in Seq(Mails) /\ IsInjective(line)
  /\ started \subseteq Mails /\ lastLed \subseteq Mails
  /\ toQueue \subseteq Deliveries \X BOOLEAN
  /\ queue \subseteq Deliveries \cup {Digest} /\ later \in BOOLEAN
  /\ worker \in [Workers -> {Idle}
       \cup [at : {"check", "send"}, of : Hooks, attempt : Nat]
       \cup [at : {"answered"}, of : Hooks, attempt : Nat, answer : Answers]
       \cup [at : {"mail"}, task : Mails \cup {Digest}, batch : SUBSET Mails, bad : SUBSET Mails]
       \cup [at : {"mailed"}, task : Mails \cup {Digest}, batch : SUBSET Mails, bad : SUBSET Mails,
             answer : Answers]]
  /\ accepted \in [Deliveries -> Nat] /\ lost \in [Deliveries -> Nat]
  /\ mailed \in Nat /\ faults \in 0..instance.faults

Init ==
  /\ instance \in Instances
  /\ event = [e \in Events |-> "none"]
  /\ row = [d \in Deliveries |-> [status |-> "none", attempts |-> 0, stale |-> FALSE]]
  /\ line = <<>> /\ started = {} /\ lastLed = {} /\ toQueue = {} /\ queue = {} /\ later = FALSE
  /\ worker = [w \in Workers |-> Idle]
  /\ accepted = [d \in Deliveries |-> 0] /\ lost = [d \in Deliveries |-> 0]
  /\ mailed = 0 /\ faults = 0

-----------------------------------------------------------------------------

Fault == faults < instance.faults /\ faults' = faults + 1
Status(d) == row[d].status
Set(D, status) ==
  [d \in Deliveries |->
     IF d \in D THEN [row[d] EXCEPT !.status = status, !.stale = FALSE] ELSE row[d]]
Plus(count, D) == [d \in Deliveries |-> IF d \in D THEN count[d] + 1 ELSE count[d]]
At(w, place) == worker[w].at = place
Go(w, state) == worker' = [worker EXCEPT ![w] = state]
Mailing == {w \in Workers : worker[w].at \in {"mail", "mailed"}}

\* The transaction of a digest has written these rows and not yet ended.
Locked == UNION {worker[w].batch \cup worker[w].bad : w \in Mailing}

\* A new queued_at.
ToTheEnd(d) == IF d \in Mails THEN Append(RemoveFirst(line, d), d) ELSE line

-----------------------------------------------------------------------------
(* The service: record, fan out, queue.                                    *)

\* RecordNotification: the event is stored before anything else is done about it.
RecordNotification(e) ==
  /\ event[e] = "none" /\ event' = [event EXCEPT ![e] = "pending"]
  /\ UNCHANGED <<instance, row, line, started, lastLed, toQueue, queue, later, worker, accepted,
                 lost, mailed, faults>>

\* MaterializeEvent, by Emit, by an Emit of the same event again, or by the reconciler:
\* rows for the targets that are eligible now, unless they exist, and to the queue with
\* every one that was not sent yet.
MaterializeEvent(e) ==
  /\ event[e] # "none" /\ event' = [event EXCEPT ![e] = "completed"]
  /\ \E targets \in SUBSET {d \in instance.deliveries : d[1] = e} :
       LET new == {d \in targets : Status(d) = "none"}
       IN  /\ row' = Set(new, "pending")
           /\ line' = line \o SetToSeq(new \cap Mails)
           /\ toQueue' = toQueue
                \cup {<<d, Status(d) = "enqueue_failed">> : d \in
                       {x \in targets : Status(x) \in {"none", "pending", "enqueue_failed"}}}
  /\ UNCHANGED <<instance, started, lastLed, queue, later, worker, accepted, lost, mailed,
                 faults>>

\* A worker has a task of this delivery.
Busy(d) ==
  \E w \in Workers :
    \/ w \in Mailing /\ worker[w].task = d
    \/ worker[w].at \in {"check", "send", "answered"} /\ worker[w].of = d

\* EnqueueDeliveries for one delivery; a task that is still in the queue will do, and one
\* that a worker has may.
Enqueue(d, failed) ==
  /\ <<d, failed>> \in toQueue /\ toQueue' = toQueue \ {<<d, failed>>}
  /\ queue' = queue \cup {d} \/ (Busy(d) /\ queue' = queue)
  /\ IF failed /\ Status(d) = "enqueue_failed"
     THEN d \notin Locked /\ row' = Set({d}, "pending") /\ line' = ToTheEnd(d)
     ELSE UNCHANGED <<row, line>>
  /\ UNCHANGED <<instance, event, started, lastLed, later, worker, accepted, lost, mailed,
                 faults>>

\* The queue is not reached, or its answer is not.
EnqueueFails(d, failed) ==
  /\ <<d, failed>> \in toQueue /\ toQueue' = toQueue \ {<<d, failed>>}
  /\ Fault /\ queue' \in {queue, queue \cup {d}}
  /\ IF Status(d) \in {"pending", "enqueue_failed"}
     THEN d \notin Locked /\ row' = Set({d}, "enqueue_failed") /\ line' = ToTheEnd(d)
     ELSE UNCHANGED <<row, line>>
  /\ UNCHANGED <<instance, event, started, lastLed, later, worker, accepted, lost, mailed>>

\* The process stops before it has queued what it materialized or reconciled.
ServiceStops ==
  /\ toQueue # {} /\ Fault /\ toQueue' = {}
  /\ UNCHANGED <<instance, event, row, line, started, lastLed, queue, later, worker, accepted,
                 lost, mailed>>

\* Mutant of Reconcilable: a delivery that is being sent is in good hands.
ReconcilableQueued(d) == Status(d) \in {"enqueue_failed", "pending", "retry_pending"}

\* What nobody has touched for long enough.  The ages of the rows are left to chance,
\* but for the lease.
Reconcilable(d) ==
  \/ Status(d) \in {"enqueue_failed", "pending", "retry_pending"}
  \/ Status(d) = "sending" /\ row[d].stale

\* reconcileNotificationDeliveries.
Reconcile(d) ==
  /\ Reconcilable(d) /\ d \notin Locked
  /\ row' = Set({d}, "pending")
  /\ started' = started \ {d}
  /\ toQueue' = toQueue \cup {<<d, FALSE>>}
  /\ UNCHANGED <<instance, event, line, lastLed, queue, later, worker, accepted, lost, mailed,
                 faults>>

-----------------------------------------------------------------------------
(* The worker, webhooks: handleNotificationDeliver.                        *)

Claimable(d) ==
  \/ Status(d) \in {"pending", "enqueue_failed", "retry_pending"}
  \/ Status(d) = "sending" /\ row[d].stale

\* claimNotificationDelivery.
TakeHook(w, d) ==
  /\ At(w, "idle") /\ d \in queue /\ queue' = queue \ {d}
  /\ IF Claimable(d)
     THEN LET attempt == row[d].attempts + 1
          IN  /\ row' = [row EXCEPT ![d] =
                                   [status |-> "sending", attempts |-> attempt, stale |-> FALSE]]
              /\ Go(w, [at |-> "check", of |-> d, attempt |-> attempt])
     ELSE UNCHANGED <<row, worker>>
  /\ UNCHANGED <<instance, event, line, started, lastLed, toQueue, later, accepted, lost, mailed,
                 faults>>

\* Mutant of Settle: the lease is not looked at.
SettleAnyway(w, status) == row' = Set({worker[w].of}, status)

\* updateNotificationDeliveryLease: only the attempt that was counted last may settle.
Settle(w, status) ==
  LET d == worker[w].of
  IN  row' = IF Status(d) = "sending" /\ row[d].attempts = worker[w].attempt
             THEN Set({d}, status) ELSE row

\* The attempt of this worker is the last one, and in time.
Current(w) ==
  LET d == worker[w].of
  IN  Status(d) = "sending" /\ row[d].attempts = worker[w].attempt /\ ~row[d].stale

\* Policy, event, channel, template and adapter: good, or the delivery fails for good.
Check(w) ==
  /\ At(w, "check")
  /\ \/ Go(w, [worker[w] EXCEPT !.at = "send"]) /\ UNCHANGED row
     \/ Go(w, Idle) /\ Settle(w, "failed")
  /\ UNCHANGED <<instance, event, line, started, lastLed, toQueue, queue, later, accepted, lost,
                 mailed, faults>>

\* What the receiver does with a message and what the sender learns of it: it is
\* accepted, refused for good, or turned away for now; or it is accepted and the
\* answer does not arrive.  What is accepted too late counts as lost.
Delivers(D, answer, late) ==
  /\ IF answer = "retry" THEN Fault ELSE UNCHANGED faults
  /\ \/ /\ answer \in {"ok", "retry"} /\ accepted' = Plus(accepted, D)
        /\ lost' = IF late \/ answer = "retry" THEN Plus(lost, D) ELSE lost
     \/ answer # "ok" /\ UNCHANGED <<accepted, lost>>

Send(w) ==
  /\ At(w, "send")
  /\ \E answer \in Answers :
       /\ Delivers({worker[w].of}, answer, ~Current(w))
       /\ Go(w, [at |-> "answered", of |-> worker[w].of, attempt |-> worker[w].attempt,
                 answer |-> answer])
  /\ UNCHANGED <<instance, event, row, line, started, lastLed, toQueue, queue, later, mailed>>

\* The result; a retry is a failed task, which comes back or has no retry left.
Record(w) ==
  /\ At(w, "answered") /\ Go(w, Idle)
  /\ LET d == worker[w].of
     IN  CASE worker[w].answer = "ok" -> Settle(w, "succeeded") /\ UNCHANGED queue
           [] worker[w].answer = "refused" -> Settle(w, "failed") /\ UNCHANGED queue
           [] worker[w].answer = "retry" -> /\ Settle(w, "retry_pending")
                                            /\ queue' \in {queue, queue \cup {d}}
  /\ UNCHANGED <<instance, event, line, started, lastLed, toQueue, later, accepted, lost, mailed,
                 faults>>

\* The worker stops or cannot reach the database: the row stays as it is.  What was
\* accepted of an attempt that is late counts as lost already.
HookStops(w) ==
  /\ worker[w].at \in {"check", "send", "answered"} /\ Fault /\ Go(w, Idle)
  /\ LET d == worker[w].of
     IN  /\ lost' = IF At(w, "answered") /\ worker[w].answer = "ok" /\ Current(w)
                     THEN Plus(lost, {d}) ELSE lost
         /\ queue' \in {queue, queue \cup {d}}
  /\ UNCHANGED <<instance, event, row, line, started, lastLed, toQueue, later, accepted, mailed>>

\* The lease of an attempt is over: nobody is at work on it any more, or a worker that
\* is late and may still store its result, unless another one is faster.
LeaseExpires(d) ==
  /\ Status(d) = "sending" /\ ~row[d].stale
  /\ row' = [row EXCEPT ![d].stale = TRUE]
  /\ LET late == {w \in Workers : /\ worker[w].at \in {"check", "send", "answered"}
                                  /\ worker[w].of = d /\ Current(w)}
         sent == {w \in late : At(w, "answered") /\ worker[w].answer = "ok"}
     IN  /\ IF late = {} THEN UNCHANGED faults ELSE Fault
         /\ lost' = IF sent = {} THEN lost ELSE Plus(lost, {d})
  /\ UNCHANGED <<instance, event, line, started, lastLed, toQueue, queue, later, worker, accepted,
                 mailed>>

-----------------------------------------------------------------------------
(* The worker, mail: handlePersonalEmailDeliveries.                        *)

\* personalEmailDeliveryActiveStatuses.
Waiting == {d \in Mails : Status(d) \in {"pending", "sending", "enqueue_failed"}}

\* The order of queued_at: who is first among D, who waits before d, and who of those that
\* wait still fits into the digest.
FirstOf(D) == line[SelectInSeq(line, LAMBDA d : d \in D)]
Ahead(d) == {x \in Waiting : \E i, j \in DOMAIN line : i < j /\ line[i] = x /\ line[j] = d}
Batch == {d \in Waiting : Cardinality(Ahead(d)) < instance.digest}

\* personalEmailDeliveryTriggerLeads: of the tasks of many deliveries one sends.
Leads(task) ==
  LET queued == {d \in Mails : Status(d) \in {"pending", "sending"}}
  IN  IF queued # {} THEN task = FirstOf(queued) ELSE Status(task) = "succeeded" /\ task \in lastLed

\* Nothing waits, or another task leads the digest.
Drop(task) ==
  Waiting = {} \/ (task # Digest /\ ~Leads(task))

\* personalEmailOutcomeWithRemaining and schedulePersonalEmailDigest: the next digest is
\* queued for now or for the end of the cooldown; if that fails the task fails.
ScheduleNow(task, rest) ==
  \/ /\ queue' = (queue \ {task}) \cup (IF rest = {} THEN {} ELSE {Digest})
     /\ UNCHANGED <<later, faults>>
  \/ /\ rest # {} /\ Fault /\ queue' \in {queue \ {task}, queue \cup {task}} /\ UNCHANGED later

ScheduleLater(task, rest) ==
  \/ /\ queue' = queue \ {task} /\ later' = (later \/ rest # {}) /\ UNCHANGED faults
  \/ /\ rest # {} /\ Fault /\ queue' \in {queue \ {task}, queue \cup {task}} /\ UNCHANGED later

\* The deliveries that wait, in the order of queued_at and no more than fit; those the
\* policy turns down fail; the others are sent, or wait for the end of the cooldown.
PrepareDigest(w, task) ==
  /\ At(w, "idle") /\ task \in queue
  /\ \/ Drop(task) /\ queue' = queue \ {task} /\ UNCHANGED <<row, later, worker, faults>>
     \/ /\ ~Drop(task)
        /\ \E bad \in SUBSET Batch :
             IF Batch = bad
             THEN /\ row' = Set(bad, "failed") /\ UNCHANGED worker
                  /\ ScheduleNow(task, Waiting \ bad)
             ELSE IF started # {}
             THEN /\ row' = Set(bad, "failed") /\ UNCHANGED worker
                  /\ ScheduleLater(task, Waiting \ bad)
             ELSE /\ Go(w, [at |-> "mail", task |-> task, batch |-> Batch \ bad, bad |-> bad])
                  /\ queue' = queue \ {task} /\ UNCHANGED <<row, later, faults>>
  /\ UNCHANGED <<instance, event, line, started, lastLed, toQueue, accepted, lost, mailed>>

\* Mutant of TakeMail: two tasks of a user may prepare a digest at a time.
TakeMailTogether(w, task) == PrepareDigest(w, task)

\* Under the lock of the user, for which whoever comes second waits.
TakeMail(w, task) == Mailing = {} /\ PrepareDigest(w, task)

SendMail(w) ==
  /\ At(w, "mail")
  /\ \E answer \in Answers :
       /\ Delivers(worker[w].batch, answer, FALSE)
       /\ Go(w, [at |-> "mailed", task |-> worker[w].task, batch |-> worker[w].batch,
                 bad |-> worker[w].bad, answer |-> answer])
  /\ UNCHANGED <<instance, event, row, line, started, lastLed, toQueue, queue, later, mailed>>

\* The rows a digest leaves behind, by its answer: a mail that may be tried again keeps the
\* status it had, until it has been tried often enough.
AfterMail(w) ==
  [d \in Deliveries |->
     IF d \in worker[w].bad THEN [row[d] EXCEPT !.status = "failed"]
     ELSE IF d \notin worker[w].batch THEN row[d]
     ELSE [row[d] EXCEPT !.attempts = @ + 1,
             !.status = CASE worker[w].answer = "ok" -> "succeeded"
                          [] worker[w].answer = "refused" -> "failed"
                          [] worker[w].answer = "retry" ->
                               IF row[d].attempts + 1 >= MaxAttempts THEN "failed"
                               ELSE IF @ = "enqueue_failed" THEN @ ELSE "pending"]]

\* The transaction ends with the result of the whole digest.
CommitMail(w) ==
  /\ At(w, "mailed") /\ Go(w, Idle)
  /\ row' = AfterMail(w)
  /\ started' = started \cup worker[w].batch
  /\ LET task == worker[w].task
         again == {d \in worker[w].batch : AfterMail(w)[d].status \notin Results}
     IN  IF again # {}
         THEN /\ queue' \in {queue, queue \cup {task}} /\ UNCHANGED <<later, faults>>
         ELSE ScheduleLater(task, Waiting \ (worker[w].batch \cup worker[w].bad))
  /\ IF worker[w].answer = "ok"
     THEN lastLed' = {FirstOf(worker[w].batch)} /\ mailed' = mailed + 1
     ELSE UNCHANGED <<lastLed, mailed>>
  /\ UNCHANGED <<instance, event, line, toQueue, accepted, lost>>

\* The worker stops or cannot commit: everything is as before, but for what was sent.
MailStops(w) ==
  /\ worker[w].at \in {"mail", "mailed"} /\ Fault /\ Go(w, Idle)
  /\ lost' = IF At(w, "mailed") /\ worker[w].answer = "ok"
             THEN Plus(lost, worker[w].batch) ELSE lost
  /\ queue' \in {queue, queue \cup {worker[w].task}}
  /\ UNCHANGED <<instance, event, row, line, started, lastLed, toQueue, later, accepted, mailed>>

CooldownEnds ==
  /\ started # {} \/ later
  /\ started' = {} /\ mailed' = 0
  /\ later' = FALSE /\ queue' = queue \cup (IF later THEN {Digest} ELSE {})
  /\ UNCHANGED <<instance, event, row, line, lastLed, toQueue, worker, accepted, lost, faults>>

-----------------------------------------------------------------------------

ServiceStep ==
  \/ \E e \in Events : RecordNotification(e) \/ MaterializeEvent(e)
  \/ \E d \in Deliveries, failed \in BOOLEAN : Enqueue(d, failed) \/ EnqueueFails(d, failed)
  \/ ServiceStops
  \/ \E d \in Deliveries : Reconcile(d)

HookStep ==
  \/ \E w \in Workers : Check(w) \/ Send(w) \/ Record(w) \/ HookStops(w)
  \/ \E d \in Hooks : LeaseExpires(d) \/ \E w \in Workers : TakeHook(w, d)

MailStep ==
  \/ \E w \in Workers : SendMail(w) \/ CommitMail(w) \/ MailStops(w)
  \/ \E w \in Workers, task \in Mails \cup {Digest} : TakeMail(w, task)
  \/ CooldownEnds

Next == ServiceStep \/ HookStep \/ MailStep

Spec == Init /\ [][Next]_vars

\* The reconciler comes round every minute; a worker goes on with what it has begun and
\* takes what is in the queue; time passes.  Nothing is said of sends that are turned
\* away for ever: the faults are bounded.
FairSpec ==
  /\ Spec
  /\ \A e \in Events : WF_vars(event[e] = "pending" /\ MaterializeEvent(e))
  /\ \A d \in Deliveries : WF_vars(Reconcile(d))
  /\ \A d \in Deliveries : WF_vars(\E failed \in BOOLEAN : Enqueue(d, failed))
  /\ \A w \in Workers : WF_vars(Check(w) \/ Send(w) \/ Record(w) \/ SendMail(w) \/ CommitMail(w))
  /\ \A d \in Hooks : WF_vars(LeaseExpires(d)) /\ WF_vars(\E w \in Workers : TakeHook(w, d))
  /\ \A task \in Mails \cup {Digest} : SF_vars(\E w \in Workers : TakeMail(w, task))
  /\ WF_vars(CooldownEnds)

-----------------------------------------------------------------------------
(* Properties.                                                             *)

\* A receiver gets one message per delivery, and one more at most for each attempt whose
\* result could not be stored: tasks are queued again and again by emits, retries and
\* the reconciler, and only the lease and the lock keep them apart.  And what counts as
\* delivered was.
OneMessageUnlessLost ==
  \A d \in Deliveries :
    /\ accepted[d] <= 1 + lost[d]
    /\ Status(d) = "succeeded" => accepted[d] > 0

\* "later events for the same user during the cooldown are combined and sent when it ends"
\* (notifications.md): one digest per cooldown, whichever tasks are about.
MailsAreSpaced == mailed <= 1

\* What is recorded is fanned out, and every delivery ends, whatever is lost on the way
\* from the event to the queue and from the queue to the worker.
DeliveriesEnd ==
  /\ \A e \in Events : event[e] = "pending" ~> event[e] = "completed"
  /\ \A d \in Deliveries : (Status(d) # "none") ~> (Status(d) \in Results)
=============================================================================
