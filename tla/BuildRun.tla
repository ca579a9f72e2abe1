------------------------------- MODULE BuildRun -------------------------------
(***************************************************************************)
(* The builds of one deployment target, from the request to the automatic  *)
(* release: the API that creates, cancels and deletes them                 *)
(* (internal/api/buildapi), the worker that admits, starts, follows and    *)
(* completes them (internal/worker/build_runner.go and its neighbours) and *)
(* the sweep that reclaims those that are late (build_reconciler.go).      *)
(*                                                                         *)
(* A build is a number, its place in the order of (created_at, id); the    *)
(* API stamps created_at before it commits, so builds appear in any order. *)
(* One transaction is one step, one call to the cluster or to the task     *)
(* queue is one step.  Deadlines pass at any time.  Logs, secrets,         *)
(* variables, templates, images' names and notifications are left out.     *)
(***************************************************************************)
EXTENDS Naturals, FiniteSets

CONSTANTS
  MaxBuilds,    \* bound: builds that are requested
  Limit,        \* builds the project runs at once (MaxConcurrentBuilds)
  Policies,     \* values of BuildConcurrencyPolicy the target may take
  MaxFaults     \* bound: lost calls, failed reads, stopped processes, changes of policy

ASSUME BuildAssumption ==
  /\ MaxBuilds \in Nat /\ Limit \in Nat \ {0} /\ MaxFaults \in Nat
  /\ Policies \subseteq {"parallel", "queue", "cancel_in_progress"}

VARIABLES
  run,       \* build_runs.status
  job,       \* build_jobs.status
  started,   \* runs with started_at
  kube,      \* the Kubernetes Job of each build
  queue,     \* builds with a task in the queue
  client,    \* where the request that created each build is
  worker,    \* where the worker of each build is
  release,   \* revision of the release made for each build, 0 for none
  settled,   \* builds whose usage is charged
  sweep,     \* reclaimed builds whose Job is still to be removed
  policy,    \* BuildConcurrencyPolicy of the target
  switched,  \* it has been changed
  missed,    \* history: <<b, c>> if b appeared once the later c had been let in
  faults

rows  == <<run, job, started>>
vars  == <<rows, kube, queue, client, worker, release, settled, sweep,
           policy, switched, missed, faults>>

Builds == 1..MaxBuilds

Lifecycle == INSTANCE BuildLifecycle WITH state <- run

Active   == {"queued", "running"}
Finished == {"succeeded", "failed", "canceled", "timeout"}
Over(b)  == run[b] \in Finished \cup {"deleted"}

Exclusive == {"queue", "cancel_in_progress"}

TypeOK ==
  /\ run \in [Builds -> {"none", "deleted"} \cup Active \cup Finished]
  /\ job \in [Builds -> {"none", "deleted"} \cup Active \cup Finished]
  /\ started \subseteq Builds /\ queue \subseteq Builds
  /\ settled \subseteq Builds /\ sweep \subseteq Builds
  /\ kube \in [Builds -> {"none", "active", "done", "broken"}]
  /\ client \in [Builds -> {"idle", "dispatch", "retry", "undo", "undoRun", "lost"}]
  /\ worker \in [Builds -> Policies \cup
       {"idle", "capacity", "start", "mark", "follow", "complete", "settle", "won",
        "compare", "release"}]
  /\ release \in [Builds -> 0..MaxBuilds]
  /\ policy \in Policies /\ switched \in BOOLEAN /\ faults \in 0..MaxFaults
  /\ missed \subseteq Builds \X Builds

Init ==
  /\ policy \in Policies
  /\ run = [b \in Builds |-> "none"] /\ job = [b \in Builds |-> "none"]
  /\ started = {} /\ queue = {} /\ settled = {} /\ sweep = {}
  /\ kube = [b \in Builds |-> "none"]
  /\ client = [b \in Builds |-> "idle"]
  /\ worker = [b \in Builds |-> "idle"]
  /\ release = [b \in Builds |-> 0]
  /\ switched = FALSE /\ missed = {} /\ faults = 0

Fault == faults < MaxFaults /\ faults' = faults + 1

At(b, place)    == worker[b] = place
Go(b, place)    == worker' = [worker EXCEPT ![b] = place]
Reply(b, place) == client' = [client EXCEPT ![b] = place]
Kube(b, state)  == kube' = [kube EXCEPT ![b] = state]

\* finishBuildJobUnsuccessfully, one transaction: each row only if it is active.
Finish(b, status) ==
  /\ run' = [run EXCEPT ![b] = IF @ \in Active THEN status ELSE @]
  /\ job' = [job EXCEPT ![b] = IF @ \in Active THEN status ELSE @]
  /\ UNCHANGED started

-----------------------------------------------------------------------------
(* The API.                                                                *)

\* Later builds let in already that the policy will not keep b from; queue keeps it from
\* those that run.
LetInBefore(b) ==
  {c \in Builds : /\ c > b /\ policy \in Exclusive
                 /\ \/ run[c] = "queued" /\ worker[c] \in {"capacity", "start", "mark"}
                    \/ run[c] = "running" /\ policy # "queue"}

\* TriggerBuildRun and RetryBuildRun; queueBuildRun writes both rows.  The build may be
\* earlier than some that are there.
Trigger(b) ==
  /\ run[b] = "none"
  /\ run' = [run EXCEPT ![b] = "queued"] /\ job' = [job EXCEPT ![b] = "queued"]
  /\ Reply(b, "dispatch")
  /\ missed' = missed \cup {b} \X LetInBefore(b)
  /\ UNCHANGED <<started, kube, queue, worker, release, settled, sweep, policy, switched, faults>>

Enqueue(b) ==
  /\ queue' = queue \cup {b} /\ Reply(b, "idle")
  /\ UNCHANGED <<rows, kube, worker, release, settled, sweep, policy, switched, missed, faults>>

Dispatch(b) == client[b] = "dispatch" /\ Enqueue(b)

\* findBuildRunByIdempotency: the request comes again, and the build is still queued.
DispatchAgain(b) == client[b] = "retry" /\ run[b] = "queued" /\ job[b] = "queued" /\ Enqueue(b)

\* The task was not queued, or it was and the answer was lost.  A request with an
\* idempotency key leaves the build queued for its repetition.
DispatchRefused(b) ==
  /\ client[b] = "dispatch" /\ Fault
  /\ queue' \in {queue, queue \cup {b}}
  /\ \E place \in {"retry", "undo"} : Reply(b, place)
  /\ UNCHANGED <<rows, kube, worker, release, settled, sweep, policy, switched, missed>>

\* markBuildRunDispatchFailed: two updates, and no transaction around them.
UndoJob(b) ==
  /\ client[b] = "undo" /\ Reply(b, "undoRun")
  /\ job' = [job EXCEPT ![b] = IF @ \in Active THEN "failed" ELSE @]
  /\ UNCHANGED <<run, started, kube, queue, worker, release, settled, sweep,
                 policy, switched, missed, faults>>

UndoRun(b) ==
  /\ client[b] = "undoRun" /\ Reply(b, "idle")
  /\ run' = [run EXCEPT ![b] = IF @ \in Active THEN "failed" ELSE @]
  /\ UNCHANGED <<job, started, kube, queue, worker, release, settled, sweep,
                 policy, switched, missed, faults>>

\* The API stops, or an update fails and its error is dropped.
ApiStops(b) ==
  /\ Fault
  /\ \/ client[b] = "dispatch" /\ Reply(b, "retry")
     \/ client[b] = "undo" /\ Reply(b, "idle")
     \/ client[b] = "undoRun" /\ Reply(b, "lost")
  /\ UNCHANGED <<rows, kube, queue, worker, release, settled, sweep, policy, switched, missed>>

\* Mutant of CancelBuildRun: the job is left for the worker.
CancelRunAlone(b) ==
  /\ run[b] \in Active
  /\ run' = [run EXCEPT ![b] = "canceled"] /\ UNCHANGED <<job, started>>
  /\ UNCHANGED <<kube, queue, client, worker, release, settled, sweep,
                 policy, switched, missed, faults>>

CancelBuildRun(b) ==
  /\ run[b] \in Active /\ Finish(b, "canceled")
  /\ UNCHANGED <<kube, queue, client, worker, release, settled, sweep,
                 policy, switched, missed, faults>>

DeleteBuildRun(b) ==
  /\ run[b] \in Finished
  /\ run' = [run EXCEPT ![b] = "deleted"] /\ job' = [job EXCEPT ![b] = "deleted"]
  /\ started' = started \ {b}
  /\ UNCHANGED <<kube, queue, client, worker, release, settled, sweep,
                 policy, switched, missed, faults>>

\* The target is saved with another build concurrency policy.
SwitchPolicy ==
  /\ Fault /\ switched' = TRUE
  /\ policy' \in Policies \ {policy}
  /\ UNCHANGED <<rows, kube, queue, client, worker, release, settled, sweep, missed>>

-----------------------------------------------------------------------------
(* The worker: admission.                                                  *)

\* handleBuildRun reads the run, the job and the target, and goes where its policy says.
TakeTask(b) ==
  /\ b \in queue /\ At(b, "idle")
  /\ queue' = queue \ {b}
  /\ Go(b, IF job[b] = "queued" /\ run[b] # "canceled" THEN policy ELSE "idle")
  /\ UNCHANGED <<rows, kube, client, release, settled, sweep, policy, switched, missed, faults>>

\* EnqueueBuildRunAfter: the task comes back after a delay.
Postpone(b) ==
  /\ Go(b, "idle") /\ queue' = queue \cup {b}
  /\ UNCHANGED rows

Earlier(b) == {c \in Builds : c < b /\ run[c] \in Active}

\* Mutant of Blocking: only a build that is running blocks the next.
BlockingRunning(b) == {c \in Builds \ {b} : run[c] = "running"}

\* Active builds of the target that are earlier, or that run already.
Blocking(b) == Earlier(b) \cup {c \in Builds \ {b} : run[c] = "running"}

\* cancelSupersededBuildRuns, one transaction.
CancelSuperseded(b) ==
  LET canceled(s) == [c \in Builds |-> IF c \in Earlier(b) /\ s[c] \in Active
                                         THEN "canceled" ELSE s[c]]
  IN  run' = canceled(run) /\ job' = canceled(job) /\ UNCHANGED started

\* applyBuildConcurrencyPolicy.
Admit(b) ==
  /\ \/ At(b, "parallel") /\ Go(b, "capacity") /\ UNCHANGED <<rows, queue>>
     \/ At(b, "cancel_in_progress")
        /\ CancelSuperseded(b) /\ Go(b, "capacity") /\ UNCHANGED queue
     \/ At(b, "queue") /\ Blocking(b) = {} /\ Go(b, "capacity") /\ UNCHANGED <<rows, queue>>
     \/ At(b, "queue") /\ Blocking(b) # {} /\ Postpone(b)
  /\ UNCHANGED <<kube, client, release, settled, sweep, policy, switched, missed, faults>>

Running == {c \in Builds : job[c] = "running"}

\* ensureBuildCapacity counts, and holds nothing.
EnsureCapacity(b) ==
  /\ At(b, "capacity")
  /\ IF Cardinality(Running) < Limit THEN Go(b, "start") /\ UNCHANGED <<rows, queue>>
                                     ELSE Postpone(b)
  /\ UNCHANGED <<kube, client, release, settled, sweep, policy, switched, missed, faults>>

\* startBuildJob, the Kubernetes Job before any row says so.
StartJob(b) ==
  /\ At(b, "start") /\ Kube(b, "active") /\ Go(b, "mark")
  /\ UNCHANGED <<rows, queue, client, release, settled, sweep, policy, switched, missed, faults>>

\* A project, target, cluster, check, requeue, namespace, plan or Job that fails
\* fails the build; a Job whose creation failed may still have been created.
AdmissionFails(b) ==
  /\ worker[b] \in Policies \cup {"capacity", "start"} /\ Fault
  /\ Finish(b, "failed") /\ Go(b, "idle")
  /\ kube' \in {kube} \cup (IF At(b, "start") THEN {[kube EXCEPT ![b] = "active"]} ELSE {})
  /\ UNCHANGED <<queue, client, release, settled, sweep, policy, switched, missed>>

-----------------------------------------------------------------------------
(* The worker: execution.                                                  *)

\* Mutant of MarkRunning: the rows move whatever they were.
MarkRunningAnyway(b) ==
  /\ At(b, "mark") /\ Go(b, "follow")
  /\ run' = [run EXCEPT ![b] = "running"] /\ job' = [job EXCEPT ![b] = "running"]
  /\ started' = started \cup {b}
  /\ UNCHANGED <<kube, queue, client, release, settled, sweep, policy, switched, missed, faults>>

\* markBuildJobRunning: each row only from queued, and nobody asks whether it moved.
MarkRunning(b) ==
  /\ At(b, "mark") /\ Go(b, "follow")
  /\ run' = [run EXCEPT ![b] = IF @ = "queued" THEN "running" ELSE @]
  /\ job' = [job EXCEPT ![b] = IF @ = "queued" THEN "running" ELSE @]
  /\ started' = IF run[b] = "queued" THEN started \cup {b} ELSE started
  /\ UNCHANGED <<kube, queue, client, release, settled, sweep, policy, switched, missed, faults>>

MarkFails(b) ==
  /\ At(b, "mark") /\ Fault
  /\ Kube(b, "none") /\ Finish(b, "failed") /\ Go(b, "idle")
  /\ UNCHANGED <<queue, client, release, settled, sweep, policy, switched, missed>>

\* followBuildJob and what handleBuildRun makes of its error.
FollowCanceled(b) ==
  /\ At(b, "follow") /\ run[b] = "canceled"
  /\ Kube(b, "none") /\ Go(b, "settle")
  /\ UNCHANGED <<rows, queue, client, release, settled, sweep, policy, switched, missed, faults>>

\* Mutant of FollowTimedOut: the Kubernetes Job is left behind.
TimedOutAlone(b) ==
  /\ At(b, "follow") /\ Finish(b, "timeout") /\ Go(b, "settle")
  /\ UNCHANGED <<kube, queue, client, release, settled, sweep, policy, switched, missed, faults>>

FollowTimedOut(b) ==
  /\ At(b, "follow")
  /\ Kube(b, "none") /\ Finish(b, "timeout") /\ Go(b, "settle")
  /\ UNCHANGED <<queue, client, release, settled, sweep, policy, switched, missed, faults>>

FollowSucceeded(b) ==
  /\ At(b, "follow") /\ kube[b] = "done" /\ Go(b, "complete")
  /\ UNCHANGED <<rows, kube, queue, client, release, settled, sweep,
                 policy, switched, missed, faults>>

\* The Job failed, or is gone, or its run is: whatever is left of it stays.
FollowFailed(b) ==
  /\ At(b, "follow") /\ (kube[b] \in {"broken", "none"} \/ run[b] = "deleted")
  /\ Finish(b, "failed") /\ Go(b, "settle")
  /\ UNCHANGED <<kube, queue, client, release, settled, sweep, policy, switched, missed, faults>>

\* A read of the database or of the cluster fails, and what is then written may be
\* lost with it: the Job is not removed.
ObservationFails(b) ==
  /\ At(b, "follow") /\ Fault
  /\ (Finish(b, "failed") \/ UNCHANGED rows) /\ Go(b, "settle")
  /\ UNCHANGED <<kube, queue, client, release, settled, sweep, policy, switched, missed>>

\* Mutant of CompleteJob: what was not completed is deployed all the same.
CompleteAndDeploy(b) ==
  /\ At(b, "complete")
  /\ LET mine == job[b] = "running" /\ run[b] # "canceled"
     IN  /\ run' = [run EXCEPT ![b] = IF mine THEN "succeeded" ELSE @]
         /\ job' = [job EXCEPT ![b] = IF mine THEN "succeeded" ELSE @]
         /\ Go(b, "won")
  /\ UNCHANGED <<started, kube, queue, client, release, settled, sweep,
                 policy, switched, missed, faults>>

\* completeBuildJob: the run is succeeded unless somebody else ended it.
CompleteJob(b) ==
  /\ At(b, "complete")
  /\ LET mine == job[b] = "running" /\ run[b] # "canceled"
     IN  /\ run' = [run EXCEPT ![b] = IF mine THEN "succeeded" ELSE @]
         /\ job' = [job EXCEPT ![b] = IF mine THEN "succeeded" ELSE @]
         /\ Go(b, IF mine THEN "won" ELSE "settle")
  /\ UNCHANGED <<started, kube, queue, client, release, settled, sweep,
                 policy, switched, missed, faults>>

CompleteFails(b) ==
  /\ At(b, "complete") /\ Fault
  /\ Finish(b, "failed") /\ Go(b, "settle")
  /\ UNCHANGED <<kube, queue, client, release, settled, sweep, policy, switched, missed>>

\* settleBuildUsage: a build that never started, or is charged already, costs nothing.
Charged(b) == IF b \in started THEN settled \cup {b} ELSE settled

Settle(b) ==
  /\ worker[b] \in {"settle", "won"}
  /\ settled' = Charged(b)
  /\ Go(b, IF At(b, "won") THEN "compare" ELSE "idle")
  /\ UNCHANGED <<rows, kube, queue, client, release, sweep, policy, switched, missed, faults>>

\* newerBuildReleased, or a target that does not deploy this build by itself.
CompareBuilds(b) ==
  /\ At(b, "compare")
  /\ \/ Go(b, "idle")
     \/ (\A c \in Builds : c > b /\ run[c] # "deleted" => release[c] = 0) /\ Go(b, "release")
  /\ UNCHANGED <<rows, kube, queue, client, release, settled, sweep,
                 policy, switched, missed, faults>>

\* createAutoDeployRelease, with the next revision of the target.
CreateRelease(b) ==
  /\ At(b, "release") /\ Go(b, "idle")
  /\ release' = [release EXCEPT ![b] = IF @ = 0 THEN Cardinality({c \in Builds : release[c] > 0}) + 1 ELSE @]
  /\ UNCHANGED <<rows, kube, queue, client, settled, sweep, policy, switched, missed, faults>>

\* The worker stops, loses its queue, or its writes fail.  A task without retries is
\* archived; one that is handed back finds its job as it was left.
WorkerStops(b) ==
  /\ ~At(b, "idle") /\ Fault /\ Go(b, "idle")
  /\ queue' \in {queue, queue \cup {b}}
  /\ kube' \in {kube} \cup (IF At(b, "follow") THEN {[kube EXCEPT ![b] = "none"]} ELSE {})
  /\ UNCHANGED <<rows, client, release, settled, sweep, policy, switched, missed>>

-----------------------------------------------------------------------------
(* The sweep of late builds, and the cluster.                              *)

\* Mutant of Reclaim: only a build that runs has a deadline.
ReclaimRunning(b) ==
  /\ job[b] = "running" /\ Finish(b, "timeout")
  /\ sweep' = IF run[b] \in Active THEN sweep \cup {b} ELSE sweep
  /\ UNCHANGED <<kube, queue, client, worker, release, settled, policy, switched, missed, faults>>

\* reclaimExpiredBuildJobs: what ran has its Job removed and its usage charged after.
Reclaim(b) ==
  /\ job[b] \in Active /\ Finish(b, "timeout")
  /\ sweep' = IF job[b] = "running" /\ run[b] \in Active THEN sweep \cup {b} ELSE sweep
  /\ UNCHANGED <<kube, queue, client, worker, release, settled, policy, switched, missed, faults>>

\* releaseExpiredBuildJob, attempted once.
ReleaseExpired(b) ==
  /\ b \in sweep /\ sweep' = sweep \ {b}
  /\ Kube(b, "none") /\ settled' = Charged(b)
  /\ UNCHANGED <<rows, queue, client, worker, release, policy, switched, missed, faults>>

ReleaseExpiredFails(b) ==
  /\ b \in sweep /\ sweep' = sweep \ {b} /\ Fault
  /\ UNCHANGED <<rows, kube, queue, client, worker, release, settled, policy, switched, missed>>

\* The build container ends, or its activeDeadlineSeconds pass.
KubeEnds(b) ==
  /\ kube[b] = "active"
  /\ \E state \in {"done", "broken"} : Kube(b, state)
  /\ UNCHANGED <<rows, queue, client, worker, release, settled, sweep,
                 policy, switched, missed, faults>>

-----------------------------------------------------------------------------

SweepStep(b)  == Reclaim(b) \/ ReleaseExpired(b)
ApiStep(b)    == Dispatch(b) \/ UndoJob(b) \/ UndoRun(b)
WorkerStep(b) ==
  \/ TakeTask(b) \/ Admit(b) \/ EnsureCapacity(b) \/ StartJob(b) \/ MarkRunning(b)
  \/ FollowCanceled(b) \/ FollowTimedOut(b) \/ FollowSucceeded(b) \/ FollowFailed(b)
  \/ CompleteJob(b) \/ Settle(b) \/ CompareBuilds(b) \/ CreateRelease(b)
FaultStep(b)  ==
  \/ DispatchRefused(b) \/ ApiStops(b) \/ AdmissionFails(b) \/ MarkFails(b)
  \/ ObservationFails(b) \/ CompleteFails(b) \/ WorkerStops(b) \/ ReleaseExpiredFails(b)

Next ==
  \/ SwitchPolicy
  \/ \E b \in Builds :
       \/ Trigger(b) \/ DispatchAgain(b) \/ CancelBuildRun(b) \/ DeleteBuildRun(b)
       \/ ApiStep(b) \/ WorkerStep(b) \/ SweepStep(b) \/ FaultStep(b) \/ KubeEnds(b)

Spec == Init /\ [][Next]_vars

\* A request goes on, and the sweep comes round every thirty seconds; nothing is asked of
\* the workers.
Fairness == \A b \in Builds : WF_vars(ApiStep(b)) /\ WF_vars(SweepStep(b))

FairSpec == Spec /\ Fairness

-----------------------------------------------------------------------------
(* Properties.                                                             *)

\* The run and its job tell the same story: both active or neither, and succeeded
\* together.  Only a request that is taking back a failed dispatch, or that died
\* doing so, writes one row without the other (build_run_handlers.go).
RowsAgree ==
  \A b \in Builds : client[b] \notin {"undoRun", "lost"} =>
    /\ run[b] \in Active <=> job[b] \in Active
    /\ run[b] = "succeeded" <=> job[b] = "succeeded"

\* Under the policies queue and cancel_in_progress, as long as the policy is not changed,
\* two builds of the target run together only if the earlier one became visible when the
\* later one had been let in: the check that lets a build in and the write that says it
\* runs are apart, and a build is ordered by the time its request was made, not committed
\* (build_concurrency.go, build_runner.go, build_run_handlers.go).
OnlyMissedOverlap ==
  policy \in Exclusive /\ ~switched =>
    \A b, c \in Running : b < c => <<b, c>> \in missed

\* A build that is over and that nobody attends to has left nothing behind: its
\* Kubernetes Job does not run, and it is charged if it ran.  Cancellation, timeout and
\* the sweep see to it on different paths, in the worker or after it; only a fault, or
\* the deletion of the run before the worker looked, leaves something
\* (build_job_logs.go, build_reconciler.go, settleBuildUsage).
NothingLeftBehind ==
  \A b \in Builds :
    Over(b) /\ At(b, "idle") /\ b \notin sweep /\ faults = 0 =>
      /\ kube[b] = "active" => run[b] = "deleted"
      /\ b \in started => b \in settled

\* What is released was built and kept its result, and a build is charged only when it
\* ran: a release and a charge are made long after the status they rest on was read
\* (build_auto_deploy.go, billing/usage.go).
ReleasesWereBuilt ==
  \A b \in Builds :
    /\ release[b] > 0 => run[b] \in {"succeeded", "deleted"}
    /\ b \in settled => run[b] \notin {"none", "queued"}

\* The builds are those of BuildLifecycle: the first result of a build is its result.
BuildsKeepTheirResult == Lifecycle!Spec

\* Every build that is requested ends, whatever stops, provided the request that made
\* it did not die between the two updates of a failed dispatch.
BuildsEnd == \A b \in Builds : (run[b] \in Active) ~> (Over(b) \/ client[b] = "lost")

\* What the page on builds says of queue and of cancel_in_progress: builds of the target
\* run one at a time (docs/docs/en/use/workflow/build-and-release.md).
OneBuildAtATime ==
  policy \in Exclusive /\ ~switched => Cardinality(Running) <= 1

\* What the comment in enqueueAutoDeploymentsForBuildRun says: once a newer build of the
\* target has a release, an older one does not release over it.
NoReleaseGoesBack ==
  \A b, c \in Builds : b < c /\ release[b] > 0 /\ release[c] > 0 => release[b] < release[c]
=============================================================================
