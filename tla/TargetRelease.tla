----------------------------- MODULE TargetRelease -----------------------------
(***************************************************************************)
(* The releases of one deployment target: the API that creates, rolls back *)
(* and cancels them (internal/api/deploymentapi), the worker that deploys  *)
(* them (internal/worker/deploy_runner.go) and the sweep that settles what *)
(* no worker attends to any more (build_reconciler.go).                    *)
(*                                                                         *)
(* Releases are numbered in the order of created_at; all of them write the *)
(* same workload, and nothing makes them take turns.  The deletion of the  *)
(* target is seen from here as steps of the environment; TargetDeletion    *)
(* takes them apart and implements them.  Specifications, hooks, logs and  *)
(* the revision of a release are left out.                                 *)
(***************************************************************************)
EXTENDS Naturals

CONSTANTS
  MaxReleases,   \* bound: releases that are created
  MaxFaults      \* bound: lost calls, failed stages, stopped workers

ASSUME ReleaseAssumption == MaxReleases \in Nat /\ MaxFaults \in Nat

VARIABLES
  release,    \* releases.status; "superseded" is failed with that code
  undo,       \* requests about to fail a release they could not queue
  queue,      \* releases with a task in the queue
  worker,     \* how far the task of each release is
  workload,   \* the Deployment: the release in its pod template, 0 for none, and its rollout
  applied,    \* releases that were in the pod template once
  target,     \* delete_status of the target
  faults

vars == <<release, undo, queue, worker, workload, applied, target, faults>>

Releases == 1..MaxReleases

Lifecycle == INSTANCE ReleaseLifecycle WITH state <- release

Active == {"pending", "running"}

TypeOK ==
  /\ release \in [Releases -> {"none", "succeeded", "failed", "superseded", "canceled"} \cup Active]
  /\ undo \subseteq Releases /\ queue \subseteq Releases /\ applied \subseteq Releases
  /\ worker \in [Releases -> {"idle", "prepare", "apply", "wait", "confirm"}]
  /\ workload \in [by : {0} \cup applied, phase : {"progressing", "ready", "broken"}]
  /\ target \in {"active", "deleting", "delete_failed", "deleted"}
  /\ faults \in 0..MaxFaults

Nothing == [by |-> 0, phase |-> "progressing"]

Init ==
  /\ release = [r \in Releases |-> "none"]
  /\ undo = {} /\ queue = {} /\ applied = {}
  /\ worker = [r \in Releases |-> "idle"]
  /\ workload = Nothing
  /\ target = "active" /\ faults = 0

\* DeleteStatusActive.
CanMutate == target \in {"active", "delete_failed"}

Fault == faults < MaxFaults /\ faults' = faults + 1

At(r, place) == worker[r] = place
Go(r, place) == worker' = [worker EXCEPT ![r] = place]

\* Mutant of Finish: the last writer wins.
FinishAnyway(r, status) == release' = [release EXCEPT ![r] = status]

\* finishDeployRelease: one conditional update, the first writer wins.
Finish(r, status) ==
  release' = [release EXCEPT ![r] = IF @ \in Active THEN status ELSE @]

-----------------------------------------------------------------------------
(* The API.                                                                *)

Create(r) ==
  /\ release[r] = "none" /\ \A s \in Releases : s < r => release[s] # "none"
  /\ CanMutate
  /\ release' = [release EXCEPT ![r] = "pending"]
  /\ UNCHANGED <<worker, workload, applied, target>>

\* CreateRelease, RollbackRelease and createAutoDeployRelease, with the task queued.
CreateRelease(r) ==
  Create(r) /\ queue' = queue \cup {r} /\ UNCHANGED <<undo, faults>>

\* The task was not queued, or it was and the answer is lost.  A request with an
\* idempotency key, or an API that stops, leaves the release as it is.
CreateUnqueued(r) ==
  /\ Create(r) /\ Fault
  /\ queue' \in {queue, queue \cup {r}} /\ undo' \in {undo, undo \cup {r}}

\* markReleaseDispatchFailed.
UndoRelease(r) ==
  /\ r \in undo /\ undo' = undo \ {r} /\ Finish(r, "failed")
  /\ UNCHANGED <<queue, worker, workload, applied, target, faults>>

CancelRelease(r) ==
  /\ release[r] \in Active /\ Finish(r, "canceled")
  /\ UNCHANGED <<undo, queue, worker, workload, applied, target, faults>>

-----------------------------------------------------------------------------
(* The worker: handleDeployRun.                                            *)

\* Mutant of TakeTask: the target is not looked at again.
TakeTaskAnyway(r) ==
  /\ r \in queue /\ At(r, "idle") /\ queue' = queue \ {r}
  /\ \/ release[r] \notin Active /\ UNCHANGED <<release, worker>>
     \/ release[r] \in Active /\ Go(r, "prepare")
        /\ release' = [release EXCEPT ![r] = "running"]
  /\ UNCHANGED <<undo, workload, applied, target, faults>>

\* A release that is over is dropped, one whose target is going is failed, and one
\* that has started before runs its stages again.
TakeTask(r) ==
  /\ r \in queue /\ At(r, "idle") /\ queue' = queue \ {r}
  /\ \/ release[r] \notin Active /\ UNCHANGED <<release, worker>>
     \/ release[r] \in Active /\ ~CanMutate /\ Finish(r, "failed") /\ UNCHANGED worker
     \/ release[r] \in Active /\ CanMutate /\ Go(r, "prepare")
        /\ release' = [release EXCEPT ![r] = "running"]
  /\ UNCHANGED <<undo, workload, applied, target, faults>>

\* The last look at the release before the workload is written.
Recheck(r) ==
  /\ At(r, "prepare")
  /\ Go(r, IF release[r] \in Active THEN "apply" ELSE "idle")
  /\ UNCHANGED <<release, undo, queue, workload, applied, target, faults>>

\* applyApplicationResources: the workload is this release's now.
ApplyResources(r) ==
  /\ At(r, "apply") /\ Go(r, "wait")
  /\ workload' = [by |-> r, phase |-> "progressing"]
  /\ applied' = applied \cup {r}
  /\ UNCHANGED <<release, undo, queue, target, faults>>

\* waitForDeploymentRollout looks at the rollout, whichever release it belongs to.
WaitForRollout(r) ==
  /\ At(r, "wait")
  /\ \/ release[r] \notin Active /\ Go(r, "idle") /\ UNCHANGED release
     \/ release[r] \in Active /\ workload.by > 0 /\ workload.phase = "ready"
        /\ Go(r, "confirm") /\ UNCHANGED release
     \/ (workload.by = 0 \/ workload.phase = "broken") /\ Go(r, "idle") /\ Finish(r, "failed")
  /\ UNCHANGED <<undo, queue, workload, applied, target, faults>>

\* The volumes are reconciled and the post hook has run.
Succeed(r) ==
  /\ At(r, "confirm") /\ Go(r, "idle") /\ Finish(r, "succeeded")
  /\ UNCHANGED <<undo, queue, workload, applied, target, faults>>

\* failDeployStage: the release is failed and the task comes back to find that, or
\* the update fails too and it comes back to a release that is still active.
StageFails(r) ==
  /\ ~At(r, "idle") /\ Fault /\ Go(r, "idle")
  /\ \/ Finish(r, "failed") /\ queue' \in {queue, queue \cup {r}}
     \/ UNCHANGED release /\ queue' = queue \cup {r}
  /\ UNCHANGED <<undo, workload, applied, target>>

\* The worker stops; its task is handed to another one, or has no retry left.
WorkerStops(r) ==
  /\ ~At(r, "idle") /\ Fault /\ Go(r, "idle")
  /\ queue' \in {queue, queue \cup {r}}
  /\ UNCHANGED <<release, undo, workload, applied, target>>

-----------------------------------------------------------------------------
(* The sweep.                                                              *)

\* Mutant of Expire: a release that never started has no deadline.
ExpireStarted(r) ==
  /\ release[r] = "running" /\ Finish(r, "failed")
  /\ UNCHANGED <<undo, queue, worker, workload, applied, target, faults>>

\* expireStaleReleases: the deadline counts from the start, or from the creation.
Expire(r) ==
  /\ release[r] \in Active /\ Finish(r, "failed")
  /\ UNCHANGED <<undo, queue, worker, workload, applied, target, faults>>

\* Mutant of Observe: the rollout is this release's, whoever's it is.
ObserveAny(r) ==
  /\ release[r] = "running" /\ target # "deleted"
  /\ \/ workload.phase = "broken" /\ Finish(r, "failed")
     \/ workload.phase = "ready" /\ Finish(r, "succeeded")
  /\ UNCHANGED <<undo, queue, worker, workload, applied, target, faults>>

\* syncReleaseRuntimeSnapshot judges a release by its own workload only.
Observe(r) ==
  /\ release[r] = "running" /\ target # "deleted"
  /\ \/ workload.by > r /\ Finish(r, "superseded")
     \/ workload.by = r /\ workload.phase = "broken" /\ Finish(r, "failed")
     \/ workload.by = r /\ workload.phase = "ready" /\ Finish(r, "succeeded")
  /\ UNCHANGED <<undo, queue, worker, workload, applied, target, faults>>

-----------------------------------------------------------------------------
(* The cluster, and the deletion of the target.                            *)

\* Pods become ready, crash, or recover.
RolloutMoves ==
  /\ workload.by # 0
  /\ \E phase \in {"ready", "broken"} : workload' = [workload EXCEPT !.phase = phase]
  /\ UNCHANGED <<release, undo, queue, worker, applied, target, faults>>

\* A cleanup that has begun removes the workload, whatever has become of its target.
CleanRuntime ==
  /\ workload' = Nothing
  /\ UNCHANGED <<release, undo, queue, worker, applied, target, faults>>

\* The deletion begins, fails, ends, or is overwritten.
TargetMoves ==
  /\ target # "deleted"
  /\ target' \in {"active", "deleting", "delete_failed", "deleted"}
  /\ UNCHANGED <<release, undo, queue, worker, workload, applied, faults>>

-----------------------------------------------------------------------------

ReleaseStep(r) ==
  \/ CreateRelease(r) \/ CreateUnqueued(r) \/ UndoRelease(r) \/ CancelRelease(r)
  \/ TakeTask(r) \/ Recheck(r) \/ ApplyResources(r) \/ WaitForRollout(r) \/ Succeed(r)
  \/ StageFails(r) \/ WorkerStops(r) \/ Expire(r) \/ Observe(r)

Next ==
  \/ RolloutMoves \/ CleanRuntime \/ TargetMoves
  \/ \E r \in Releases : ReleaseStep(r)

Spec == Init /\ [][Next]_vars

\* The sweep comes round every thirty seconds and finds what is past its deadline.
FairSpec == Spec /\ \A r \in Releases : WF_vars(Expire(r))

-----------------------------------------------------------------------------
(* Properties.                                                             *)

\* A result is earned: what succeeded was applied, and what was superseded has a newer
\* release that was applied, although the worker, the sweep and the retries of the task
\* judge one shared workload at different times (deploy_runner.go, build_reconciler.go).
VerdictsAreEarned ==
  \A r \in Releases :
    /\ release[r] = "succeeded" => r \in applied
    /\ release[r] = "superseded" => \E s \in applied : s > r

\* The releases are those of ReleaseLifecycle: the first result of a release is its result.
ReleasesKeepTheirResult == Lifecycle!Spec

\* Every release ends, even one that was never queued or whose worker died for good.
ReleasesEnd == \A r \in Releases : (release[r] \in Active) ~> (release[r] \notin Active)
=============================================================================
