---------------------------- MODULE TargetDeletion ----------------------------
(***************************************************************************)
(* The deletion of a deployment target while its releases go on: the       *)
(* request that starts it and the edits and service relations it races     *)
(* with (internal/api/deploymentapi, internal/dependency), and the cleanup *)
(* tasks of the worker (internal/worker/resource_cleanup.go).              *)
(*                                                                         *)
(* The releases are those of TargetRelease, step for step (Spec, Next and  *)
(* TypeOK are theirs); together with them this module implements           *)
(* TargetRelease, whose environment it takes apart.  A target has at most  *)
(* two cleanup tasks at once, because the payload, and with it the         *)
(* uniqueness lock, names the actor: the user's and the one the sweep      *)
(* queues after two hours.  Access routes, volumes and hook bindings are   *)
(* left out.                                                               *)
(***************************************************************************)
EXTENDS TargetRelease

CONSTANT MaxMishaps   \* bound: lost calls, failed cleanups, stopped cleaners

ASSUME DeletionAssumption == MaxMishaps \in Nat

VARIABLES
  request,    \* where the request that deletes is
  edit,       \* an edit has read the target and not saved it yet
  incoming,   \* an enabled service relation has this target
  tasks,      \* cleanup tasks in the queue, by actor
  held,       \* uniqueness lock of the user's task; the other's is two hours apart anyway
  cleaner,    \* how far the cleanup task of each actor is
  abandoned,  \* the target became usable again while a cleanup of it was under way
  racing,     \* releases a worker was deploying when a deletion was requested
  mishaps

others   == <<release, undo, queue, worker, applied, faults>>
deletion == <<request, edit, incoming, tasks, held, cleaner, abandoned, racing, mishaps>>
allVars  == <<vars, deletion>>

Actors == {"user", "recovery"}

DeletionTypeOK ==
  /\ TypeOK
  /\ request \in {"idle", "enqueue", "undo"} /\ edit \in BOOLEAN /\ incoming \in BOOLEAN
  /\ tasks \subseteq Actors /\ held \in BOOLEAN
  /\ cleaner \in [Actors -> {"idle", "runtime", "finish", "commit"}]
  /\ abandoned \in BOOLEAN
  /\ racing \subseteq Releases /\ mishaps \in 0..MaxMishaps

DeletionInit ==
  /\ Init
  /\ request = "idle" /\ edit = FALSE /\ incoming \in BOOLEAN
  /\ tasks = {} /\ held = FALSE
  /\ cleaner = [a \in Actors |-> "idle"]
  /\ abandoned = FALSE /\ racing = {} /\ mishaps = 0

Mishap == mishaps < MaxMishaps /\ mishaps' = mishaps + 1

CleanerAt(a, place) == cleaner[a] = place
CleanerTo(a, place) == cleaner' = [cleaner EXCEPT ![a] = place]

\* The row says something else than "deleting", whatever the cleaners are doing.
Reopen(status, except) ==
  /\ target' = status
  /\ abandoned' = \/ abandoned
                  \/ target = "deleting" /\ \E a \in Actors \ except : ~CleanerAt(a, "idle")

\* Deletion failed, as the request or a cleaner writes it over any other status.
Fails(except) ==
  IF target = "deleted" THEN UNCHANGED <<target, abandoned>> ELSE Reopen("delete_failed", except)

-----------------------------------------------------------------------------
(* The API.                                                                *)

\* UpdateDeploymentTarget reads the target and sees that it may be changed ...
ReadTarget ==
  /\ ~edit /\ CanMutate /\ edit' = TRUE
  /\ UNCHANGED <<vars, request, incoming, tasks, held, cleaner, abandoned, racing, mishaps>>

\* Mutant of SaveTarget: a row that is gone is inserted again.
SaveAgain ==
  /\ edit /\ edit' = FALSE /\ Reopen("active", {})
  /\ UNCHANGED <<others, workload, request, incoming, tasks, held, cleaner, racing, mishaps>>

\* ... and later saves the whole row, built from its input, with no delete_status.
SaveTarget ==
  /\ edit /\ edit' = FALSE
  /\ IF target = "deleted" THEN UNCHANGED <<target, abandoned>> ELSE Reopen("active", {})
  /\ UNCHANGED <<others, workload, request, incoming, tasks, held, cleaner, racing, mishaps>>

\* Mutant of BindService: the target was looked at before the transaction only.
BindAnyway ==
  /\ ~incoming /\ target # "deleted" /\ incoming' = TRUE
  /\ UNCHANGED <<vars, request, edit, tasks, held, cleaner, abandoned, racing, mishaps>>

\* CreateServiceBinding and UpdateServiceBinding: the row of the target is share-locked
\* and looked at in the transaction that writes the relation.
BindService ==
  /\ ~incoming /\ target = "active" /\ incoming' = TRUE
  /\ UNCHANGED <<vars, request, edit, tasks, held, cleaner, abandoned, racing, mishaps>>

\* DeleteServiceBinding, or an update that disables it.
UnbindService ==
  /\ incoming /\ incoming' = FALSE
  /\ UNCHANGED <<vars, request, edit, tasks, held, cleaner, abandoned, racing, mishaps>>

\* DeleteDeploymentTarget, the transaction: the row is locked, no relation has the
\* target, and the deletion is not under way.
RequestDelete ==
  /\ request = "idle" /\ CanMutate /\ ~incoming
  /\ target' = "deleting" /\ request' = "enqueue"
  /\ racing' = racing \cup {r \in DOMAIN worker : worker[r] # "idle"}
  /\ UNCHANGED <<others, workload, edit, incoming, tasks, held, cleaner, abandoned, mishaps>>

\* A duplicate is as good as queued, to the request and to the sweep.
Queue ==
  /\ tasks' = IF held THEN tasks ELSE tasks \cup {"user"}
  /\ held' = TRUE

EnqueueCleanup ==
  /\ request = "enqueue" /\ request' = "idle" /\ Queue
  /\ UNCHANGED <<vars, edit, incoming, cleaner, abandoned, racing, mishaps>>

\* The queue refuses, or its answer is lost.
EnqueueRefused ==
  /\ request = "enqueue" /\ Mishap /\ request' = "undo"
  /\ (UNCHANGED <<tasks, held>> \/ Queue)
  /\ UNCHANGED <<others, workload, target, edit, incoming, cleaner, abandoned, racing>>

UndoDeletion ==
  /\ request = "undo" /\ request' = "idle" /\ Fails({})
  /\ UNCHANGED <<others, workload, edit, incoming, tasks, held, cleaner, racing, mishaps>>

ApiStops ==
  /\ request # "idle" /\ Mishap /\ request' = "idle"
  /\ UNCHANGED <<others, workload, target, edit, incoming, tasks, held, cleaner, abandoned, racing>>

-----------------------------------------------------------------------------
(* The worker: handleResourceCleanup.                                      *)

\* A relation that has the target fails the deletion at once; nothing is removed.
Conflict(a) ==
  /\ CleanerTo(a, "idle") /\ Fails({a})
  /\ UNCHANGED held

\* The task ends well, and releases its lock.
Done(a) == CleanerTo(a, "idle") /\ held' = (held /\ a # "user")

TakeCleanup(a) ==
  /\ a \in tasks /\ CleanerAt(a, "idle") /\ tasks' = tasks \ {a}
  /\ \/ target # "deleting" /\ Done(a) /\ UNCHANGED <<target, abandoned>>
     \/ target = "deleting" /\ incoming /\ Conflict(a)
     \/ /\ target = "deleting" /\ ~incoming /\ CleanerTo(a, "runtime")
        /\ UNCHANGED <<target, held, abandoned>>
  /\ UNCHANGED <<others, workload, request, edit, incoming, racing, mishaps>>

\* cleanupDeploymentTargetRuntimeResources, deleted and confirmed.
RemoveRuntime(a) ==
  /\ CleanerAt(a, "runtime") /\ CleanerTo(a, "finish") /\ workload' = Nothing
  /\ UNCHANGED <<others, target, request, edit, incoming, tasks, held, abandoned, racing, mishaps>>

\* finishDeploymentTargetDelete counts the relations first, and locks nothing ...
CountReferences(a) ==
  /\ CleanerAt(a, "finish")
  /\ IF incoming THEN Conflict(a)
     ELSE CleanerTo(a, "commit") /\ UNCHANGED <<target, held, abandoned>>
  /\ UNCHANGED <<others, workload, request, edit, incoming, tasks, racing, mishaps>>

\* ... and then writes the rows.
CommitDeletion(a) ==
  /\ CleanerAt(a, "commit") /\ Done(a) /\ target' = "deleted"
  /\ UNCHANGED <<others, workload, request, edit, incoming, tasks, abandoned, racing, mishaps>>

\* A call fails, or resources are still being deleted: the task is retried, or it was
\* the last attempt.
CleanupFails(a) ==
  /\ ~CleanerAt(a, "idle") /\ Mishap /\ CleanerTo(a, "idle")
  /\ \/ tasks' = tasks \cup {a} /\ UNCHANGED <<target, abandoned>>
     \/ Fails({a}) /\ UNCHANGED tasks
  /\ UNCHANGED <<others, workload, request, edit, incoming, held, racing>>

\* The worker stops; its task is handed to another one, or has no retry left.
CleanerStops(a) ==
  /\ ~CleanerAt(a, "idle") /\ Mishap /\ CleanerTo(a, "idle")
  /\ tasks' \in {tasks, tasks \cup {a}}
  /\ UNCHANGED <<others, workload, target, request, edit, incoming, held, abandoned, racing>>

\* The lock of a task that did not end well lasts two hours.
LockExpires ==
  /\ held /\ held' = FALSE
  /\ UNCHANGED <<vars, request, edit, incoming, tasks, cleaner, abandoned, racing, mishaps>>

\* Mutant of RecoverCleanup: what failed is cleaned up again, what is lost is not.
RecoverFailed ==
  /\ target = "delete_failed" /\ tasks' = tasks \cup {"recovery"}
  /\ UNCHANGED <<vars, request, edit, incoming, held, cleaner, abandoned, racing, mishaps>>

\* recoverStaleResourceCleanups.
RecoverCleanup ==
  /\ target = "deleting" /\ tasks' = tasks \cup {"recovery"}
  /\ UNCHANGED <<vars, request, edit, incoming, held, cleaner, abandoned, racing, mishaps>>

-----------------------------------------------------------------------------

CleanerStep(a) == TakeCleanup(a) \/ RemoveRuntime(a) \/ CountReferences(a) \/ CommitDeletion(a)

DeletionStep ==
  \/ ReadTarget \/ SaveTarget \/ BindService \/ UnbindService
  \/ RequestDelete \/ EnqueueCleanup \/ EnqueueRefused \/ UndoDeletion \/ ApiStops
  \/ RecoverCleanup \/ LockExpires
  \/ \E a \in Actors : CleanerStep(a) \/ CleanupFails(a) \/ CleanerStops(a)

ReleasesStep ==
  /\ RolloutMoves \/ \E r \in Releases : ReleaseStep(r)
  /\ UNCHANGED deletion

DeletionNext == DeletionStep \/ ReleasesStep

DeletionSpec == DeletionInit /\ [][DeletionNext]_allVars

\* Workers take what is queued, and the sweep comes round.
Fairness ==
  /\ WF_allVars(RecoverCleanup)
  /\ \A a \in Actors : WF_allVars(CleanerStep(a))

FairDeletionSpec == DeletionSpec /\ Fairness

-----------------------------------------------------------------------------
(* Properties.                                                             *)

\* A target that is going or gone has no enabled relation: the deletion and the relation
\* look at each other under locks on one row.  Only a target that was made usable again
\* under a cleanup escapes (deployment_target_handlers.go, internal/dependency/repository.go).
NoRelationToWhatGoes ==
  target \in {"deleting", "deleted"} /\ ~abandoned => ~incoming

\* What still runs after the deletion was being deployed when it was requested: a release
\* that comes later is refused, by its request or by its worker (deploy_runner.go).
LeftoversWereRacing ==
  target = "deleted" /\ ~abandoned => workload.by \in {0} \cup racing

\* Seen from the releases, the deletion is the environment of TargetRelease.
ReleasesGoOn == Spec

\* A deletion is answered, even if its task is lost or a duplicate of one that died.
DeletionIsAnswered == target = "deleting" ~> target # "deleting"

\* What the documentation says: a deletion ends as Deleted or Delete failed.
DeletionEndsAsSuch ==
  [][target = "deleting" => target' \in {"deleting", "deleted", "delete_failed"}]_target
=============================================================================
