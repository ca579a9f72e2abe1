---------------------------- MODULE ProjectVolume ----------------------------
(***************************************************************************)
(* The managed volumes of one project: the rows the API and the worker     *)
(* share (internal/volume), their quota (the trigger of                    *)
(* migrations/000103_baseline.up.sql), the claims of the cluster, the      *)
(* queue between API and worker (internal/tasks), the handlers of          *)
(* internal/worker/volume_runner.go and the mounts that releases settle    *)
(* (internal/worker/deployment_volume_mounts.go).                          *)
(*                                                                         *)
(* An API operation is a transaction followed by an enqueue; a worker      *)
(* task is a read, a call to the cluster and a conditional write.  A row   *)
(* that is read and written under its lock is one step.  The expected      *)
(* revision of a request only refuses requests, and is left out.           *)
(***************************************************************************)
EXTENDS Integers

CONSTANTS
  Volumes,       \* volumes of the project
  NoVolume,      \* the volume of an idle request, of a free mount
  NoTarget,      \* the target of an idle release
  Clients,       \* API requests in flight
  Targets,       \* deployment targets, each with one logical volume
  Releases,      \* releases the deploy workers run side by side
  MaxCapacity,   \* capacities are 1..MaxCapacity
  Limit,         \* storage.projectManagedCapacityLimitGiB
  MaxRetry,      \* retries of a volume task (10 in PolicyForType)
  MaxRequests,   \* bound: how many requests change a volume
  MaxFaults      \* bound: lost requests, queue outages, worker stops

ASSUME VolumeAssumption ==
  /\ NoVolume \notin Volumes
  /\ MaxCapacity \in Nat \ {0} /\ Limit \in Nat /\ MaxRetry \in Nat
  /\ MaxRequests \in Nat /\ MaxFaults \in Nat

VARIABLES
  vol,       \* project_volumes
  quota,     \* project_volume_quota_reservations
  usage,     \* project_volume_quota_usage.reserved_bytes
  claim,     \* capacity of the PersistentVolumeClaim, 0 when there is none
  dying,     \* claims Kubernetes has been asked to delete
  mount,     \* deployment_volume_mounts
  attached,  \* the volume the workload of a target refers to
  release,   \* where each release is in its volume stages
  request,   \* API requests between their transaction and their enqueue
  task,      \* the queue: one task per volume and operation (asynq.Unique)
  spent      \* what has been used of the bounds

store   == <<vol, quota, usage>>
cluster == <<claim, dying>>
mounts  == <<mount, attached, release>>
vars    == <<store, cluster, mounts, request, task, spent>>

Lifecycle == INSTANCE VolumeLifecycle WITH state <- [v \in Volumes |-> vol[v].state]

Operations == {"provision", "expand", "delete"}
Capacities == 1..MaxCapacity
Row == [state : Lifecycle!States, op : Operations \cup {""}, cap : 0..MaxCapacity]
TaskSteps == {"none", "queued", "apply", "settle", "observe", "complete",
              "refused", "failed", "archived"}
Running == {"apply", "settle", "observe", "complete", "refused", "failed"}
NoTask == [at |-> "none", tries |-> 0, seen |-> "absent", cap |-> 0]
MountStates == {"none", "reserved", "active", "release_pending", "error"}
NoRelease == [at |-> "idle", target |-> NoTarget, plan |-> NoVolume, seen |-> "none"]
NoMount == [state |-> "none", vol |-> NoVolume]
Idle == [at |-> "idle", vol |-> NoVolume, op |-> "", from |-> "absent"]

TypeOK ==
  /\ vol \in [Volumes -> Row]
  /\ quota \in [Volumes -> [committed : 0..MaxCapacity, pending : 0..MaxCapacity]]
  /\ usage \in Int
  /\ claim \in [Volumes -> 0..MaxCapacity]
  /\ dying \subseteq {v \in Volumes : claim[v] > 0}
  /\ mount \in [Targets -> [state : MountStates, vol : Volumes \cup {NoVolume}]]
  /\ attached \in [Targets -> Volumes \cup {NoVolume}]
  /\ release \in [Releases -> [at : {"idle", "apply", "observe", "settle"},
                               target : Targets \cup {NoTarget}, plan : Volumes \cup {NoVolume},
                               seen : MountStates]]
  /\ request \in [Clients -> [at : {"idle", "dispatch", "undo"},
                              vol : Volumes \cup {NoVolume},
                              op : Operations \cup {""}, from : Lifecycle!States]]
  /\ task \in [Volumes -> [Operations ->
                 [at : TaskSteps, tries : 0..MaxRetry,
                  seen : Lifecycle!States, cap : 0..MaxCapacity]]]
  /\ spent \in [requests : 0..MaxRequests, faults : 0..MaxFaults]

Init ==
  /\ vol = [v \in Volumes |-> [state |-> "absent", op |-> "", cap |-> 0]]
  /\ quota = [v \in Volumes |-> [committed |-> 0, pending |-> 0]]
  /\ usage = 0
  /\ claim = [v \in Volumes |-> 0] /\ dying = {}
  /\ mount = [t \in Targets |-> NoMount]
  /\ attached = [t \in Targets |-> NoVolume]
  /\ release = [r \in Releases |-> NoRelease]
  /\ request = [c \in Clients |-> Idle]
  /\ task = [v \in Volumes |-> [k \in Operations |-> NoTask]]
  /\ spent = [requests |-> 0, faults |-> 0]

Exists(v) == vol[v].state \notin {"absent", "deleted"}

-----------------------------------------------------------------------------
(* The quota trigger: what a row reserves, and whether the project has room. *)

Total(q) == q.committed + q.pending

Reserve(row, q) ==
  LET growth == IF row.cap > q.committed THEN row.cap - q.committed ELSE 0 IN
  IF row.state = "deleted" THEN [committed |-> 0, pending |-> 0]
  ELSE IF row.op \in {"provision", "expand"}
    THEN [q EXCEPT !.pending = IF row.state = "error" THEN 0 ELSE growth]
  ELSE IF row.op = "delete" THEN [q EXCEPT !.pending = 0]
  ELSE IF row.state = "ready" THEN [committed |-> row.cap, pending |-> 0]
  ELSE q

\* Mutant of Fits: only a creation is held against the limit.
FitsCreation(v, row) ==
  vol[v].state = "absent" => usage + Total(Reserve(row, quota[v])) - Total(quota[v]) <= Limit

Fits(v, row) ==
  LET delta == Total(Reserve(row, quota[v])) - Total(quota[v])
  IN  delta > 0 => usage + delta <= Limit

Save(v, row) ==
  /\ Fits(v, row)
  /\ vol' = [vol EXCEPT ![v] = row]
  /\ quota' = [quota EXCEPT ![v] = Reserve(row, @)]
  /\ usage' = usage + Total(Reserve(row, quota[v])) - Total(quota[v])

\* TransitionProjectVolume: conditional on the lifecycle state alone.
Moved(v, to) == [vol[v] EXCEPT !.state = to, !.op = IF to = "ready" THEN "" ELSE @]
CanMove(v, from, to) == vol[v].state = from /\ Fits(v, Moved(v, to))
Transition(v, from, to) ==
  IF CanMove(v, from, to) THEN Save(v, Moved(v, to)) ELSE UNCHANGED store

-----------------------------------------------------------------------------
(* The API: internal/volume/service.go.                                    *)

Ask(c, v, op, from) ==
  /\ request[c].at = "idle" /\ spent.requests < MaxRequests
  /\ spent' = [spent EXCEPT !.requests = @ + 1]
  /\ request' = [request EXCEPT ![c] =
                   [at |-> "dispatch", vol |-> v, op |-> op, from |-> from]]
  /\ UNCHANGED <<cluster, mounts, task>>

CreateProjectVolume(c, v) ==
  /\ vol[v].state = "absent"
  /\ \E n \in Capacities :
       Save(v, [state |-> "provisioning", op |-> "provision", cap |-> n])
  /\ Ask(c, v, "provision", "provisioning")

\* Whatever the volume is doing, the operation it waits for is now the growth.
UpdateProjectVolume(c, v) ==
  /\ Exists(v)
  /\ \E n \in Capacities : /\ n > vol[v].cap
                           /\ Save(v, [vol[v] EXCEPT !.cap = n, !.op = "expand"])
  /\ Ask(c, v, "expand", "ready")

Mounted(v) == \E t \in Targets : mount[t].vol = v

\* Mutant of RequestDelete: the mounts are not counted.
RequestDeleteMounted(c, v) ==
  /\ Exists(v)
  /\ Lifecycle!CanTransition(vol[v].state, "deleting")
  /\ Save(v, [vol[v] EXCEPT !.state = "deleting", !.op = "delete"])
  /\ Ask(c, v, "delete", "deleting")

RequestDelete(c, v) ==
  /\ Exists(v) /\ ~Mounted(v)
  /\ Lifecycle!CanTransition(vol[v].state, "deleting")
  /\ Save(v, [vol[v] EXCEPT !.state = "deleting", !.op = "delete"])
  /\ Ask(c, v, "delete", "deleting")

\* Also how a replayed creation goes on after an enqueue that failed.
RetryOperation(c, v) ==
  LET to == IF vol[v].op = "delete" THEN "deleting" ELSE "provisioning" IN
  /\ vol[v].state = "error" /\ vol[v].op # ""
  /\ Save(v, [vol[v] EXCEPT !.state = to])
  /\ Ask(c, v, vol[v].op, to)

Queue(v, op) == task' = [task EXCEPT ![v][op] = [NoTask EXCEPT !.at = "queued"]]

Dispatch(c) ==
  /\ request[c].at = "dispatch"
  /\ task[request[c].vol][request[c].op].at = "none"
  /\ Queue(request[c].vol, request[c].op)
  /\ request' = [request EXCEPT ![c] = Idle]
  /\ UNCHANGED <<store, cluster, mounts, spent>>

Fault == spent.faults < MaxFaults /\ spent' = [spent EXCEPT !.faults = @ + 1]

\* ErrDuplicateTask while a task of the same payload holds the lock, or no queue.
DispatchRefused(c) ==
  /\ request[c].at = "dispatch"
  /\ \/ task[request[c].vol][request[c].op].at # "none" /\ UNCHANGED spent
     \/ task[request[c].vol][request[c].op].at = "none" /\ Fault
  /\ request' = [request EXCEPT ![c].at = "undo"]
  /\ UNCHANGED <<store, cluster, mounts, task>>

UndoDispatch(c) ==
  /\ request[c].at = "undo"
  /\ Transition(request[c].vol, request[c].from, "error")
  /\ request' = [request EXCEPT ![c] = Idle]
  /\ UNCHANGED <<cluster, mounts, task, spent>>

RequestLost(c) ==
  /\ request[c].at # "idle" /\ Fault
  /\ request' = [request EXCEPT ![c] = Idle]
  /\ UNCHANGED <<store, cluster, mounts, task>>

-----------------------------------------------------------------------------
(* The worker: internal/worker/volume_runner.go.                           *)

Set(v, k, at) == task' = [task EXCEPT ![v][k].at = at]
EndTask(v, k) == task' = [task EXCEPT ![v][k] = NoTask]

\* An error gives the task back to the queue, the last one keeps it archived.
Again(v, k) ==
  task' = [task EXCEPT ![v][k] =
             IF @.tries < MaxRetry
               THEN [at |-> "queued", tries |-> @.tries + 1, seen |-> "absent", cap |-> 0]
               ELSE [NoTask EXCEPT !.at = "archived"]]

Awaited(v, k) ==
  /\ Exists(v) /\ vol[v].op = k
  /\ k = "delete" => vol[v].state = "deleting"

TakeTask(v, k) ==
  /\ task[v][k].at = "queued"
  /\ IF Awaited(v, k)
       THEN task' = [task EXCEPT ![v][k] = [@ EXCEPT !.at = "apply",
                        !.seen = vol[v].state, !.cap = vol[v].cap]]
       ELSE EndTask(v, k)
  /\ UNCHANGED <<store, cluster, mounts, request, spent>>

\* CreateProjectVolumeClaim: an existing claim that is large enough will do.
ProvisionClaim(v) ==
  LET t == task[v]["provision"] IN
  /\ t.at = "apply"
  /\ IF claim[v] \in 1..(t.cap - 1)
       THEN Set(v, "provision", "refused") /\ UNCHANGED claim
       ELSE /\ claim' = [claim EXCEPT ![v] = IF @ = 0 THEN t.cap ELSE @]
            /\ \E at \in {"settle", "failed"} : Set(v, "provision", at)
  /\ UNCHANGED <<store, dying, mounts, request, spent>>

\* ExpandProjectVolumeClaim: a claim that is missing or larger is refused.
ExpandClaim(v) ==
  LET t == task[v]["expand"] IN
  /\ t.at = "apply"
  /\ IF claim[v] = 0 \/ claim[v] > t.cap
       THEN Set(v, "expand", "refused") /\ UNCHANGED claim
       ELSE /\ claim' = [claim EXCEPT ![v] = t.cap]
            /\ \E at \in {"settle", "failed"} : Set(v, "expand", at)
  /\ UNCHANGED <<store, dying, mounts, request, spent>>

Referenced(v) == \E t \in Targets : attached[t] = v

\* DeleteProjectVolumeClaim: refused while a pod refers to the claim.
DeleteClaim(v) ==
  /\ task[v]["delete"].at = "apply"
  /\ IF claim[v] > 0 /\ Referenced(v)
       THEN Set(v, "delete", "failed") /\ UNCHANGED dying
       ELSE /\ dying' = IF claim[v] > 0 THEN dying \cup {v} ELSE dying
            /\ Set(v, "delete", "observe")
  /\ UNCHANGED <<store, claim, mounts, request, spent>>

\* A claim that is still there is a deletion to look at again, without a verdict.
ObserveClaim(v) ==
  /\ task[v]["delete"].at = "observe"
  /\ IF claim[v] > 0 THEN Again(v, "delete") ELSE Set(v, "delete", "complete")
  /\ UNCHANGED <<store, cluster, mounts, request, spent>>

\* The cluster does not answer, or refuses for good: the claim is somebody else's, its
\* storage class cannot grow, the specification is invalid (projectVolumeProviderError).
ClusterUnavailable(v, k) ==
  /\ task[v][k].at \in {"apply", "observe"}
  /\ \E at \in {"refused", "failed"} : Set(v, k, at)
  /\ UNCHANGED <<store, cluster, mounts, request, spent>>

\* Mutant of SettleReady: the row is compared, the table is not looked at.
SettleReadyUnchecked(v, k) ==
  /\ task[v][k].at = "settle"
  /\ IF CanMove(v, task[v][k].seen, "ready")
       THEN Save(v, Moved(v, "ready")) /\ EndTask(v, k)
       ELSE Again(v, k) /\ UNCHANGED store
  /\ UNCHANGED <<cluster, mounts, request, spent>>

\* SetProjectVolumeLifecycle looks at the table before the row.
SettleReady(v, k) ==
  LET seen == task[v][k].seen IN
  /\ task[v][k].at = "settle"
  /\ IF Lifecycle!CanTransition(seen, "ready") /\ CanMove(v, seen, "ready")
       THEN Save(v, Moved(v, "ready")) /\ EndTask(v, k)
       ELSE /\ IF vol[v].state = "ready" /\ vol[v].op = "" THEN EndTask(v, k) ELSE Again(v, k)
            /\ UNCHANGED store
  /\ UNCHANGED <<cluster, mounts, request, spent>>

CompleteDeletion(v) ==
  /\ task[v]["delete"].at = "complete"
  /\ IF vol[v].state = "deleting" /\ vol[v].op = "delete" /\ ~Mounted(v)
       THEN Save(v, [vol[v] EXCEPT !.state = "deleted"]) /\ EndTask(v, "delete")
       ELSE (IF Exists(v) THEN Again(v, "delete") ELSE EndTask(v, "delete")) /\ UNCHANGED store
  /\ UNCHANGED <<cluster, mounts, request, spent>>

\* finishProjectVolumeAttempt: a refusal or the last failure is the volume's error.
FinishAttempt(v, k) ==
  LET last == task[v][k].at = "refused" \/ task[v][k].tries = MaxRetry IN
  /\ task[v][k].at \in {"refused", "failed"}
  /\ IF last THEN Transition(v, task[v][k].seen, "error") ELSE UNCHANGED store
  /\ IF task[v][k].at = "refused" THEN Set(v, k, "archived") ELSE Again(v, k)
  /\ UNCHANGED <<cluster, mounts, request, spent>>

\* A worker that goes down or a task that times out settles nothing.
WorkerStops(v, k) ==
  /\ task[v][k].at \in Running /\ Fault
  /\ Again(v, k)
  /\ UNCHANGED <<store, cluster, mounts, request>>

\* An archived task keeps the lock of its payload for the rest of the day.
LockExpires(v, k) ==
  /\ task[v][k].at = "archived" /\ EndTask(v, k)
  /\ UNCHANGED <<store, cluster, mounts, request, spent>>

\* Mutant of Reconcile: growth that was never queued is not queued again.
ReconcileDeletions(v) ==
  /\ vol[v].state = "deleting" /\ vol[v].op = "delete"
  /\ \A c \in Clients : request[c].vol # v
  /\ \A k \in Operations : task[v][k].at = "none"
  /\ Queue(v, vol[v].op)
  /\ UNCHANGED <<store, cluster, mounts, request, spent>>

\* handleVolumeReconcile: what has been waiting for a day is queued once more.
Reconcile(v) ==
  /\ \/ vol[v].state = "deleting" /\ vol[v].op = "delete"
     \/ vol[v].state = "provisioning" /\ vol[v].op \in {"provision", "expand"}
  /\ \A c \in Clients : request[c].vol # v
  /\ \A k \in Operations : task[v][k].at = "none"
  /\ Queue(v, vol[v].op)
  /\ UNCHANGED <<store, cluster, mounts, request, spent>>

\* Kubernetes lets go of a claim once no pod uses it.
ClaimGone(v) ==
  /\ v \in dying /\ ~Referenced(v)
  /\ claim' = [claim EXCEPT ![v] = 0] /\ dying' = dying \ {v}
  /\ UNCHANGED <<store, mounts, request, task, spent>>

-----------------------------------------------------------------------------
(* Mounts: the API binds and unbinds, a release settles what it observes.  *)

\* CanAttachProjectVolume
CanAttach(v) ==
  \/ vol[v].state = "ready"
  \/ vol[v].state = "provisioning" /\ vol[v].op \in {"provision", "expand"}

Rebind(t, m) ==
  /\ mount' = [mount EXCEPT ![t] = m]
  /\ UNCHANGED <<store, cluster, attached, release, request, task, spent>>

ReserveMount(t, v) ==
  /\ mount[t] = NoMount /\ CanAttach(v)
  /\ Rebind(t, [state |-> "reserved", vol |-> v])

BeginUnbind(t) ==
  /\ mount[t].state \in {"reserved", "active", "error"}
  /\ Rebind(t, [mount[t] EXCEPT !.state = "release_pending"])

RestoreMount(t) ==
  /\ mount[t].state = "release_pending"
  /\ Rebind(t, [mount[t] EXCEPT !.state = "reserved"])

EndRelease(r) == release' = [release EXCEPT ![r] = NoRelease]

\* deploymentTargetDataVolumes: the volumes the workload will be given.
PlanVolumes(r) ==
  /\ release[r] = NoRelease
  /\ \E t \in Targets :
       LET wanted == mount[t].state \notin {"none", "release_pending"} IN
       release' = [release EXCEPT ![r] =
         IF wanted /\ ~CanAttach(mount[t].vol) THEN NoRelease
         ELSE [at |-> "apply", target |-> t, seen |-> "none",
               plan |-> IF wanted THEN mount[t].vol ELSE NoVolume]]
  /\ UNCHANGED <<store, cluster, mount, attached, request, task, spent>>

ApplyWorkload(r) ==
  /\ release[r].at = "apply"
  /\ attached' = [attached EXCEPT ![release[r].target] = release[r].plan]
  /\ release' = [release EXCEPT ![r].at = "observe"]
  /\ UNCHANGED <<store, cluster, mount, request, task, spent>>

\* The rollout is over: the mounts are listed and the workload is looked at.
ObserveAttachments(r) ==
  LET t == release[r].target
      leaving == mount[t].state = "release_pending" IN
  /\ release[r].at = "observe"
  /\ release' = [release EXCEPT ![r].at = "settle", ![r].seen = mount[t].state,
       ![r].plan = IF leaving \/ attached[t] = mount[t].vol THEN attached[t] ELSE NoVolume]
  /\ UNCHANGED <<store, cluster, mount, attached, request, task, spent>>

\* A rollout that fails, times out or is superseded settles no mount.
RolloutFails(r) ==
  /\ release[r].at \in {"apply", "observe"}
  /\ EndRelease(r)
  /\ UNCHANGED <<store, cluster, mount, attached, request, task, spent>>

\* Mutant of SettleMount: a mount to be released is removed without the observation.
SettleMountBlindly(r) ==
  /\ release[r].at = "settle"
  /\ mount' = [mount EXCEPT ![release[r].target] =
                  IF @.state = "release_pending" THEN NoMount ELSE @]
  /\ EndRelease(r)
  /\ UNCHANGED <<store, cluster, attached, request, task, spent>>

\* What was seen decides, and the write is conditional on the states it may leave.
SettleMount(r) ==
  LET t     == release[r].target
      seen  == release[r].seen
      there == release[r].plan # NoVolume
      Write(from, m) == mount' = [mount EXCEPT ![t] = IF @.state \in from THEN m ELSE @] IN
  /\ release[r].at = "settle"
  /\ \/ /\ seen = "release_pending" /\ ~there
        /\ Write({"release_pending"}, NoMount)
     \/ /\ seen \in {"reserved", "active", "error"} /\ ~there
        /\ Write({"reserved", "active"}, [mount[t] EXCEPT !.state = "error"])
     \/ /\ seen \in {"reserved", "error"} /\ there
        /\ Write({"reserved", "error"}, [mount[t] EXCEPT !.state = "active"])
     \/ /\ seen = "none" \/ (seen \in {"active", "release_pending"} /\ there)
        /\ UNCHANGED mount
  /\ EndRelease(r)
  /\ UNCHANGED <<store, cluster, attached, request, task, spent>>

-----------------------------------------------------------------------------
ClientStep(c) == Dispatch(c) \/ DispatchRefused(c) \/ UndoDispatch(c)

TaskStep(v, k) == \/ TakeTask(v, k) \/ SettleReady(v, k) \/ FinishAttempt(v, k)
                  \/ k = "provision" /\ ProvisionClaim(v)
                  \/ k = "expand" /\ ExpandClaim(v)
                  \/ k = "delete" /\ (DeleteClaim(v) \/ ObserveClaim(v) \/ CompleteDeletion(v))

Next ==
  \/ \E c \in Clients, v \in Volumes :
       CreateProjectVolume(c, v) \/ UpdateProjectVolume(c, v) \/ RequestDelete(c, v)
         \/ RetryOperation(c, v)
  \/ \E c \in Clients : ClientStep(c) \/ RequestLost(c)
  \/ \E v \in Volumes, k \in Operations :
       TaskStep(v, k) \/ ClusterUnavailable(v, k) \/ WorkerStops(v, k) \/ LockExpires(v, k)
  \/ \E v \in Volumes : Reconcile(v) \/ ClaimGone(v)
  \/ \E t \in Targets, v \in Volumes : ReserveMount(t, v)
  \/ \E t \in Targets : BeginUnbind(t) \/ RestoreMount(t)
  \/ \E r \in Releases : PlanVolumes(r) \/ ApplyWorkload(r) \/ ObserveAttachments(r)
                           \/ RolloutFails(r) \/ SettleMount(r)

Spec == Init /\ [][Next]_vars

\* asynq hands every queued task to a worker and drops a lock after its time,
\* the scheduler queues the reconciliation, Kubernetes finalizes claims, and a
\* request that is not lost goes on to its enqueue.
FairSpec ==
  /\ Spec
  /\ \A c \in Clients : WF_vars(ClientStep(c))
  /\ \A v \in Volumes : WF_vars(Reconcile(v)) /\ WF_vars(ClaimGone(v))
  /\ \A v \in Volumes, k \in Operations : WF_vars(TaskStep(v, k)) /\ WF_vars(LockExpires(v, k))

-----------------------------------------------------------------------------
(* Properties. *)

\* Safety.  Creations, growth, retries and the worker's writes together never
\* reserve more of the project's capacity than the limit.
QuotaHolds == usage <= Limit

\* Safety.  A volume some deployment is bound to is neither given up nor on its
\* way there, whatever deletions, retries and bindings race.
MountedStays ==
  \A t \in Targets : LET v == mount[t].vol IN
    v # NoVolume => /\ Exists(v)
                    /\ ~(vol[v].state = "deleting" /\ vol[v].op = "delete")

\* Action property.  The API's compensations and the worker's late writes, which
\* look at the lifecycle state alone, take no step the transition table forbids:
\* the volumes implement VolumeLifecycle.
VolumesFollowTable == Lifecycle!Spec

\* Action property.  As long as one release of a target runs at a time, a mount is
\* removed only when the workload has let go of the volume.
ReleasedIsDetached ==
  [][\A t \in Targets : mount[t] # NoMount /\ mount'[t] = NoMount
                           => attached[t] # mount[t].vol]_vars

\* Liveness.  Provisioning, growth and deletion come to an end (or are replaced by
\* another operation) although requests are lost between their transaction and
\* their enqueue and workers stop: what nobody works on is queued again.
Waiting(v) == \/ vol[v].state = "provisioning"
              \/ vol[v].state = "deleting" /\ vol[v].op = "delete"
OperationSettles == \A v \in Volumes : Waiting(v) ~> ~Waiting(v)

\* What the user documentation says of a deletion ("Permanently deleting a managed
\* volume deletes the underlying PVC", runtime-data-persistence.md): a volume that
\* is gone has no claim.  The code leaves one behind.
DeletedHasNoClaim == \A v \in Volumes : vol[v].state = "deleted" => claim[v] = 0
=============================================================================
