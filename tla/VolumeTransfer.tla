---------------------------- MODULE VolumeTransfer ----------------------------
(***************************************************************************)
(* One transfer between a client and a volume: the import of an archive    *)
(* into a new volume, or the export of a volume that is ready.  The row    *)
(* and its volume (internal/volume), the worker attempts that prepare the  *)
(* claim and the Transfer Pod under a lease                                *)
(* (internal/worker/volume_transfer_runner.go), the maintenance that       *)
(* expires and cleans up (volume_runner.go), and the API that creates,     *)
(* cancels and streams (internal/volumetransferapi).                       *)
(*                                                                         *)
(* A row read and written under its lock is one step; a call to the        *)
(* cluster is one step.  The snapshot of a snapshot export goes with the   *)
(* Pod.  Contents, digests, tickets and authorization are left out: a      *)
(* stream that does not check out is one that fails.                       *)
(***************************************************************************)
EXTENDS Naturals

CONSTANTS
  Workers,     \* workers that may hold the import or export task
  Sweepers,    \* workers of the light queue: expiry, cleanup, reconciliation
  Clients,     \* API requests
  Nobody,      \* holder of a task whose worker is gone
  MaxRetry,    \* retries of the task (5 in PolicyForType)
  MaxGen,      \* bound: executions that may claim the transfer
  MaxFaults    \* bound: outages, stops, stalls and lost requests

ASSUME TransferAssumption ==
  /\ Nobody \notin Workers /\ Workers \cap Sweepers = {}
  /\ MaxRetry \in Nat /\ MaxGen \in Nat /\ MaxFaults \in Nat

VARIABLES
  direction,  \* import or export
  tr,         \* volume_transfers: state, generation, lease, job, cleanup marker
  vol,        \* lifecycle of the volume
  claim,      \* its PersistentVolumeClaim exists
  pod,        \* the Transfer Pod
  time,       \* the session has expired, the stream makes no progress
  worker,     \* where each worker is
  client,     \* where each request is
  task,       \* the import or export task (asynq.Unique)
  cleanup,    \* a targeted cleanup task is queued
  faults

row   == <<direction, tr, vol>>
kube  == <<claim, pod>>
queue == <<task, cleanup>>
vars  == <<row, kube, time, worker, client, queue, faults>>

Lifecycle == INSTANCE TransferLifecycle WITH state <- tr.state, cleaned <- tr.clean

Import == direction = "import"
Over   == tr.state \in Lifecycle!Terminal

Leased == {"prepare", "create", "pod", "confirm", "wait", "stop"}
Places == Leased \cup {"idle", "refuse", "claim", "fail", "cleanPod", "cleanClaim",
                       "mark", "forget", "expire", "late", "stale"}
Resting == [at |-> "idle", gen |-> 0, lost |-> FALSE, last |-> FALSE,
            seen |-> "none", marked |-> FALSE, then |-> "done"]
NoTask  == [at |-> "none", tries |-> 0, owner |-> Nobody]

TypeOK ==
  /\ direction \in {"import", "export"}
  /\ tr \in [state : Lifecycle!States, gen : 0..MaxGen, job : BOOLEAN, clean : BOOLEAN,
             lease : {"none", "held", "lapsed"}]
  /\ vol \in {"provisioning", "ready", "error", "deleted"}
  /\ claim \in BOOLEAN
  /\ pod \in {"none", "starting", "ready", "failed"}
  /\ time \in [expired : BOOLEAN, stale : BOOLEAN]
  /\ worker \in [Workers \cup Sweepers ->
       [at : Places, gen : 0..MaxGen, lost : BOOLEAN, last : BOOLEAN,
        seen : Lifecycle!States, marked : BOOLEAN, then : {"done", "again", "archive"}]]
  /\ client \in [Clients -> {"idle", "create", "cancel", "undo", "stream", "complete", "fail"}]
  /\ task \in [at : {"none", "queued", "running", "archived"}, tries : 0..MaxRetry,
               owner : Workers \cup {Nobody}]
  /\ cleanup \in BOOLEAN
  /\ faults \in 0..MaxFaults

\* An import finds its volume provisioning, an export finds it ready.
Init ==
  /\ direction \in {"import", "export"}
  /\ tr = [state |-> "none", gen |-> 0, job |-> FALSE, clean |-> FALSE, lease |-> "none"]
  /\ vol = IF Import THEN "provisioning" ELSE "ready"
  /\ claim = ~Import
  /\ pod = "none"
  /\ time = [expired |-> FALSE, stale |-> FALSE]
  /\ worker = [w \in Workers \cup Sweepers |-> Resting]
  /\ client = [c \in Clients |-> "idle"]
  /\ task = NoTask
  /\ cleanup = FALSE
  /\ faults = 0

Fault == faults < MaxFaults /\ faults' = faults + 1

-----------------------------------------------------------------------------
(* Writes to the row: internal/volume/service.go.                          *)

Enter(state) == tr' = [tr EXCEPT !.state = state]

\* Mutant of FailExecution: the volume of a failed import is left as it is.
FailExecutionAlone ==
  IF tr.state \in Lifecycle!Active THEN Enter("failed") /\ UNCHANGED vol
                                   ELSE UNCHANGED <<tr, vol>>

\* FailVolumeTransferExecution: the transfer and the volume it was filling.
FailExecution ==
  IF tr.state \in Lifecycle!Active /\ (Import => vol \in {"provisioning", "error"})
    THEN Enter("failed") /\ vol' = IF Import THEN "error" ELSE vol
    ELSE UNCHANGED <<tr, vol>>

\* dispatchTerminalCleanup: best effort, and only where there is a dispatcher.
MayQueueCleanup == cleanup' \in {cleanup, TRUE}

-----------------------------------------------------------------------------
(* The API.                                                                *)

Go(c, place) == client' = [client EXCEPT ![c] = place]

CreateTransfer(c) ==
  /\ tr.state = "none" /\ client[c] = "idle"
  /\ Enter("preparing") /\ Go(c, "create")
  /\ UNCHANGED <<direction, vol, kube, time, worker, queue, faults>>

\* Mutant of Cancel: the table is not looked at.
CancelAnyState(c) ==
  /\ tr.state # "none" /\ client[c] = "idle"
  /\ Enter("cancelled") /\ Go(c, "cancel")
  /\ UNCHANGED <<direction, vol, kube, time, worker, queue, faults>>

\* TransitionVolumeTransfer to cancelled.
Cancel(c) ==
  /\ tr.state \in Lifecycle!Active /\ client[c] = "idle"
  /\ Enter("cancelled") /\ Go(c, "cancel")
  /\ UNCHANGED <<direction, vol, kube, time, worker, queue, faults>>

Dispatch(c) ==
  /\ client[c] \in {"create", "cancel"} /\ task.at = "none"
  /\ task' = [NoTask EXCEPT !.at = "queued"] /\ Go(c, "idle")
  /\ UNCHANGED <<row, kube, time, worker, cleanup, faults>>

\* No queue, or a task of this transfer that still holds the lock; a transfer that
\* was cancelled stays cancelled.
DispatchRefused(c) ==
  /\ client[c] \in {"create", "cancel"}
  /\ IF task.at = "none" THEN Fault ELSE UNCHANGED faults
  /\ Go(c, IF client[c] = "create" THEN "undo" ELSE "idle")
  /\ UNCHANGED <<row, kube, time, worker, queue>>

ClaimStream(c) ==
  /\ tr.state = "ready" /\ ~time.expired /\ client[c] = "idle"
  /\ Enter("streaming") /\ Go(c, "stream")
  /\ UNCHANGED <<direction, vol, kube, time, worker, queue, faults>>

\* startHeartbeat: bytes that moved are progress.
Progress(c) ==
  /\ client[c] = "stream" /\ tr.state = "streaming" /\ pod = "ready" /\ time.stale
  /\ time' = [time EXCEPT !.stale = FALSE]
  /\ UNCHANGED <<row, kube, worker, client, queue, faults>>

StreamEnds(c) ==
  /\ client[c] = "stream"
  /\ \/ pod = "ready" /\ Go(c, "complete")
     \/ Go(c, "fail")
  /\ UNCHANGED <<row, kube, time, worker, queue, faults>>

\* CompleteVolumeTransferStream: the transfer and the volume in one transaction.
CompleteStream(c) ==
  /\ client[c] = "complete"
  /\ IF tr.state = "streaming" /\ (Import => vol = "provisioning")
       THEN /\ Enter("succeeded") /\ vol' = "ready"
            /\ MayQueueCleanup /\ Go(c, "idle")
       ELSE Go(c, "fail") /\ UNCHANGED <<tr, vol, cleanup>>
  /\ UNCHANGED <<direction, kube, time, worker, task, faults>>

FailRequest(c) ==
  /\ client[c] \in {"fail", "undo"}
  /\ FailExecution /\ MayQueueCleanup /\ Go(c, "idle")
  /\ UNCHANGED <<direction, kube, time, worker, task, faults>>

\* The API goes down; a stream whose authorization is revoked also ends like this.
RequestLost(c) ==
  /\ client[c] # "idle"
  /\ IF client[c] = "stream" THEN UNCHANGED faults ELSE Fault
  /\ Go(c, "idle")
  /\ UNCHANGED <<row, kube, time, worker, queue>>

-----------------------------------------------------------------------------
(* A worker and the task it holds.                                         *)

Move(w, place) == worker' = [worker EXCEPT ![w].at = place]

Holds(w) == w \in Workers /\ task.owner = w

\* Back to the queue, or archived when no retry is left.
Again == IF task.tries < MaxRetry
           THEN [at |-> "queued", tries |-> task.tries + 1, owner |-> Nobody]
           ELSE [NoTask EXCEPT !.at = "archived"]

\* An attempt that no longer holds its task has nothing to say about it.
Finish(w, verdict) ==
  /\ worker' = [worker EXCEPT ![w] = Resting]
  /\ IF Holds(w)
       THEN task' = CASE verdict = "done"    -> NoTask
                      [] verdict = "again"   -> Again
                      [] verdict = "archive" -> [NoTask EXCEPT !.at = "archived"]
       ELSE UNCHANGED task

\* failOrRetryVolumeTransfer on an error that may pass.
Transient(w) == IF worker[w].last THEN Move(w, "fail") /\ UNCHANGED task ELSE Finish(w, "again")

Gone == tr.state = "cancelled" /\ vol = "deleted"

TakeTask(w) ==
  /\ task.at = "queued" /\ worker[w].at = "idle"
  /\ IF tr.state \in {"ready", "streaming"} \/ Gone
       THEN task' = NoTask /\ UNCHANGED worker
       ELSE /\ task' = [task EXCEPT !.at = "running", !.owner = w]
            /\ worker' = [worker EXCEPT ![w] =
                 [Resting EXCEPT !.at = IF Over THEN "cleanPod" ELSE "claim",
                                 !.last = task.tries = MaxRetry,
                                 !.seen = tr.state, !.marked = tr.clean]]
  /\ UNCHANGED <<row, kube, time, client, cleanup, faults>>

\* No provider for the cluster: a transfer that is not over fails, Pod or not.
TakeTaskWithoutCluster(w) ==
  /\ task.at = "queued" /\ worker[w].at = "idle" /\ ~Gone /\ Fault
  /\ task' = IF Over THEN Again ELSE [task EXCEPT !.at = "running", !.owner = w]
  /\ worker' = IF Over THEN worker ELSE [worker EXCEPT ![w].at = "refuse"]
  /\ UNCHANGED <<row, kube, time, client, cleanup>>

\* A failure that is stored is final; whether it was stored before, and is then
\* the same one, is for the error code to tell.
Verdict(v) == \/ v = "archive" /\ tr'.state = "failed"
              \/ v = "again" /\ (tr'.state # "failed" \/ tr.state = "failed")

Refuse(w) ==
  /\ worker[w].at = "refuse"
  /\ FailExecution
  /\ \E v \in {"archive", "again"} : Verdict(v) /\ Finish(w, v)
  /\ UNCHANGED <<direction, kube, time, client, cleanup, faults>>

\* ClaimVolumeTransferExecution: one lease at a time, each with a new generation.
ClaimExecution(w) ==
  /\ worker[w].at = "claim"
  /\ IF tr.state = "preparing" /\ tr.lease # "held" /\ tr.gen < MaxGen
       THEN /\ tr' = [tr EXCEPT !.gen = @ + 1, !.lease = "held", !.job = FALSE]
            /\ worker' = [worker EXCEPT ![w].at = "prepare", ![w].gen = tr.gen + 1]
            /\ UNCHANGED task
       ELSE Finish(w, "again") /\ UNCHANGED tr
  /\ UNCHANGED <<direction, vol, kube, time, client, cleanup, faults>>

Renewable(w) == tr.state = "preparing" /\ tr.gen = worker[w].gen /\ tr.lease = "held"

\* The heartbeat finds the lease gone and cancels the preparation.
LoseLease(w) ==
  /\ worker[w].at \in Leased /\ ~worker[w].lost /\ ~Renewable(w)
  /\ worker' = [worker EXCEPT ![w].lost = TRUE]
  /\ UNCHANGED <<row, kube, time, client, queue, faults>>

Works(w, place) == worker[w].at = place /\ ~worker[w].lost

PodRuns == pod \in {"starting", "ready"}

\* prepareVolumeTransferClaim: an import starts from a new claim, and a claim in
\* use cannot be deleted.
PrepareClaim(w) ==
  /\ Works(w, "prepare")
  /\ IF Import /\ claim /\ PodRuns
       THEN Transient(w) /\ UNCHANGED claim
       ELSE /\ claim' = ~Import
            /\ Move(w, IF Import THEN "create" ELSE "pod") /\ UNCHANGED task
  /\ UNCHANGED <<row, pod, time, client, cleanup, faults>>

CreateClaim(w) ==
  /\ Works(w, "create")
  /\ claim' = TRUE /\ Move(w, "pod")
  /\ UNCHANGED <<row, pod, time, client, queue, faults>>

\* PrepareVolumeTransfer: the Pod of an earlier execution is as good.
PreparePod(w) ==
  /\ Works(w, "pod")
  /\ pod' = IF pod = "none" THEN "starting" ELSE pod
  /\ Move(w, "confirm")
  /\ UNCHANGED <<row, claim, time, client, queue, faults>>

Fenced(w) == tr.state = "preparing" /\ tr.gen = worker[w].gen

ConfirmJob(w) ==
  /\ Works(w, "confirm")
  /\ IF Fenced(w) THEN tr' = [tr EXCEPT !.job = TRUE] /\ Move(w, "wait")
                  ELSE Move(w, "fail") /\ UNCHANGED tr
  /\ UNCHANGED <<direction, vol, kube, time, client, queue, faults>>

\* waitForVolumeTransferPodReady, the Pod is ready.
MarkReady(w) ==
  /\ Works(w, "wait") /\ pod = "ready"
  /\ IF Fenced(w) /\ tr.job
       THEN tr' = [tr EXCEPT !.state = "ready", !.lease = "none"] /\ Move(w, "stop")
       ELSE Move(w, "fail") /\ UNCHANGED tr
  /\ UNCHANGED <<direction, vol, kube, time, client, queue, faults>>

\* It fails, it is gone, it does not become ready in time, or the user cancels.
StopWaiting(w) ==
  /\ Works(w, "wait") /\ (pod # "ready" \/ tr.state = "cancelled")
  /\ Transient(w)
  /\ UNCHANGED <<row, kube, time, client, cleanup, faults>>

\* A call that fails, or that is cancelled with the preparation.
CallFails(w) ==
  /\ worker[w].at \in Leased \ {"stop"}
  /\ IF worker[w].lost THEN UNCHANGED faults ELSE Fault
  /\ Transient(w)
  /\ UNCHANGED <<row, kube, time, client, cleanup>>

\* stopHeartbeat: a renewal that failed in the meantime is the verdict.
StopHeartbeat(w) ==
  /\ worker[w].at = "stop"
  /\ IF worker[w].lost THEN Move(w, "fail") /\ UNCHANGED task ELSE Finish(w, "done")
  /\ UNCHANGED <<row, kube, time, client, cleanup, faults>>

\* failAndCleanupVolumeTransfer: whether or not the failure could be stored, what
\* follows takes the transfer for a failed one.
FailAttempt(w) ==
  /\ worker[w].at = "fail"
  /\ \/ FailExecution /\ UNCHANGED faults
     \/ Fault /\ UNCHANGED <<tr, vol>>
  /\ \E v \in {"archive", "again"} :
       /\ Verdict(v)
       /\ worker' = [worker EXCEPT ![w].at = "cleanPod", ![w].seen = "failed",
                                   ![w].lost = FALSE, ![w].then = v]
  /\ UNCHANGED <<direction, kube, time, client, queue>>

-----------------------------------------------------------------------------
(* Cleanup: completeVolumeTransferExecutionCleanup.                        *)

Forgets(w) == Import /\ w \in Workers /\ worker[w].seen = "cancelled"

\* Nothing is done twice, but a cancelled Pod is looked for every time.
CleanPod(w) ==
  LET me == worker[w] IN
  /\ me.at = "cleanPod"
  /\ IF me.marked /\ ~(w \in Workers /\ me.seen = "cancelled")
       THEN Finish(w, me.then) /\ UNCHANGED pod
       ELSE /\ pod' = "none"
            /\ IF me.marked /\ ~Import THEN Finish(w, me.then)
               ELSE /\ Move(w, IF me.marked THEN "forget"
                               ELSE IF Import /\ me.seen # "succeeded" THEN "cleanClaim" ELSE "mark")
                    /\ UNCHANGED task
  /\ UNCHANGED <<row, claim, time, client, cleanup, faults>>

CleanClaim(w) ==
  /\ worker[w].at = "cleanClaim"
  /\ IF claim /\ PodRuns
       THEN Finish(w, "again") /\ UNCHANGED claim
       ELSE claim' = FALSE /\ Move(w, "mark") /\ UNCHANGED task
  /\ UNCHANGED <<row, pod, time, client, cleanup, faults>>

\* MarkVolumeTransferExecutionCleanupCompleted
MarkCleaned(w) ==
  /\ worker[w].at = "mark"
  /\ tr' = [tr EXCEPT !.clean = Over]
  /\ IF ~Over THEN Finish(w, "again")
     ELSE IF Forgets(w) THEN Move(w, "forget") /\ UNCHANGED task
     ELSE Finish(w, worker[w].then)
  /\ UNCHANGED <<direction, vol, kube, time, client, cleanup, faults>>

CleanupFails(w) ==
  /\ worker[w].at \in {"cleanPod", "cleanClaim", "mark"} /\ Fault
  /\ Finish(w, "again")
  /\ UNCHANGED <<row, kube, time, client, cleanup>>

\* CompleteCancelledVolumeImport: the volume that was being filled goes, too.
CompleteCancelledImport(w) ==
  /\ worker[w].at = "forget"
  /\ IF tr.state = "cancelled" /\ tr.clean /\ vol \in {"provisioning", "error"}
       THEN vol' = "deleted" /\ Finish(w, "done")
       ELSE UNCHANGED vol /\ Finish(w, IF vol = "deleted" THEN "done" ELSE "again")
  /\ UNCHANGED <<direction, tr, kube, time, client, cleanup, faults>>

-----------------------------------------------------------------------------
(* Maintenance: handleVolumeTransferCleanup and handleVolumeReconcile.     *)

Sweep(s, place) ==
  worker' = [worker EXCEPT ![s] = [Resting EXCEPT !.at = place, !.seen = tr.state, !.marked = tr.clean]]

Expirable == tr.state \in {"preparing", "ready"} /\ time.expired

TakeCleanup(s) ==
  /\ cleanup /\ worker[s].at = "idle"
  /\ cleanup' = FALSE
  /\ \/ Expirable /\ Sweep(s, "expire")
     \/ Over /\ ~tr.clean /\ Sweep(s, "cleanPod")
     \/ ~Expirable /\ (tr.clean \/ ~Over) /\ UNCHANGED worker
  /\ UNCHANGED <<row, kube, time, client, task, faults>>

ListExpired(s) ==
  /\ worker[s].at = "idle" /\ Expirable
  /\ Sweep(s, "expire")
  /\ UNCHANGED <<row, kube, time, client, queue, faults>>

\* ExpireVolumeTransfer: under the lock, and only a session nobody has claimed.
ExpireTransfer(s) ==
  /\ worker[s].at = "expire"
  /\ IF Expirable \/ tr.state = "expired"
       THEN /\ Enter("expired")
            /\ worker' = [worker EXCEPT ![s].at = IF Import THEN "late" ELSE "cleanPod",
                                        ![s].seen = "expired", ![s].marked = tr.clean]
       ELSE worker' = [worker EXCEPT ![s] = Resting] /\ UNCHANGED tr
  /\ UNCHANGED <<direction, vol, kube, time, client, queue, faults>>

\* The volume of an expired import is given up in a transaction of its own.
ExpireVolume(s) ==
  /\ worker[s].at = "late"
  /\ vol' = IF vol = "provisioning" THEN "error" ELSE vol
  /\ Move(s, "cleanPod")
  /\ UNCHANGED <<direction, tr, kube, time, client, queue, faults>>

ListStale(s) ==
  /\ worker[s].at = "idle" /\ tr.state = "streaming" /\ time.stale
  /\ Sweep(s, "stale")
  /\ UNCHANGED <<row, kube, time, client, queue, faults>>

\* FailStaleVolumeTransfer: progress made since the list was read wins.
FailStale(s) ==
  /\ worker[s].at = "stale"
  /\ IF tr.state = "streaming" /\ time.stale
       THEN /\ Enter("failed")
            /\ vol' = IF Import /\ vol = "provisioning" THEN "error" ELSE vol
            /\ worker' = [worker EXCEPT ![s].at = "cleanPod", ![s].seen = "failed"]
       ELSE worker' = [worker EXCEPT ![s] = Resting] /\ UNCHANGED <<tr, vol>>
  /\ UNCHANGED <<direction, kube, time, client, queue, faults>>

\* Mutant of Reconcile: what is over is over.
ReconcilePreparing ==
  /\ task.at = "none" /\ tr.state = "preparing" /\ time.expired
  /\ task' = [NoTask EXCEPT !.at = "queued"]
  /\ UNCHANGED <<row, kube, time, worker, client, cleanup, faults>>

\* A day later (the session has expired by then) unfinished work is queued again.
Reconcile ==
  /\ task.at = "none" /\ time.expired
  /\ tr.state = "preparing" \/ (Over /\ ~tr.clean)
  /\ task' = [NoTask EXCEPT !.at = "queued"]
  /\ UNCHANGED <<row, kube, time, worker, client, cleanup, faults>>

-----------------------------------------------------------------------------
(* What happens to them.                                                   *)

\* A worker goes down; what it held is recovered by the queue.
WorkerStops(w) ==
  /\ worker[w].at # "idle" /\ Fault
  /\ worker' = [worker EXCEPT ![w] = Resting]
  /\ task' = IF Holds(w) THEN [task EXCEPT !.owner = Nobody] ELSE task
  /\ UNCHANGED <<row, kube, time, client, cleanup>>

\* The queue gives up on a worker that is only slow; the worker learns of it later.
WorkerStalls(w) ==
  /\ Holds(w) /\ Fault
  /\ task' = [task EXCEPT !.owner = Nobody]
  /\ UNCHANGED <<row, kube, time, worker, client, cleanup>>

AttemptCancelled(w) ==
  /\ w \in Workers /\ worker[w].at # "idle" /\ ~Holds(w)
  /\ worker' = [worker EXCEPT ![w] = Resting]
  /\ UNCHANGED <<row, kube, time, client, queue, faults>>

RecoverTask ==
  /\ task.at = "running" /\ task.owner = Nobody
  /\ task' = Again
  /\ UNCHANGED <<row, kube, time, worker, client, cleanup, faults>>

\* An archived task keeps the lock of its payload for the rest of the day.
LockExpires ==
  /\ task.at = "archived" /\ task' = NoTask
  /\ UNCHANGED <<row, kube, time, worker, client, cleanup, faults>>

Renewed == \E w \in Workers : worker[w].at \in Leased /\ worker[w].gen = tr.gen /\ ~worker[w].lost

LeaseLapses ==
  /\ tr.lease = "held"
  /\ IF Renewed THEN Fault ELSE UNCHANGED faults
  /\ tr' = [tr EXCEPT !.lease = "lapsed"]
  /\ UNCHANGED <<direction, vol, kube, time, worker, client, queue>>

SessionExpires ==
  /\ tr.state # "none" /\ ~time.expired
  /\ time' = [time EXCEPT !.expired = TRUE]
  /\ UNCHANGED <<row, kube, worker, client, queue, faults>>

StreamStalls ==
  /\ tr.state = "streaming" /\ ~time.stale
  /\ time' = [time EXCEPT !.stale = TRUE]
  /\ UNCHANGED <<row, kube, worker, client, queue, faults>>

PodStarts ==
  /\ pod = "starting" /\ claim /\ pod' = "ready"
  /\ UNCHANGED <<row, claim, time, worker, client, queue, faults>>

PodFails ==
  /\ PodRuns /\ Fault /\ pod' = "failed"
  /\ UNCHANGED <<row, claim, time, worker, client, queue>>

-----------------------------------------------------------------------------
RequestStep(c) == Dispatch(c) \/ DispatchRefused(c) \/ StreamEnds(c) \/ CompleteStream(c) \/ FailRequest(c)

Clean(w) == CleanPod(w) \/ CleanClaim(w) \/ MarkCleaned(w)

Prepare(w) ==
  \/ ClaimExecution(w) \/ PrepareClaim(w) \/ CreateClaim(w) \/ PreparePod(w)
  \/ ConfirmJob(w) \/ MarkReady(w) \/ StopWaiting(w) \/ StopHeartbeat(w)

WorkerStep(w) ==
  TakeTask(w) \/ Refuse(w) \/ Prepare(w) \/ FailAttempt(w) \/ Clean(w) \/ CompleteCancelledImport(w)

SweeperStep(s) ==
  \/ TakeCleanup(s) \/ ListExpired(s) \/ ExpireTransfer(s) \/ ExpireVolume(s)
  \/ ListStale(s) \/ FailStale(s) \/ Clean(s)

Next ==
  \/ \E c \in Clients : CreateTransfer(c) \/ Cancel(c) \/ ClaimStream(c) \/ Progress(c)
                          \/ RequestStep(c) \/ RequestLost(c)
  \/ \E w \in Workers : WorkerStep(w) \/ TakeTaskWithoutCluster(w) \/ LoseLease(w) \/ CallFails(w)
                          \/ WorkerStalls(w) \/ AttemptCancelled(w)
  \/ \E s \in Sweepers : SweeperStep(s)
  \/ \E w \in Workers \cup Sweepers : WorkerStops(w) \/ CleanupFails(w)
  \/ Reconcile \/ RecoverTask \/ LockExpires \/ LeaseLapses
  \/ SessionExpires \/ StreamStalls \/ PodStarts \/ PodFails

Spec == Init /\ [][Next]_vars

\* Time passes, the scheduler runs its tasks, and a request, a task or an attempt
\* that is not lost goes on.
FairSpec ==
  /\ Spec
  /\ \A c \in Clients : WF_vars(RequestStep(c))
  /\ \A w \in Workers : WF_vars(WorkerStep(w)) /\ WF_vars(CallFails(w) /\ worker[w].lost)
  /\ \A s \in Sweepers : WF_vars(SweeperStep(s))
  /\ WF_vars(Reconcile) /\ WF_vars(RecoverTask) /\ WF_vars(LockExpires)
  /\ WF_vars(SessionExpires) /\ WF_vars(StreamStalls /\ \A c \in Clients : client[c] # "stream")

-----------------------------------------------------------------------------
(* Properties. *)

\* Action property.  Workers, sweepers and clients race for the row, and none of
\* them takes it where the table forbids or takes its cleanup marker back.
TransferFollowsTable == Lifecycle!Spec

\* Safety.  Whatever ends first, the volume of an import agrees with its transfer:
\* ready with a stream that completed, given up with one that failed, deleted with
\* one that was cancelled and cleaned up.
VolumeAgrees ==
  Import => /\ vol = "ready" <=> tr.state = "succeeded"
            /\ vol = "error" => tr.state \in {"failed", "expired"}
            /\ tr.state = "failed" => vol = "error"
            /\ vol = "deleted" => tr.state = "cancelled" /\ tr.clean

\* Liveness.  Every transfer comes to an end and is cleaned up, though requests
\* are lost, workers stop or stall and calls fail.
TransferSettles == (tr.state # "none") ~> (Over /\ tr.clean)

\* What runtime-data-persistence.md says of an import: "Recovery is complete only
\* when both the Transfer and volume reach succeeded and ready terminal states."
\* The code may delete the claim of such an import.
SucceededImportKeepsClaim == Import /\ tr.state = "succeeded" /\ vol = "ready" => claim
=============================================================================
