# Verification of luna-devops

This directory holds the TLA+ models of luna-devops, the TLC configurations that
check them on small instances, and the TLAPS proofs about them. Paths are
relative to the root of the repository.

1. [The system](#1-the-system)
2. [Modules](#2-modules)
3. [From code to model](#3-from-code-to-model)
4. [Runs](#4-runs)
5. [Where the code and its documents disagree](#5-where-the-code-and-its-documents-disagree)
6. [Fairness](#6-fairness)
7. [Proofs](#7-proofs)
8. [Not modelled](#8-not-modelled)
9. [Plan](#9-plan)

## 1. The system

luna-devops is a platform for building, deploying and operating applications. It
consists of a Go API and a Go worker (`cmd`, `internal`), a web application
(`web`) and an AI assistant (`luna-agent`, TypeScript) that works on the platform
by calling its API on behalf of the user. API and worker share PostgreSQL and a task
queue in Redis (asynq); the worker acts on Kubernetes.

| Component | Keeps | Operations | Hard because | Correct when |
|---|---|---|---|---|
| Run executor (`luna-agent/src/executor/index.ts`, `run-loop.ts`) | `controllers`, `active`, `stopping` in memory | claim, quota check, loop, reconcile at start-up, stop | several loops in one event loop, crash at any `await`, aborts that are only looked at in places | a run is not lost, not recovered for ever, not carried on by too many loops |
| Run finalizer (`executor/finalize.ts`) | nothing | complete, cancel, interrupt, fail, give up | races every other writer of the row | a loop reports the outcome that is stored |
| Run store (`persistence/postgres.ts`) | `ai.runs`, `ai.run_checkpoints`, `ai.tool_calls` | conditional updates with a status, a row version or a revision | conditions on the status alone; a replayed checkpoint is reported as stored | runs move along one status graph, recoveries survive later checkpoints |
| HTTP API of the agent (`server.ts`) | nothing | turns, tool actions, approval decisions, input, cancel, event streams | handlers take several transactions, and write rows a loop may own | a decision is applied once, a cancel ends the run |
| Tool orchestrator (`tools/orchestrator.ts`, `tools/postgres-store.ts`) | the abort controllers of calls in flight | propose, advance, execute, resolve approval, recover, cancel | the effect is on another service and its answer can be lost | an operation is carried out at most once, with consent |
| Tool step and verification (`executor/tool-step.ts`, `verification.ts`) | verifications owed, completion blockers | batch of calls, recovery of a batch, read backs | what was accepted has to be found again after a crash | a completed run has read back what it wrote |
| Loop guard (`tools/loop-guard.ts`) | counters per run | check, record, export, restore | its limits must hold over resumptions | calls per run are bounded |
| Stream bus and sessions (`run-stream-bus.ts`, `executor/streaming.ts`) | live events in memory, sequence numbers, the batch of a model step | open, publish, commit, retry, clean up | two allocators of numbers; a batch whose answer was lost | an answer is stored once, numbers are used once |
| Stream hub and its clients (`run-stream-hub.ts`, `web/.../run-stream-manager.ts`) | subscribers, cursors, queues | subscribe, read live, poll, broadcast, recover a gap | live and stored events cross, a browser joins at any time | a browser that is done has missed nothing |
| Credit holds and billing (`provider/budgeted.ts`, `internal/billing`) | holds, usage, wallets, ledger | hold, report, release, settle, charge, adjust, change the payer | agent, workers and administrators write one wallet | what is reserved is there, balances are their ledger, everything is paid once |
| Gate of the Go API (`internal/api/aiapi/ai_tool_identity.go`) | reads the agent's rows | admit a tool call | reads rows while they move | only running, approved calls of running runs pass |
| Volumes (`internal/volume`, `internal/worker/volume_runner.go`, `deployment_volume_mounts.go`) | volumes, quota, mounts; claims in the cluster | create, update, delete, retry, provision, mount, reconcile | row, quota, claim and mount are written by different actors | the quota holds, what is mounted stays, every operation ends |
| Volume transfers (`internal/volumetransferapi`, `internal/worker/volume_transfer_runner.go`) | transfers, leases, Pods | create, prepare, stream, cancel, expire, clean up | a retried task, a heartbeat, a stream and a sweeper share a row | volume and transfer agree, nothing is left in the cluster |
| Builds (`internal/api/buildapi`, `internal/worker/build_*.go`) | runs, jobs, Kubernetes Jobs | create, cancel, start, follow, reclaim, release | the worker polls what others may end | job and run agree, builds run together under a policy of one at a time only if the earlier one appeared late |
| Releases (`internal/api/deploymentapi`, `internal/worker/deploy_runner.go`) | releases, the workload of a target | create, roll back, cancel, apply, wait, observe | overlapping tasks write one workload | a verdict is earned and final |
| Deletion of targets (`internal/worker/resource_cleanup.go`, `internal/dependency`) | `delete_status`, bindings | request, clean up, recover | edits, bindings and releases go on | the deletion is answered, and no binding leads to what is gone |
| Notifications (`internal/notification`, `internal/worker/notification_*.go`) | events, deliveries, their leases | record, fan out, queue, claim, send, digest, reconcile | a message is sent outside of what stores it; tasks repeat | every delivery ends, with one message unless a result was lost |
| Inbox, mail transport, retention | messages, rows to delete | read, purge | | |
| Platform API, clusters, probes, web, schema | rows, or nothing | mostly request and response | | |

How the parts of the agent meet:

- `POST turns` inserts a queued run. The executor polls, claims the oldest queued
  run (`FOR UPDATE SKIP LOCKED`, status to running) and works on it in a loop:
  ask the model, store a checkpoint, carry out a batch of tool calls, read back
  the writes that were accepted, and so on up to the terminal commit.
- `POST tool-actions` creates a run too and works on its only call inside the
  handler, then either leaves the run to a loop, parks it or ends it.
- An approval, a rejection and an input are handled outside any loop and put the
  run back in the queue. An approval also executes its call.
- `POST cancel` aborts a registered loop, or cancels the row itself.
- `executor.stop` aborts the registered loops and calls. After a crash or a stop,
  the next start lists the runs that are still running and puts each back in the
  queue or interrupts it. This runs beside the server (`bootstrap.ts:178-181`).

All of them write `ai.runs.status`, mostly conditional on the status they expect,
and none of them holds a lock over an `await`.

What a run says reaches the browser on two ways: a stream session publishes live
events to a buffer in memory and stores the ones worth keeping as one batch at the
end of the model step; everything else is stored at once, numbered by the row. The
hub reads both and the browser puts them in order by their numbers. Around each request to
the model the agent holds credits of the user's wallet, which the worker settles.

How the parts of the platform meet:

- An API handler writes rows in a transaction and then queues a task; either may
  fail without the other, and each component has its own way to make up for it: a
  status that undoes the request, or a reconciler that queues again.
- asynq keeps a lock for a unique task until the task ends or the lock expires. A
  task that fails for the last time is archived with its lock; one whose worker
  stopped is handed back.
- The worker reads rows, acts on the cluster, and writes rows under the condition
  that their status still is what it expects. Cancellation, expiry and deletion are other
  writers of the same rows.
- A finished build creates a release of its target; a release settles the mounts of
  the target's volumes; the deletion of a target meets all three.

## 2. Modules

| Module | What it is |
|---|---|
| `RunStore` | One row of `ai.runs`, `ai.run_checkpoints`, `ai.tool_calls`: statuses, phases, and the conditional updates as operators on records. No state. |
| `RunLifecycle` | Abstract specification: the status graph of a run, one version per move, no exit from a terminal status, bounded returns to the queue after restarts. |
| `AgentRun` | The agent: loops, handlers, reconciliation, stop and crash over the three tables. Implements `RunLifecycle` (`RunsFollowLifecycle`). |
| `MCAgentRun` | Operation shapes and symmetry for TLC. |
| `RunStream` | One run as its browsers see it: stream sessions, bus, hub, event route and clients. |
| `CreditLedger`, `MCCreditLedger` | Holds around requests to the model, settlement, charges, adjustments, change of the payer. |
| `VolumeLifecycle` | Abstract specification: the transition table of a volume. |
| `ProjectVolume` | The volumes of a project: service, quota trigger, tasks, reconciler, claims, mounts. Implements `VolumeLifecycle` (`VolumesFollowTable`). |
| `TransferLifecycle` | Abstract specification: the transition table of a transfer; its cleanup marker is set once, after the end. |
| `VolumeTransfer` | One transfer: requests, workers with a lease, sweepers, Pod, claim. Implements `TransferLifecycle` (`TransferFollowsTable`). |
| `BuildLifecycle` | Abstract specification: the first result of a build is its result. |
| `BuildRun` | The builds of a target, from the request to the release they cause. Implements `BuildLifecycle` (`BuildsKeepTheirResult`). |
| `ReleaseLifecycle` | Abstract specification: the first result of a release is its result. |
| `TargetRelease` | The releases of a target over one workload. Implements `ReleaseLifecycle` (`ReleasesKeepTheirResult`). |
| `TargetDeletion` | The deletion of a target, composed with `TargetRelease`: it takes the environment of that module apart and implements it (`ReleasesGoOn`). |
| `NotificationDelivery`, `MCNotificationDelivery` | From a recorded event to the message at a webhook or in a mailbox. |
| `AgentRunProofs`, `RunStreamProofs`, `CreditLedgerProofs`, `ProjectVolumeProofs`, `VolumeTransferProofs`, `BuildRunProofs`, `TargetDeletionProofs`, `NotificationDeliveryProofs` | Inductive invariants and theorems about the module of that name (`TargetDeletionProofs`: and about `TargetRelease`), see [Proofs](#7-proofs). |

The refinement mappings are the identity on the rows (`state <- run` and the like);
what is shown is that no interleaving of writers takes a row where its table does not
go. `TargetDeletion` extends `TargetRelease`: its release
steps are those of that module, and its deletion steps are, seen from there, the two
environment actions `TargetMoves` and `CleanRuntime`.

Definitions that begin with "Mutant of" in their comment are plausible mistakes
in the definition that follows them. Each property of a regular run is checked to fail
when its mutant takes the place of the original.

## 3. From code to model

### The agent (`AgentRun`)

**State.** `run`, `ckpt` and `calls` are what PostgreSQL holds and survive a crash.
`task` holds every loop and every request in flight, each with the variables the
code keeps on its stack (claimed version, checkpoint revision, model step, owed
verifications, blockers, whether a stream session is open, the reason its signal
was aborted with). `controller` is `RunExecutor.controllers`; `mode` and `recon`
are the state of `executor.start` and `stop`. `requeues` and `batches` are history
variables, read by properties only.

**Steps.** An action is what one task does between two awaits: at most one
transaction, and the assignments that follow it. Reads followed by a conditional
update on what was read are one step with it, because the update fails when the
read is stale; a read whose result is used later is a step of its own (the run
read by `AcceptDecision` and `AcceptCancel`, the checkpoint read by `Start`).

| Code | Actions |
|---|---|
| `server.ts` turns | `AcceptTurn` |
| `server.ts` tool-actions | `AcceptToolAction`, `DirectBegin`, `DirectSaveWait`, `DirectWait`, `DirectEnd`, `DirectUndo`, `DirectUndoQueued` |
| `server.ts` approvals | `AcceptDecision`, `ApproveGrant`, `ApproveResolve`, `ApproveRelease`, `RejectResolve`, `RejectQueue` |
| `server.ts` input, cancel | `AcceptInput`, `InputQueue`, `AcceptCancel`, `CancelOwned`, `CancelRow`, `CancelSignal` |
| `orchestrator.ts`, `postgres-store.ts` | `Propose`, `Reuse`, `NeedInput`, `Hold`, `Execute`, `AdvanceConflict`, `Send`, `Receive`, `ReceiveCanceled` |
| `executor/index.ts` | `Claim`, `Register`, `Admit`, `Finish`, `Timeout`, `Boot`, `ListRunning`, `RecoverOne`, `ReconcileDone`, `StopBegin`, `StopEnd` |
| `run-loop.ts`, `checkpoint.ts`, `graph.ts` | `Start`, `Branch`, `Model`, `Decide`, `StreamError`, `AbortSeen`, `Tools`, `BatchEnd`, `BatchComplete`, `Park`, `ParkRun`, `Input`, `InputRun`, `Finalize`, `CheckpointConflict` |
| `tool-step.ts`, `verification.ts` | `Settle`, `Verify`, `CheckVerified`, `CheckPending`, `CheckFailed` |
| `finalize.ts` | `Commit`, `Cancel`, `Interrupt`, `Fail`, `Exhausted` |
| the environment | `Crash` (killed at any point), `Outage` (the statement a task is about to execute fails) |

**What is abstracted.**

- All runs belong to one user, so the quota of one user concerns all of `Runs`.
- An operation is its shape: does it write, does it need an approval. Its
  arguments only matter through the idempotency key: a proposal repeats the key of
  the last write, or has its own.
- The reads that verify a write are folded into `CheckVerified`, `CheckPending` and
  `CheckFailed`; they are not rows of `calls`.
- The answer of a call is `done` (nothing to read back), `verify` (accepted, with
  a plan to read it back) or `blind`: accepted without such a plan, and also a
  command that succeeded with the result "failed". Both leave the same traces.
- The platform's gate and its effect are one step, `Send`. A repetition of an
  idempotent operation over HTTP counts as the same effect; an operation that is
  not idempotent is never repeated by the client.
- `resolveApproval` reads the call and updates it conditionally: one step. So are the two
  conditional updates of `terminalPersistenceExhausted`.
- The run's timer matters where the signal is looked at, so `Timeout` is enabled
  only there. When the signal has already fired, `AbortPc` takes a loop to what the
  catch block does with the reason.
- The loop guard is the bound on the calls of a run, `MaxToolCalls`: a call it stops is a
  batch that ends.
- Calls with invalid arguments are inserted as proposed and failed, like `Hold`.
- Left out: the status of turns (always set with the run's), titles, events, cards,
  telemetry, the text of messages. A controller entry overwritten by a second loop
  of the same run no longer reaches the tool calls of the first one: the model
  aborts by the entry. `ToolOrchestrator.retryFailed` is called nowhere and is left out. So is the
  branch of the approval handler for a call that waits again (`server.ts:370-374`): the
  decision is stored before the call is sent, and the gate asks for approval only
  when there is none.

### Streams (`RunStream`)

`run` and `stored` are the row and `ai.run_events`; `bus` is the buffer of
`InMemoryRunStreamBus`, `loop.session` the memory of `RunStreamSession`, `hub` the shared
reader, and `tab` what a browser has accepted together with its connection. An event is
its number and its kind; `again` tells two events with one number apart.

| Code | Actions |
|---|---|
| `run-loop.ts`, `streaming.ts` | `Claim`, `OpenSession`, `ToolResult` |
| `run-stream-bus.ts` | `Publish`, `CommitStep`, `CommitEnd`, `DropBuffer` |
| `finalize.ts` | `Decide`, `Exhausted`, `NameConversation`, `MarkPostProcess` |
| `postgres.ts` | `Persisted`, `Refusal`, `Verdict`, `Apply` (`persistRunStreamBatch`), `CancelRun`, `Restart`, `Timeline` |
| `run-stream-hub.ts` | `HubReadsLive`, `HubReadsEvents`, `HubBroadcasts`, `HubLosesPatience`, `Broadcast` |
| `server.ts` events | `Connect`, `ReadBuffer`, `Deliver` |
| web client | `Take`, `Reach`, `Shown`, `EndOfStream`, `ReadTimeline`, `Disconnect` |

A subscriber that is too slow and a broken connection are the same step; the byte
limits of the buffer are left out, its limit per read is not. `late` collects the
numbers given below one given before: a run put back in the queue after a restart
continues with the numbers of the row, which may be behind what a browser has seen live,
and `NothingIsMissed` does not speak of those. A batch carries the events of its session; that
the timeline items travel with it is left out.

### Credits (`CreditLedger`)

`hold` and `usage` are `ai.model_credit_holds` and `ai.model_usages`, `wallet` and `debits`
the wallet and its ledger entries. A wallet's row lock is in the state (`lock`), because a
settlement reads the balance and writes it back; what happens before the lock (the list of
usages, the owner of the project) is a step of its own. Records of several meters of one
request are one entry. A lease outlives every request that is still being made, so only holds of
finished requests lapse.

| Code | Actions |
|---|---|
| `budgeted.ts`, `openai-chat-completions.ts` | `Dispatch`, `CallOff`, `Refuse`, `CancelSent`, `LoseAnswer`, `Answer`, `Abandon` |
| `postgres.ts` | `Reserve`, `Record`, `MarkUnavailable`, `Release` |
| `ai_usage.go`, `ai_billing_runner.go` | `ListUsages`, `LockForUsage`, `PostUsage`, `EndUsages` |
| `ledger.go`, `usage.go`, `runtime_billing_runner.go` | `ReadOwner`, `LockForWindow`, `PostWindow`, `Recharge`, `Adjust` |
| `billing_owner_transfer.go` | `OfferOwnership`, `DecideOffer` |

### Volumes (`ProjectVolume`) and transfers (`VolumeTransfer`)

`vol` is the row, `quota` and `usage` what the trigger of
`migrations/000103_baseline.up.sql` keeps, `claim` and `dying` the cluster, `mount` the
mounts and `attached` what the workload of a target refers to. A task is one per
volume and operation, because the payload is its uniqueness key; its record says where
the handler is and what it read. `Save` is the trigger: every write of a row
goes through it. Rows are read and written under `FOR UPDATE` or with a condition on the
state, so a service call is one step; enqueueing is the next one.

| Code | Actions of `ProjectVolume` |
|---|---|
| `volume/service.go` | `CreateProjectVolume`, `UpdateProjectVolume`, `RequestDelete`, `RetryOperation`, `Dispatch`, `DispatchRefused`, `UndoDispatch` |
| `worker/volume_runner.go` | `TakeTask`, `ProvisionClaim`, `ExpandClaim`, `DeleteClaim`, `ObserveClaim`, `SettleReady`, `CompleteDeletion`, `FinishAttempt`, `ClusterUnavailable`, `Reconcile` |
| `volume/mount_service.go` | `ReserveMount`, `BeginUnbind`, `RestoreMount` |
| `deployment_volume_mounts.go` | `PlanVolumes`, `ApplyWorkload`, `ObserveAttachments`, `SettleMount`, `RolloutFails` |
| the environment | `ClaimGone`, `LockExpires`, `WorkerStops`, `RequestLost` |

`VolumeTransfer` follows one transfer. `worker` holds every attempt at the task with the
generation it has claimed and whether its lease was lost; `Sweepers` run cleanup and
expiry. A Transfer Pod is started, ready or failed. Snapshots go with the Pod; digests,
tickets and archive formats are data: a stream that does not check out is one that fails.

| Code | Actions of `VolumeTransfer` |
|---|---|
| `volumetransferapi/service.go`, `volume_transfer_handlers.go` | `CreateTransfer`, `Dispatch`, `DispatchRefused`, `Cancel`, `ClaimStream`, `Progress`, `StreamEnds`, `CompleteStream`, `FailRequest` |
| `volume_transfer_runner.go`, preparation | `TakeTask`, `TakeTaskWithoutCluster`, `ClaimExecution`, `PrepareClaim`, `CreateClaim`, `PreparePod`, `ConfirmJob`, `MarkReady`, `StopWaiting`, `StopHeartbeat` |
| its end | `FailAttempt`, `Refuse`, `CleanPod`, `CleanClaim`, `MarkCleaned`, `CompleteCancelledImport` |
| `volume_runner.go`, sweeps | `TakeCleanup`, `ListExpired`, `ExpireTransfer`, `ExpireVolume`, `ListStale`, `FailStale`, `Reconcile` |
| the environment | `LoseLease`, `LeaseLapses`, `WorkerStops`, `WorkerStalls`, `AttemptCancelled`, `RecoverTask`, `LockExpires`, `SessionExpires`, `StreamStalls`, `PodStarts`, `PodFails` |

### Builds (`BuildRun`), releases (`TargetRelease`), deletion (`TargetDeletion`)

A build or a release is its number, its place in the order of creation. For a build that is the order of
`(created_at, id)`, which is not the order in which builds appear: the API stamps `created_at` before it
commits (`build_run_handlers.go:361-366`), and requests and webhooks run side by side, so `Trigger`
may add a build that is earlier than some that are there. `missed` is a history variable, on which
no step depends: it has `<<b, c>>` when `b` appeared after the later `c` had passed its policy check and
`c` was not something `b` would wait for. In `BuildRun`, a worker goes
from policy check to capacity check, start of the Kubernetes Job, the mark as
running, the loop that follows the Job, and completion; each stage is a step, so that
cancellation, supersession, deletion and the sweep come between any two. Capacity is
counted over the builds of the model. In
`TargetRelease` all releases write one workload; `workload.by` is the release in the pod
template. `TargetDeletion` adds the request that deletes, an edit that has read the target,
an enabled binding to it, and cleanup tasks of the user and of the sweep (the actor is in the
payload, so both may run).

| Code | Actions |
|---|---|
| `buildapi/build_run_handlers.go` | `Trigger`, `Dispatch`, `DispatchAgain`, `DispatchRefused`, `UndoJob`, `UndoRun`, `CancelBuildRun`, `DeleteBuildRun` |
| `build_runner.go`, `build_concurrency.go`, `build_capacity.go` | `TakeTask`, `CancelSuperseded`, `Admit`, `EnsureCapacity`, `StartJob`, `MarkRunning`, `CompleteJob`, `Settle` |
| `build_job_logs.go`, `build_job_result.go` | the `Follow...` actions |
| `build_reconciler.go` | `Reclaim`, `ReleaseExpired`; `Expire` and `Observe` of releases |
| `build_auto_deploy.go` | `CompareBuilds`, `CreateRelease` (of `BuildRun`) |
| `deploymentapi/release_*.go` | `CreateRelease`, `CreateUnqueued`, `UndoRelease`, `CancelRelease` |
| `deploy_runner.go` | `TakeTask`, `Recheck`, `ApplyResources`, `WaitForRollout`, `Succeed`, `StageFails` |
| `deployment_target_*.go`, `delete_cleanup_helpers.go` | `ReadTarget`, `SaveTarget`, `RequestDelete`, `EnqueueCleanup`, `UndoDeletion` |
| `dependency/repository.go` | `BindService`, `UnbindService` |
| `resource_cleanup.go` | `TakeCleanup`, `RemoveRuntime`, `CountReferences`, `CommitDeletion`, `CleanupFails`, `RecoverCleanup` |

### Notifications (`NotificationDelivery`)

`event` is the fan-out status, `row` the deliveries, `line` the mails by `queued_at`. A webhook delivery is
claimed by a condition on status and attempt count, and the count is the lease: its holder sends outside of any
transaction and settles under the condition that the count is still its own. `stale` is a lease
whose time is over. Mails of a user are prepared, sent and settled in one transaction that
holds an advisory lock of the user, so that a mail worker is somewhere in that transaction
(`mail`, `mailed`) and its rows are written when it commits; `started` are the mails whose
`started_at` is within the cooldown, which is positive in the model. `accepted`, `lost` and `mailed` are history variables. Which deliveries rules
and preferences select, which the policy turns down later, and what a receiver answers are
choices; the ages of rows, by which the reconciler selects, are left to chance, except for leases.

| Code | Actions |
|---|---|
| `platformevent/service.go`, `notification/service.go` | `RecordNotification`, `MaterializeEvent`, `Enqueue`, `EnqueueFails`, `ServiceStops` |
| `notification_reconciler.go` | `MaterializeEvent` again, `Reconcile` |
| `notification_runner.go`, webhooks | `TakeHook`, `Check`, `Send`, `Record`, `LeaseExpires` |
| `notification_runner.go`, mails | `TakeMail` (`Drop`, `PrepareDigest`), `SendMail`, `CommitMail`, `CooldownEnds` |
| the environment | `HookStops`, `MailStops` |

## 4. Runs

| Run | Instance | Question |
|---|---|---|
| `approval` | 1 run, 1 loop, 2 requests, a gated write, 2 restarts, 1 failing statement | May two decisions, a tool action, a cancel and a loop send a call twice, without consent, or rewrite what was reported? Does the loop report what is stored, and is every write to a run a move of `RunLifecycle`, recoveries among them? |
| `resume` | 2 calls of any kind, 2 model steps, rejections, input, 2 restarts, 1 failing statement | Is the budget of steps kept over resumptions? Does a run that was cut off anywhere still read back every accepted write? |
| `live` | 1 run, 1 loop, 1 request, 1 restart, fairness | Does every run come to rest? |
| `stream` | 1 browser, 2 model steps, 1 mishap, reads of one event | Are numbers unique among stored events, is an answer stored once, does a browser that is done know every event? |
| `credits` | 2 users, 2 requests, 1 window, 2 settlement tasks, 1 move of an administrator, 1 stop | Is what holds may cost in the wallet, is a balance its ledger, is everything paid once, is reported usage ever turned away? |
| `volume` | 1 volume, 1 target, 1 release, capacities to 3 with limit 2, 1 retry, 3 requests, 1 fault, fairness | Does the quota hold, does what is mounted stay, do rows follow their table, are mounts removed only when detached, does every operation end? |
| `transfer` | 1 transfer, 2 workers, 1 sweeper, 1 client, 1 retry, 2 generations, 1 fault, fairness | Do transfer and volume agree, does the row follow its table, does every transfer end and get cleaned up? |
| `builds` | 2 builds, all policies, limit 2, 1 fault, fairness | Do run and job agree, which builds may run together where the policy says one at a time, what is left behind, is what is released built, does every build end? |
| `releases` | 2 releases, 2 faults, fairness | Are verdicts earned and kept, does every release end? |
| `deletion` | 1 release, 1 mishap, fairness | No binding to what is gone, leftovers only of releases that raced, a deletion is answered, and the releases are those of `TargetRelease` |
| `notifications` | 1 webhook with 2 faults, or 2 mails in digests of 1 or of 2 with 1 fault; 2 workers, 2 attempts of a mail, fairness | Does a receiver get one message unless a result could not be stored, is there one digest per cooldown, does every delivery end? |
| `doc_forgotten` | 1 release, 1 mishap | See the next section. |

**Bounds of the agent.** All agent runs have one process, as the chart deploys one
(`charts/luna-devops/templates/ai-agent.yaml:29-30`, `Recreate`, one replica), so a
restart never overlaps the old process.
`MaxRestarts` and `MaxOutages` bound the failures. `MaxVersion` stops
decisions and repeated tool actions on a run whose row has moved that often; without it
approvals that bounce could go on for ever. `MaxRevision` bounds the waiting of a
verification. They are guards of the environment's choices only, and never stop a
handler or a loop half-way. Two calls are the fewest with which one call may be left
open while another moves on; two batches the fewest with which a budget
can be exceeded by a resumption; with one recovery allowed, two restarts reach the
limit; in `resume`, which allows two recoveries, the second restart meets the checkpoint of a loop that was
itself resumed, and with one restart alone `doc_open_batch` would not be found. Two requests and one loop are the fewest actors that meet on a call with
one of them stale. `AcceptToolAction` repeats an idempotency key, so that the second
request works on a run that exists.

**Bounds of the other modules.** Every bound stops a choice of the environment: the creation
of one more build, release or request, one more fault, one more administrator's move; never a step
of a handler or a task. `MaxNumber` of `RunStream` stops live events only. One mishap or fault per behaviour
is enough for each compensation to run at every place, and the fault models have two where
a run is small enough (`releases`). Two builds and two releases are the fewest that
overtake one another; two settlement tasks the fewest that overlap; one volume with three
requests meets creation, growth and deletion or a retry. A limit of 2 with capacities up
to 3 makes the quota refuse both creations and growth. `ReadLimit = 1` makes every read of the
buffer partial. With `MaxRetry = 1` a task is retried and archived; `MaxGen = 2` is one execution
that takes over from another. Webhooks and mails of `NotificationDelivery` share nothing but the queue,
so they are checked one at a time: two faults are a lease that is lost and a send that goes wrong, two
mails either fit a digest or leave one behind for the next.

**Deadlock** is not checked: with bounded counters and terminal rows there are
states in which nothing is left to do. That nothing gets stuck half-way is what the
liveness properties say.

**Symmetry** of runs, loops and requests is used in the safety runs of the agent, and of requests
and workers in `credits`; never in a run with a liveness property.

`CompletedMeansSettled` and `BatchBudget` are checked with restarts but no approvals (`resume`), and with
approvals but no restarts (`steps.cfg`): in combination both fail, as a consequence
of `doc_rival` below (`doc_budget.cfg` refutes `BatchBudget`, and `CompletedMeansSettled` if put in its place). `CompletedMeansSettled` does not speak of calls that wait for
the user: `doc_open_batch` below says why. A call that was proposed when the process went down stays proposed on
a completed run; it was not sent.

Further configurations are kept beside the regular runs: `steps.cfg`
(module `MCAgentRun`: two calls and two model steps with approvals, rejections, input and cancels, without
restarts; besides `BatchBudget` and `CompletedMeansSettled`, `ApprovalHasCall` holds: a waiting run has a
call to approve, which restarts break, see `doc_reject`; and `CompletedHasNoOpenCall`, which they break as
well, see `doc_open_batch`), `quota.cfg` (module `MCAgentRun`: two runs and two
loops under a quota of one, with approvals, rejections, cancels and a restart; `UserQuotaHolds`, which
section 7 proves, holds: two loops that claim and count at the same time never both carry on), and the
`doc_*.cfg` of the next section.
The type invariants of the modules other than `AgentRun` are not part of a regular run; each
holds under the configuration of its module.

## 5. Where the code and its documents disagree

`doc_forgotten` is a regular run. The other configurations are run by hand, e.g.
`tlc -config doc_rival.cfg MCAgentRun`; each refutes its property, which states what a
sentence of the repository says.

| Configuration | Module | Property | What happens |
|---|---|---|---|
| `doc_forgotten` | `TargetDeletion` | `DeletionEndsAsSuch` | An edit checks that the target is not being deleted, then saves the whole row (`deployment_target_hooks.go:70`). A deletion requested in between is forgotten while its cleanup goes on (`docs/docs/en/use/workflow/deployment.md:45`). |
| `doc_rival` | `MCAgentRun` | `ApprovalHasNoRival` | An approval sets the run running and executes the call in the handler. After a restart the reconciliation runs beside the server, lists the run as an orphan, requeues it, and a loop works on it at the same time (`server.ts:360-361` says there can be no second executor). |
| `doc_budget` | `MCAgentRun` | `BatchBudget` | Start-up requeues a run an approval is at work on, and a loop takes it; the approval then puts the run of that loop back in the queue, and a second loop takes it. The checkpoint of one makes the save of the other a repetition that is not written (`postgres.ts:813`), and the run begins more batches than it has steps (`docs-internal/14:76` ends it with `ai.limit_exceeded`). |
| `doc_late_undo` | `MCAgentRun` | `OnlyOwnerFailsRun` | A tool action whose first update lost against a claim goes to its catch block, which fails whatever run is running, the one of the loop (`docs-internal/11:63-64`). |
| `doc_outcome` | `MCAgentRun` | `EveryOutcomeIsStored` | A canceled loop takes the row `cancelRun` returns for its own commit and reports canceled, whatever is stored (`docs-internal/14:375`). |
| `doc_open_call` | `MCAgentRun` | `CompletedHasNoOpenCall` | A restart between the checkpoint and the status of a parked tool action: the recovered run takes the direct branch, which completes it with its call still waiting (`docs-internal/13:90`). |
| `doc_open_batch` | `MCAgentRun` | `CompletedHasNoOpenCall` | The same of a model run. A batch has an accepted write and a call that was put up for approval when the process goes down; the loop that resumes finds both, and saves the checkpoint of the write's verification, which names no pending call (`run-loop.ts:94`, `checkpoint.ts:35-37`). After a second restart only the verification goes on: the run completes and the user's call is left waiting (`docs-internal/13:90`). |
| `doc_cancel` | `MCAgentRun` | `CancelIsFinal` | A cancel that reaches a loop past its last look at the signal is lost: the run is parked (`docs-internal/11:60`). |
| `doc_reject` | `MCAgentRun` | `RejectedRunGoesOn` | The rejection and the return to the queue are two writes. After a crash between them the run waits for an approval nobody can give any more (`docs-internal/11:59`). |
| `doc_allocator` | `RunStream` | `OneAllocator` | A cancel appends its event with a number of the row while a session is open whose live events have used that number (`postgres.ts:657`, against the comment at `postgres.ts:333-334` and `docs-internal/11:42-44`). |
| `doc_free_call` | `MCCreditLedger` | `ServedIsAccounted` | A request that is cancelled after it was sent counts as not dispatched, and its hold is released although the provider has worked on it (`openai-chat-completions.ts:521`, `docs-internal/11:140-142`). |
| `doc_deletion` | `ProjectVolume` | `DeletedHasNoClaim` | A provisioning that is under way when its volume is deleted creates the claim after the deletion has looked for it (`worker/volume_runner.go`, `docs/docs/en/use/workflow/runtime-data-persistence.md:39`). |
| `doc_transfer` | `VolumeTransfer` | `SucceededImportKeepsClaim` | An attempt that fails at its end cleans up the claim of an import that another attempt carried on to success (`volume_transfer_runner.go:119-125`, `323-336`, `runtime-data-persistence.md:27`). |
| `doc_turns` | `BuildRun` | `OneBuildAtATime` | A build is let in and not marked running yet when a build with an earlier `created_at` is committed. The earlier one finds nothing in front of it and nothing running (`build_concurrency.go:25-36`, `build_runner.go:129`), and both run; under `cancel_in_progress` it finds nothing to cancel (`docs/docs/en/use/workflow/build-and-release.md:55-56`: "Builds for the deploy config run one at a time in the order they were triggered."). |
| `doc_rollback` | `BuildRun` | `NoReleaseGoesBack` | Two builds finish together; both compare before either has created its release, and the older one may release last (`build_auto_deploy.go:49-52`, `docs/docs/en/use/workflow/build-and-release.md:61`). |

Two more differences have no configuration: `docs-internal/11:41` and `docs-internal/14:24` say that a restart
interrupts the runs it finds running. The code requeues those with a checkpoint,
which `docs-internal/13:92` describes. And the owner a window is charged to is read before the
wallet is locked, so a change of the payer may take effect one charge late
(`ledger.go:128`, `docs/docs/en/use/billing.md:5`).

## 6. Fairness

**The agent.** `FairSpec` of `AgentRun` is used by `live`. Its assumptions, and where they come from:

- a request or a loop that can take its next step takes it (`RequestStep`, `LoopStep`): the event
  loop runs every resolved promise, and every statement is answered;
- a call in flight is answered (`CallStep`): requests to the platform have a time
  limit, and a batch is finite;
- a run has a timer (`Timeout`, `agentRuntimeInternals` and `executor/index.ts`), which ends a model that does not
  answer. What the model decides, and that it decides (`LoopAnswer`), is not assumed;
- free slots claim (`tick` is repeated), for each loop;
- start-up goes on, and a process that is down is started (`Process`): the deployment
  restarts the container.

No user is assumed to act, so a run may rest in `waiting_approval` or
`waiting_input`. No statement fails in `live`: a run whose terminal commit and whose
interruption both fail remains running until the next restart
(`finalize.ts:210`), and no fairness helps.

**The worker.** `FairSpec` of `ProjectVolume`, `VolumeTransfer`, `BuildRun`, `TargetRelease`,
`TargetDeletion` and `NotificationDelivery` assume weak fairness of what the platform repeats without being asked:

- asynq hands every queued task to a worker, hands back the task of a worker that
  stopped, and drops a uniqueness lock after its time (`internal/tasks/client.go`);
- the scheduler queues reconciliation, cleanup and expiry over and over
  (`worker/scheduler.go:18-50`; the sweeps of builds and releases every thirty seconds);
- a request that is not lost goes on to its enqueue, a task to its next stage;
- Kubernetes finalizes a claim it was asked to delete; deadlines pass.

Nothing is assumed of users, and not that a call to the cluster succeeds: faults are steps
without fairness, bounded in number. `TargetRelease` assumes fairness of `Expire` alone:
a release ends even if no task of it is ever worked on. `BuildRun` assumes that requests go on and
that the sweep comes round, and nothing of the workers. In `VolumeTransfer` a stream stalls in the
end if no client streams. In `NotificationDelivery`, a task waits for the lock of its user, which
PostgreSQL grants in the order of requests: hence strong fairness of `TakeMail`; the reconciler
is queued every minute and the cooldown passes. `RunStream` and `CreditLedger` have no liveness property: whether a
browser connects again and whether a user recharges is up to them.

## 7. Proofs

`AgentRunProofs` proves, for every finite or infinite number of runs, loops, requests, calls,
restarts and outages, and every value of the limits:

| Theorem | States |
|---|---|
| `Invariance` | `Spec => []Inv`, the inductive invariant |
| `TypeCorrect` | `Spec => []TypeOK` |
| `OneEffect` | `Spec => []EffectAtMostOnce` |
| `Consent` | `Spec => []EffectsHaveConsent` |
| `Recoveries` | `Spec => []RecoveriesBounded` |
| `OutcomeStored` | `Spec => []OutcomeIsStored` |
| `SettleOnce` | `Spec => CallsSettleOnce` |
| `FollowLifecycle` | `Spec => RunsFollowLifecycle`, the refinement |
| `QuotaKept` | `Spec => []UserQuotaHolds` |
| `BudgetKept` | `Spec => []BatchBudget`, assuming `NoRivals` |
| `Settled` | `Spec => []CompletedMeansSettled`, assuming `NoRivals` |

The assumptions are the three of `AgentRun`, and `NoRivals` for the last two: loops and requests are different
tasks, the model values are outside the sets they stand beside, the kinds and the call
shapes are of their types, and the limits are natural numbers.

**The argument.** None of the properties is inductive. `EffectAtMostOnce`
fails from a state in which two tasks are about to send the same call, or in
which one is about to send a call that already had its effect. `Inv` rules these
out:

- `FlightOK`: at most one task has a request under way for a call; the call is
  running, or was settled behind its back; and before the request is sent, or when
  the platform's gate turned it away, it has had no effect (`UnderWay`);
- `CallsOK`: a call that was not sent, or was rejected, has had no effect; a gated one
  that has, was approved; none has two; only one that succeeded has a result;
- `ReportsOK`: a loop that is about to report completed, failed or interrupted stands by the row; it stays
  so because a terminal row never moves;
- `RecoveriesOK`: what start-up counted in the checkpoint is what it did, and every
  later checkpoint keeps the count;
- `TasksOK`, `RunsExist`, `RowsOK`: what a task at a given step holds, that its run exists,
  and that an absent row is empty.

`Good` says that a step preserves `Inv`, moves the rows as `RunLifecycle` allows and keeps
settled calls. There is one lemma per action, or per group of actions of one
handler, that each step is good. They describe a step variable by variable
(`TasksStep`, `Quiet`, `RunStep`, `CkptStep`, `CallsStep`, `RestStep`) and
`Compose` puts the parts together, so that an action is proved by what it does and
not by what it leaves alone. `OneCall` and `UnsentCall` are about the calls;
`AdvanceTo`, `SendGood` and `ReceiveGood` are where a request is sent and answered.

The last three theorems need to know who works on a run, which `Inv` does not say. `Kept` describes a step once
more, on top of `Good`. For the quota, `VersionsOK` says that no task has claimed a version of a run that is
yet to come; so a loop whose fence is open has kept its run to itself since it was counted
(`AdmittedStep`), and the check itself counts every run that is carried on, because
those are active (`AdmittedActive`). For the budget, `Steady` says that a model run
has one worker at a time, a loop or the approval that set it running (`OneWorker`), that start-up requeues only what
nobody works on (`StartupOK`), and that a loop goes on from the stored checkpoint with the
stored step (`LoopsOK`), so that every batch begun is in the checkpoint (`BudgetsOK`).
`NoRivals` is the hypothesis that there are no approvals or no restarts. It is where the code stops
keeping one worker, not a convenience: `doc_rival` and `doc_budget` are the counterexamples.

For `Settled`, `Settling` says where the writes that still have to be read back are known. A checkpoint either leads the
next loop to the stored calls first (`Recounts`), or names every such write and leaves no call under way
(`CheckpointKnows`); a loop knows them from its `pendingVerifications`, or, with a request under way, all
but that one (`LoopKnows`); and calls are only made, batches cut short and approvals given under a
checkpoint that recounts. The proof tells apart what a step may take from that knowledge
(`TaskKeeps`, `RowKeeps`, `CheckpointKeeps`, `CallsKeep`), which most steps do not, so that `AllKeep` and `OneRun`
settle them, from the steps of a loop, which `LoopSettles` is about. Its first form said that no call waits for
an approval either. That was not inductive: a checkpoint of phase `verification` names the writes but not
the call; `doc_open_batch` is the behaviour the attempt led to, and the theorem leaves that part out.

`ProjectVolumeProofs` proves, for any number of volumes, requests, targets, releases, retries
and faults, and every limit:

| Theorem | States |
|---|---|
| `Invariance` | `Spec => []Inv`, the inductive invariant |
| `TypeCorrect` | `Spec => []TypeOK` |
| `QuotaKept` | `Spec => []QuotaHolds` |
| `MountsStand` | `Spec => []MountedStays` |
| `TableFollowed` | `Spec => VolumesFollowTable`, the refinement of `VolumeLifecycle` |
| `DetachedFirst` | `Spec /\ []TakeTurns => ReleasedIsDetached` |

`MountedStays` is not inductive, because an update replaces the pending operation, a retry starts
it again, and a binding looks at the state alone. `DeleteStates` says where a volume that
waits for a deletion can be, `MountsOK` what a mount means for its row, `RequestsOK` and
`TasksOK` what a request before its enqueue and a worker still know of the row they have
read. `DetachedFirst` has a hypothesis: the releases of one target take turns. The code does not
enforce it. Where two of them overlap, one may attach a volume again between the observation
and the verdict of the other; the run has one release. Releases of different targets may overlap.

`VolumeTransferProofs` proves, for any number of workers, sweepers and requests, retries,
executions and faults:

| Theorem | States |
|---|---|
| `Invariance` | `Spec => []Inv`, the inductive invariant |
| `TypeCorrect` | `Spec => []TypeOK` |
| `VolumeFollows` | `Spec => []VolumeAgrees` |
| `TableFollowed` | `Spec => TransferFollowsTable`, the refinement of `TransferLifecycle` |

A transfer expires in one transaction and its volume is given up in a later one, by a
sweeper that does not look again: `LateIsExpired` says that it need not. `CleanWhenOver` keeps the
volume of a live transfer from being deleted.

`BuildRunProofs` proves, for any number of builds and faults, any set of policies and
every limit:

| Theorem | States |
|---|---|
| `Invariance` | `Spec => []Inv`, the inductive invariant |
| `TypeCorrect` | `Spec => []TypeOK` |
| `RowsStayTogether` | `Spec => []RowsAgree` |
| `OnlyMissedBuildsOverlap` | `Spec => []OnlyMissedOverlap` |
| `NothingIsLeft` | `Spec => []NothingLeftBehind` |
| `OnlyBuildsAreReleased` | `Spec => []ReleasesWereBuilt` |
| `ResultsAreKept` | `Spec => BuildsKeepTheirResult`, the refinement of `BuildLifecycle` |

The worker polls and acts on what it read some steps ago. `Agree` says what the row of a
run tells of its job, `Born` that nobody works on a build that is not there yet, `Turns` what the place of
a worker excludes for earlier builds: those before a build that was let in have ended, have missed it, or
will wait for it (`Waits`), `Attended` who still sees to a Kubernetes Job or a charge,
and `Earned` what the place of a worker promises of its own build. That builds strictly take turns (`OneBuildAtATime`)
is not so: `doc_turns` shows how. `OnlyMissedOverlap` says that this is the only way.

`TargetDeletionProofs` proves, for any number of releases, faults and mishaps, of the releases
by themselves:

| Theorem | States |
|---|---|
| `VerdictInvariance` | `Spec => []VerdictInv`, their inductive invariant |
| `ReleasesTypeCorrect` | `Spec => []TypeOK` |
| `VerdictsEarned` | `Spec => []VerdictsAreEarned` |
| `ResultsKept` | `Spec => ReleasesKeepTheirResult`, the refinement of `ReleaseLifecycle` |

and of the deletion:

| Theorem | States |
|---|---|
| `Invariance` | `DeletionSpec => []Inv`, the inductive invariant |
| `TypeCorrect` | `DeletionSpec => []DeletionTypeOK` |
| `RelationsGone` | `DeletionSpec => []NoRelationToWhatGoes` |
| `OnlyRacersLeft` | `DeletionSpec => []LeftoversWereRacing` |
| `DeletionIsEnvironment` | `DeletionSpec => ReleasesGoOn`: `TargetDeletion` implements `TargetRelease` |
| `VerdictsSurviveDeletion` | `DeletionSpec => []VerdictsAreEarned` |
| `ResultsSurviveDeletion` | `DeletionSpec => ReleasesKeepTheirResult` |

`VerdictsAreEarned` is not inductive: a worker that is about to mark its release as succeeded may do so from a
state in which it has applied nothing. `WorkersOK` says what a worker's place means for its
release (it is past the apply, so the release was applied), and with it every writer of a verdict,
worker or sweep, has earned it.

A cleaner writes "deleted", and a worker the workload, without another look at the target.
`CleanersOK` and `RacersKnown` say what is known of the target while they are under way, and `Swept`
what is left in the cluster once a cleaner has removed the runtime. By `DeletionIsEnvironment`
every behaviour of the deletion is one of the releases, so the last two theorems follow from those about
releases: that is what the refinement is good for.

`NotificationDeliveryProofs` proves, for any finite set of events, any number of workers, attempts and
faults, and digests of any size:

| Theorem | States |
|---|---|
| `Invariance` | `Spec => []Inv`, the inductive invariant |
| `TypeCorrect` | `Spec => []TypeOK` |
| `OneMessage` | `Spec => []OneMessageUnlessLost` |
| `Spaced` | `Spec => []MailsAreSpaced` |

The lease of a webhook delivery is nothing but a number, and a worker whose lease is over goes on. `Accounted` says
where every message that was accepted is: its result is stored, or a worker has the answer and
can still store it (`InHand`), or it counts as lost. That only one of them can is `AttemptsOK`:
an attempt is counted before it is made, and no two workers hold the same number. For the
mails, `LockOK` says what holds from the choice of a digest to the end of its transaction: one worker is in it,
no mail is within the cooldown, and the rows it is about to write still wait, because whoever else
would write them waits for the transaction. `LineOK` says that the line holds just the
mails that were selected, each once, so that every digest has a first mail; `RemoveFirst`,
`SetToSeq` and `Append` are reasoned about by lemmas of their own.

`RunStreamProofs` proves, for any number of browser tabs, model steps, events, commit attempts
and mishaps, and every limit of a read:

| Theorem | States |
|---|---|
| `Invariance` | `Spec => []Inv`, the inductive invariant |
| `TypeCorrect` | `Spec => []TypeOK` |
| `NumbersUsedOnce` | `Spec => []NumbersAreUnique` |
| `AnswersStored` | `Spec => []AnswersAreStored` |
| `NothingMissed` | `Spec => []NothingIsMissed` |

`NothingIsMissed` looks at a tab that is done, while an event may lie in the session, the
buffer, the hub, or a queue. `Inv` follows the events on their way. `OneEvent`: two events anywhere
share a number only if it was given late. `Known`: up to the number it has reached, a tab knows
everything stored, and everything a session has kept and will store. `Reached`: a tab that takes the run for over
has reached its end. `Titles`: a title that a tab has not reached is with its connection, or above
the hub's cursor, so that the next poll finds it. `KeptOK`, `EndingOK`
and `Closing` are about the two allocators, the retries of the last commit, and the order of
what a run stores at its end. Each action is proved by what it does to the tables (`Core`) and to the tabs
(`View`), with lemmas for a new event, a batch that is stored and a tab that takes a batch
(`TakeGood`). Numbers are compared through `Max` and `Highest`, whose existence for finite sets
is proved at the beginning.

`CreditLedgerProofs` proves, for any number of users and tasks, any finite sets of requests
and windows, all prices, moves of administrators and faults:

| Theorem | States |
|---|---|
| `Invariance` | `Spec => []Inv`, the inductive invariant |
| `TypeCorrect` | `Spec => []TypeOK` |
| `HoldsStayCovered` | `Spec => []HoldsAreCovered` |
| `LedgerAddsUp` | `Spec => []BalanceIsLedger` |
| `ChargedOnce` | `Spec => []PaidOnce` |
| `UsageStaysCovered` | `Spec => []UsageIsCovered` |

A settlement adds up the holds of a user and writes a whole balance one step later, while
requests go on changing those holds without the lock. `TasksOK` says what its sum is still good for: it covers what the
other holds may cost at most, because only a new hold makes that grow, and a new hold needs the
lock; and the balance it has read is the one in the row. `CallsOK` ties a usage to the state of
its hold.

**Assumptions.** Each proof rests on the `ASSUME` of its module only: the bounds are natural
numbers, model values are outside the sets they stand beside, different kinds of tasks are
different. `CreditAssumption` also makes requests and windows finite sets, because their costs are
added up. But for `NoRivals`, no theorem assumes anything of a bound that a run fixes.

**Induction.** The library's induction rules take an operator as a parameter, which no
installed prover can instantiate. Sums over finite sets (`CreditLedger`) and the largest number of a
set (`RunStream`) are recursive or need an induction all the same: their lemmas are proved by a minimal
counterexample, a set that is a constant of the proof and can be used with
`WellFoundedInduction` and `FiniteSetTheorems`.

**Only model-checked**: of the agent `ApprovalHasCall`, for which no inductive invariant has been written
(it holds without restarts, and belongs to no regular run); and every liveness property, because fairness and
ENABLED are out of reach of the prover. `CompletedMeansSettled` and `BatchBudget` where approvals meet restarts
are refuted, and `CompletedHasNoOpenCall` is true without restarts, by `steps.cfg`, and refuted with them.

## 8. Not modelled

`PROJECT.json` lists every component with its status. In short:

- of the agent: the loop guard's counters, the catalog, retrieval and cards, the text of
  prompts, turns and titles, conversations and summaries, `retryFailed` (no caller). What the model answers is a
  nondeterministic choice;
- of volumes: referenced volumes, statistics, browsing of files; of transfers: archives, digests,
  tickets;
- of builds and releases: source checkout, images, manifests, hooks, templates; of deletion: the
  same cleanup of applications, projects, routes and certificates, which repeats the pattern of `TargetDeletion`;
- of billing: rates, meters and aggregation of samples;
- of notifications: rules, policies, templates, adapters and test sends; a cooldown of zero;
- inbox and mail transport, retention, identity and authorization, clusters, probes, runtime
  access, the web pages: single rows, input and output, or layout.

Where a module leaves something out that lies next to what it models, its first comment says so.

## 9. Plan

Proofs left: of the agent `ApprovalHasCall`, where `Settling` is the beginning (a checkpoint with a pending
call names one that waits). After that, if the system grows there:

1. `ToolCalls`: a call over HTTP in detail (`orchestrator.ts`, `luna-api-client.ts`,
   the idempotency records of the Go API), with repetitions and lost answers, and the
   loop guard's counters; it implements the one-step `Send` of `AgentRun`.
2. `TurnAccept`: `createTurn` with its idempotency key, and `input`, which appends before its
   conditional update.
