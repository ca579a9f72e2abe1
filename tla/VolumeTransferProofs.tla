------------------------- MODULE VolumeTransferProofs -------------------------
(***************************************************************************)
(* What TLAPS proves of VolumeTransfer for any number of workers, sweepers *)
(* and requests, any number of retries, executions and faults: its types,  *)
(* that the volume of an import agrees with its transfer, and that the     *)
(* transfer follows TransferLifecycle.                                     *)
(*                                                                         *)
(* VolumeAgrees is not inductive: a transfer expires in one transaction    *)
(* and its volume is given up in a later one, by a sweeper that does not   *)
(* look again (LateIsExpired), and a marker set too early would let the    *)
(* volume of a live transfer be deleted (CleanWhenOver).                   *)
(***************************************************************************)
EXTENDS VolumeTransfer, TLAPS

Everyone == Workers \cup Sweepers

Row == [state : Lifecycle!States, gen : 0..MaxGen, job : BOOLEAN, clean : BOOLEAN,
        lease : {"none", "held", "lapsed"}]

Attempt == [at : Places, gen : 0..MaxGen, lost : BOOLEAN, last : BOOLEAN,
            seen : Lifecycle!States, marked : BOOLEAN, then : {"done", "again", "archive"}]

TaskRow == [at : {"none", "queued", "running", "archived"}, tries : 0..MaxRetry,
            owner : Workers \cup {Nobody}]

\* The marker is set only on a transfer that is over.
CleanWhenOver == tr.clean => Over

\* Who is about to give up the volume of an expired import has seen it expired, and it is.
LateIsExpired == \A w \in Everyone : worker[w].at = "late" => tr.state = "expired"

RowOK ==
  /\ direction \in {"import", "export"} /\ tr \in Row
  /\ vol \in {"provisioning", "ready", "error", "deleted"}
  /\ VolumeAgrees /\ CleanWhenOver

WorkersOK == worker \in [Everyone -> Attempt] /\ LateIsExpired

RestOK ==
  /\ claim \in BOOLEAN
  /\ pod \in {"none", "starting", "ready", "failed"}
  /\ time \in [expired : BOOLEAN, stale : BOOLEAN]
  /\ client \in [Clients -> {"idle", "create", "cancel", "undo", "stream", "complete", "fail"}]
  /\ cleanup \in BOOLEAN
  /\ faults \in 0..MaxFaults

Inv == RowOK /\ WorkersOK /\ RestOK /\ task \in TaskRow

\* What a step is to those who watch the transfer: a step of its lifecycle, or nothing.
Moves == [Lifecycle!Next]_(Lifecycle!vars)

\* What a step may do to the row.
RowStep == RowOK' /\ Moves /\ (tr.state = "expired" => tr'.state = "expired")

-----------------------------------------------------------------------------
(* The row.                                                                *)

LEMMA RowKept == ASSUME Inv, UNCHANGED row PROVE RowStep
BY DEF Inv, RowStep, RowOK, row, VolumeAgrees, Import, CleanWhenOver, Over, Moves, Lifecycle!vars

LEMMA EnterGives ==
  ASSUME Inv, NEW to \in Lifecycle!States, Enter(to)
  PROVE  tr' \in Row /\ tr'.state = to /\ tr'.clean = tr.clean
BY DEF Inv, RowOK, Enter, Row

\* A transfer that is not over leaves its state, and its volume follows.
LEMMA Advances ==
  ASSUME Inv, NEW to \in Lifecycle!States \ {"none"}, UNCHANGED direction,
         tr' \in Row, tr'.state = to, tr'.clean = tr.clean,
         tr.state \in Lifecycle!Active, Lifecycle!CanTransition(tr.state, to),
         vol' \in {"provisioning", "ready", "error", "deleted"},
         Import => vol' = IF to = "succeeded" THEN "ready"
                          ELSE IF to = "failed" THEN "error" ELSE vol
  PROVE  RowStep
<1>2. ~Over /\ tr.clean = FALSE
  BY DEF Inv, RowOK, CleanWhenOver, Over, Row, Lifecycle!Active, Lifecycle!Terminal, Lifecycle!Failures
<1>3. Import => vol = "provisioning"
  BY DEF Inv, RowOK, VolumeAgrees, Lifecycle!Active
<1>4. VolumeAgrees'
  BY <1>3 DEF VolumeAgrees, Import
<1>5. Moves
  BY DEF Moves, Lifecycle!Next, Lifecycle!Advance
<1>6. CleanWhenOver'
  BY <1>2 DEF CleanWhenOver
<1> QED BY <1>4, <1>5, <1>6 DEF RowStep, RowOK, Inv, Lifecycle!Active

\* What changes in the row is not its state or its marker.
LEMMA Notes ==
  ASSUME Inv, tr' \in Row, tr'.state = tr.state, tr'.clean = tr.clean, UNCHANGED <<direction, vol>>
  PROVE  RowStep
BY DEF Inv, RowStep, RowOK, VolumeAgrees, Import, CleanWhenOver, Over, Moves, Lifecycle!vars

LEMMA FailExecutionRow ==
  ASSUME Inv, FailExecution, UNCHANGED direction
  PROVE  RowStep
<1>1. CASE UNCHANGED <<tr, vol>>
  BY <1>1, RowKept DEF row
<1>2. CASE /\ tr.state \in Lifecycle!Active /\ Enter("failed")
           /\ vol' = IF Import THEN "error" ELSE vol
  <2>1. "failed" \in Lifecycle!States \ {"none"} /\ Lifecycle!CanTransition(tr.state, "failed")
    BY <1>2 DEF Lifecycle!States, Lifecycle!Active, Lifecycle!Terminal, Lifecycle!Failures,
                Lifecycle!CanTransition
  <2> QED BY <1>2, <2>1, EnterGives, Advances DEF Inv, RowOK
<1> QED BY <1>1, <1>2 DEF FailExecution

\* The table, as far as the steps use it.
LEMMA Table ==
  /\ {"ready", "streaming", "succeeded", "failed", "cancelled", "expired", "preparing"}
       \subseteq Lifecycle!States \ {"none"}
  /\ Lifecycle!CanTransition("preparing", "ready")
  /\ Lifecycle!CanTransition("ready", "streaming")
  /\ Lifecycle!CanTransition("streaming", "succeeded")
  /\ \A from \in Lifecycle!Active :
       Lifecycle!CanTransition(from, "failed") /\ Lifecycle!CanTransition(from, "cancelled")
  /\ Lifecycle!CanTransition("preparing", "expired") /\ Lifecycle!CanTransition("ready", "expired")
BY DEF Lifecycle!States, Lifecycle!Active, Lifecycle!Terminal, Lifecycle!Failures,
       Lifecycle!CanTransition

-----------------------------------------------------------------------------
(* Workers and the task.                                                   *)

\* One worker goes on, and not to where the volume of an expired import is given up.
Settles(w) == \E x \in Attempt : worker' = [worker EXCEPT ![w] = x] /\ x.at # "late"

LEMMA SettlesOK ==
  ASSUME Inv, RowStep, NEW w \in Everyone, Settles(w)
  PROVE  WorkersOK'
BY DEF Inv, RowStep, WorkersOK, LateIsExpired, Settles

LEMMA WorkersKept ==
  ASSUME Inv, RowStep, UNCHANGED worker
  PROVE  WorkersOK'
BY DEF Inv, RowStep, WorkersOK, LateIsExpired

LEMMA RestingAttempt == Resting \in Attempt /\ Resting.at = "idle"
<1>1. 0 \in 0..MaxGen
  BY TransferAssumption
<1>2. "idle" \in Places /\ "none" \in Lifecycle!States
  BY DEF Places, Lifecycle!States
<1> QED BY <1>1, <1>2 DEF Resting, Attempt

LEMMA MoveSettles ==
  ASSUME Inv, NEW w \in Everyone, NEW place \in Places \ {"late"}, Move(w, place)
  PROVE  Settles(w)
<1> DEFINE x == [worker[w] EXCEPT !.at = place]
<1>1. worker[w] \in Attempt
  BY DEF Inv, WorkersOK
<1>2. x \in Attempt /\ x.at = place
  BY <1>1 DEF Attempt
<1>3. worker' = [worker EXCEPT ![w] = x]
  BY DEF Move
<1> HIDE DEF x
<1> QED BY <1>2, <1>3 DEF Settles

Verdicts == {"done", "again", "archive"}

LEMMA AgainTask == ASSUME Inv PROVE Again \in TaskRow /\ NoTask \in TaskRow
<1>1. task.tries \in 0..MaxRetry
  BY DEF Inv, TaskRow
<1>2. task.tries < MaxRetry => task.tries + 1 \in 0..MaxRetry
  BY <1>1, TransferAssumption
<1>3. 0 \in 0..MaxRetry
  BY TransferAssumption
<1>4. NoTask \in TaskRow
  BY <1>3 DEF NoTask, TaskRow
<1>5. [NoTask EXCEPT !.at = "archived"] \in TaskRow
  BY <1>4 DEF TaskRow
<1>6. task.tries < MaxRetry =>
        [at |-> "queued", tries |-> task.tries + 1, owner |-> Nobody] \in TaskRow
  BY <1>2 DEF TaskRow
<1> QED BY <1>4, <1>5, <1>6 DEF Again

LEMMA FinishSettles ==
  ASSUME Inv, NEW w \in Everyone, NEW verdict \in Verdicts, Finish(w, verdict)
  PROVE  Settles(w) /\ task' \in TaskRow
<1>1. Settles(w)
  BY RestingAttempt DEF Finish, Settles
<1>2. [NoTask EXCEPT !.at = "archived"] \in TaskRow
  BY AgainTask DEF TaskRow
<1>3. task' \in TaskRow
  BY <1>2, AgainTask DEF Finish, Verdicts, Inv
<1> QED BY <1>1, <1>3

LEMMA TransientSettles ==
  ASSUME Inv, NEW w \in Everyone, Transient(w)
  PROVE  Settles(w) /\ task' \in TaskRow
<1>1. "fail" \in Places \ {"late"} /\ "again" \in Verdicts
  BY DEF Places, Leased, Verdicts
<1> QED BY <1>1, MoveSettles, FinishSettles DEF Transient, Inv

\* Where the places are.
LEMMA AllPlaces ==
  {"prepare", "create", "pod", "confirm", "wait", "stop", "idle", "refuse", "claim", "fail",
   "cleanPod", "cleanClaim", "mark", "forget", "expire", "stale"} \subseteq Places \ {"late"}
BY DEF Places, Leased

-----------------------------------------------------------------------------
(* The steps.                                                              *)

Good == Inv' /\ Moves

\* A step of one worker that keeps the row and of the rest only what it may.
LEMMA WorkerGood ==
  ASSUME Inv, NEW w \in Everyone, Settles(w), RowStep, RestOK', task' \in TaskRow
  PROVE  Good
BY SettlesOK DEF Good, Inv, RowStep

\* A step that no worker takes.
LEMMA OtherGood ==
  ASSUME Inv, UNCHANGED worker, RowStep, RestOK', task' \in TaskRow
  PROVE  Good
BY WorkersKept DEF Good, Inv, RowStep

ClientPlaces == {"idle", "create", "cancel", "undo", "stream", "complete", "fail"}

\* The request of a client goes on; the rest is as it was.
LEMMA ClientRest ==
  ASSUME Inv, NEW c \in Clients, NEW place \in ClientPlaces, Go(c, place),
         UNCHANGED <<claim, pod, time>>, cleanup' \in BOOLEAN, faults' \in 0..MaxFaults
  PROVE  RestOK'
BY DEF Inv, RestOK, Go, ClientPlaces

LEMMA FaultCounts == ASSUME Fault, Inv PROVE faults' \in 0..MaxFaults
BY TransferAssumption DEF Fault, Inv, RestOK

LEMMA CreateTransferGood ==
  ASSUME Inv, NEW c \in Clients, CreateTransfer(c)
  PROVE  Good
<1>1. /\ tr.state = "none" /\ Enter("preparing") /\ Go(c, "create")
      /\ UNCHANGED <<direction, vol, claim, pod, time, worker, task, cleanup, faults>>
  BY DEF CreateTransfer, kube, queue
<1>2. tr' \in Row /\ tr'.state = "preparing" /\ tr'.clean = tr.clean
  BY <1>1, Table, EnterGives
<1>3. tr.clean = FALSE
  BY <1>1 DEF Inv, RowOK, CleanWhenOver, Over, Row, Lifecycle!Terminal, Lifecycle!Failures
<1>4. VolumeAgrees' /\ CleanWhenOver'
  BY <1>1, <1>2, <1>3 DEF Inv, RowOK, VolumeAgrees, Import, CleanWhenOver
<1>5. Moves
  BY <1>1, <1>2 DEF Moves, Lifecycle!Next, Lifecycle!Create
<1>6. RowStep
  BY <1>1, <1>2, <1>4, <1>5 DEF RowStep, RowOK, Inv
<1>7. RestOK'
  BY <1>1, ClientRest DEF ClientPlaces, Inv, RestOK
<1> QED BY <1>1, <1>6, <1>7, OtherGood DEF Inv

LEMMA CancelGood ==
  ASSUME Inv, NEW c \in Clients, Cancel(c)
  PROVE  Good
<1>1. /\ tr.state \in Lifecycle!Active /\ Enter("cancelled") /\ Go(c, "cancel")
      /\ UNCHANGED <<direction, vol, claim, pod, time, worker, task, cleanup, faults>>
  BY DEF Cancel, kube, queue
<1>2. RowStep
  BY <1>1, Table, EnterGives, Advances DEF Inv, RowOK
<1>3. RestOK'
  BY <1>1, ClientRest DEF ClientPlaces, Inv, RestOK
<1> QED BY <1>1, <1>2, <1>3, OtherGood DEF Inv

LEMMA ClaimStreamGood ==
  ASSUME Inv, NEW c \in Clients, ClaimStream(c)
  PROVE  Good
<1>1. /\ tr.state = "ready" /\ Enter("streaming") /\ Go(c, "stream")
      /\ UNCHANGED <<direction, vol, claim, pod, time, worker, task, cleanup, faults>>
  BY DEF ClaimStream, kube, queue
<1>2. RowStep
  BY <1>1, Table, EnterGives, Advances DEF Inv, RowOK, Lifecycle!Active
<1>3. RestOK'
  BY <1>1, ClientRest DEF ClientPlaces, Inv, RestOK
<1> QED BY <1>1, <1>2, <1>3, OtherGood DEF Inv

LEMMA CompleteStreamGood ==
  ASSUME Inv, NEW c \in Clients, CompleteStream(c)
  PROVE  Good
<1>1. UNCHANGED <<direction, claim, pod, time, worker, task, faults>>
  BY DEF CompleteStream, kube
<1>2. PICK place \in ClientPlaces : Go(c, place)
  BY DEF CompleteStream, ClientPlaces
<1>3. cleanup' \in BOOLEAN
  BY DEF CompleteStream, MayQueueCleanup, Inv, RestOK
<1>4. RowStep
  <2>1. CASE UNCHANGED <<tr, vol>>
    BY <1>1, <2>1, RowKept DEF row
  <2>2. CASE tr.state = "streaming" /\ Enter("succeeded") /\ vol' = "ready"
    BY <1>1, <2>2, Table, EnterGives, Advances DEF Lifecycle!Active
  <2> QED BY <2>1, <2>2 DEF CompleteStream
<1>5. RestOK'
  BY <1>1, <1>2, <1>3, ClientRest DEF Inv, RestOK
<1> QED BY <1>1, <1>4, <1>5, OtherGood DEF Inv

LEMMA FailRequestGood ==
  ASSUME Inv, NEW c \in Clients, FailRequest(c)
  PROVE  Good
<1>1. /\ FailExecution /\ Go(c, "idle") /\ cleanup' \in BOOLEAN
      /\ UNCHANGED <<direction, claim, pod, time, worker, task, faults>>
  BY DEF FailRequest, MayQueueCleanup, kube, Inv, RestOK
<1>2. RestOK'
  BY <1>1, ClientRest DEF ClientPlaces, Inv, RestOK
<1> QED BY <1>1, <1>2, FailExecutionRow, OtherGood DEF Inv

\* The steps of a request that leave the row alone.
LEMMA RequestGood ==
  ASSUME Inv, NEW c \in Clients,
         Dispatch(c) \/ DispatchRefused(c) \/ Progress(c) \/ StreamEnds(c) \/ RequestLost(c)
  PROVE  Good
<1>1. UNCHANGED <<row, claim, pod, worker, cleanup>>
  BY DEF Dispatch, DispatchRefused, Progress, StreamEnds, RequestLost, kube, queue
<1>2. task' \in TaskRow
  <2>1. [NoTask EXCEPT !.at = "queued"] \in TaskRow
    BY AgainTask DEF TaskRow
  <2> QED BY <2>1 DEF Dispatch, DispatchRefused, Progress, StreamEnds, RequestLost, queue, Inv
<1>3. RestOK'
  <2>1. CASE Progress(c)
    BY <2>1 DEF Progress, kube, queue, Inv, RestOK
  <2>2. CASE Dispatch(c) \/ DispatchRefused(c) \/ StreamEnds(c) \/ RequestLost(c)
    <3>1. UNCHANGED time /\ faults' \in 0..MaxFaults
      BY <2>2, FaultCounts DEF Dispatch, DispatchRefused, StreamEnds, RequestLost, Inv, RestOK
    <3>2. PICK place \in ClientPlaces : Go(c, place)
      BY <2>2 DEF Dispatch, DispatchRefused, StreamEnds, RequestLost, ClientPlaces
    <3> QED BY <1>1, <3>1, <3>2, ClientRest DEF Inv, RestOK
  <2> QED BY <2>1, <2>2
<1> QED BY <1>1, <1>2, <1>3, RowKept, OtherGood

-----------------------------------------------------------------------------
(* The steps of a worker.                                                  *)

LEMMA TakeTaskGood ==
  ASSUME Inv, NEW w \in Workers, TakeTask(w)
  PROVE  Good
<1>1. UNCHANGED <<row, claim, pod, time, client, cleanup, faults>>
  BY DEF TakeTask, kube
<1>2. RowStep /\ RestOK'
  BY <1>1, RowKept DEF Inv, RestOK
<1>3. CASE task' = NoTask /\ UNCHANGED worker
  BY <1>2, <1>3, AgainTask, OtherGood
<1>4. CASE /\ task' = [task EXCEPT !.at = "running", !.owner = w]
           /\ worker' = [worker EXCEPT ![w] =
                [Resting EXCEPT !.at = IF Over THEN "cleanPod" ELSE "claim",
                                !.last = task.tries = MaxRetry,
                                !.seen = tr.state, !.marked = tr.clean]]
  <2>1. task' \in TaskRow
    BY <1>4 DEF Inv, TaskRow
  <2> DEFINE x == [Resting EXCEPT !.at = IF Over THEN "cleanPod" ELSE "claim",
                                  !.last = task.tries = MaxRetry,
                                  !.seen = tr.state, !.marked = tr.clean]
  <2>2. tr.state \in Lifecycle!States /\ tr.clean \in BOOLEAN
    BY DEF Inv, RowOK, Row
  <2>3. x \in Attempt /\ x.at # "late"
    BY <2>2, RestingAttempt, AllPlaces DEF Attempt
  <2>4. worker' = [worker EXCEPT ![w] = x]
    BY <1>4
  <2> HIDE DEF x
  <2>5. Settles(w)
    BY <2>3, <2>4 DEF Settles
  <2> QED BY <1>2, <2>1, <2>5, WorkerGood DEF Everyone
<1> QED BY <1>3, <1>4 DEF TakeTask

LEMMA TakeTaskWithoutClusterGood ==
  ASSUME Inv, NEW w \in Workers, TakeTaskWithoutCluster(w)
  PROVE  Good
<1>1. UNCHANGED <<row, claim, pod, time, client, cleanup>> /\ faults' \in 0..MaxFaults
  BY FaultCounts DEF TakeTaskWithoutCluster, kube
<1>2. RowStep /\ RestOK'
  BY <1>1, RowKept DEF Inv, RestOK
<1>3. CASE task' = Again /\ UNCHANGED worker
  BY <1>2, <1>3, AgainTask, OtherGood
<1>4. CASE task' = [task EXCEPT !.at = "running", !.owner = w] /\ Move(w, "refuse")
  <2>1. task' \in TaskRow
    BY <1>4 DEF Inv, TaskRow
  <2>2. Settles(w)
    BY <1>4, AllPlaces, MoveSettles DEF Everyone
  <2> QED BY <1>2, <2>1, <2>2, WorkerGood DEF Everyone
<1> QED BY <1>3, <1>4 DEF TakeTaskWithoutCluster, Move

LEMMA RefuseGood ==
  ASSUME Inv, NEW w \in Workers, Refuse(w)
  PROVE  Good
<1>1. FailExecution /\ UNCHANGED <<direction, claim, pod, time, client, cleanup, faults>>
  BY DEF Refuse, kube
<1>2. PICK v \in {"archive", "again"} : Finish(w, v)
  BY DEF Refuse
<1>3. Settles(w) /\ task' \in TaskRow
  BY <1>2, FinishSettles DEF Verdicts, Everyone
<1>4. RestOK'
  BY <1>1 DEF Inv, RestOK
<1> QED BY <1>1, <1>3, <1>4, FailExecutionRow, WorkerGood DEF Everyone

LEMMA ClaimExecutionGood ==
  ASSUME Inv, NEW w \in Workers, ClaimExecution(w)
  PROVE  Good
<1>1. UNCHANGED <<direction, vol, claim, pod, time, client, cleanup, faults>>
  BY DEF ClaimExecution, kube
<1>2. RestOK'
  BY <1>1 DEF Inv, RestOK
<1>3. CASE Finish(w, "again") /\ UNCHANGED tr
  <2>1. Settles(w) /\ task' \in TaskRow
    BY <1>3, FinishSettles DEF Verdicts, Everyone
  <2> QED BY <1>1, <1>2, <1>3, <2>1, RowKept, WorkerGood DEF Everyone, row
<1>4. CASE /\ tr.gen < MaxGen
           /\ tr' = [tr EXCEPT !.gen = tr.gen + 1, !.lease = "held", !.job = FALSE]
           /\ worker' = [worker EXCEPT ![w].at = "prepare", ![w].gen = tr.gen + 1]
           /\ UNCHANGED task
  <2>1. tr.gen \in 0..MaxGen
    BY DEF Inv, RowOK, Row
  <2>2. tr.gen + 1 \in 0..MaxGen
    BY <1>4, <2>1, TransferAssumption
  <2>3. tr' \in Row /\ tr'.state = tr.state /\ tr'.clean = tr.clean
    BY <1>4, <2>2 DEF Inv, RowOK, Row
  <2> DEFINE x == [worker[w] EXCEPT !.at = "prepare", !.gen = tr.gen + 1]
  <2>4. worker[w] \in Attempt
    BY DEF Inv, WorkersOK, Everyone
  <2>5. x \in Attempt /\ x.at # "late"
    BY <2>2, <2>4, AllPlaces DEF Attempt
  <2>6. worker' = [worker EXCEPT ![w] = x]
    BY <1>4
  <2> HIDE DEF x
  <2>7. Settles(w)
    BY <2>5, <2>6 DEF Settles
  <2> QED BY <1>1, <1>2, <1>4, <2>3, <2>7, Notes, WorkerGood DEF Everyone, Inv
<1> QED BY <1>3, <1>4 DEF ClaimExecution

LEMMA LoseLeaseGood ==
  ASSUME Inv, NEW w \in Workers, LoseLease(w)
  PROVE  Good
<1>1. /\ UNCHANGED <<row, claim, pod, time, client, task, cleanup, faults>>
      /\ worker[w].at \in Leased /\ worker' = [worker EXCEPT ![w].lost = TRUE]
  BY DEF LoseLease, kube, queue
<1> DEFINE x == [worker[w] EXCEPT !.lost = TRUE]
<1>2. worker[w] \in Attempt
  BY DEF Inv, WorkersOK, Everyone
<1>3. x \in Attempt /\ x.at = worker[w].at
  BY <1>2 DEF Attempt
<1>4. worker' = [worker EXCEPT ![w] = x]
  BY <1>1
<1> HIDE DEF x
<1>5. Settles(w)
  BY <1>1, <1>3, <1>4 DEF Settles, Leased
<1> QED BY <1>1, <1>5, RowKept, WorkerGood DEF Everyone, Inv, RestOK

\* The calls of a preparation: they leave the row alone.
LEMMA CallGood ==
  ASSUME Inv, NEW w \in Workers,
         PrepareClaim(w) \/ CreateClaim(w) \/ PreparePod(w) \/ StopWaiting(w) \/ CallFails(w)
           \/ StopHeartbeat(w)
  PROVE  Good
<1>1. UNCHANGED <<row, time, client, cleanup>>
  BY DEF PrepareClaim, CreateClaim, PreparePod, StopWaiting, CallFails, StopHeartbeat, kube, queue
<1>2. Settles(w) /\ task' \in TaskRow
  <2>1. CASE Transient(w)
    BY <2>1, TransientSettles DEF Everyone
  <2>2. CASE \E place \in Places \ {"late"} : Move(w, place) /\ UNCHANGED task
    BY <2>2, MoveSettles DEF Everyone, Inv
  <2>3. CASE Finish(w, "done")
    BY <2>3, FinishSettles DEF Everyone, Verdicts
  <2> QED BY <2>1, <2>2, <2>3, AllPlaces
          DEF PrepareClaim, CreateClaim, PreparePod, StopWaiting, CallFails, StopHeartbeat, queue
<1>3. RestOK'
  <2>1. claim' \in BOOLEAN /\ pod' \in {"none", "starting", "ready", "failed"}
    BY DEF PrepareClaim, CreateClaim, PreparePod, StopWaiting, CallFails, StopHeartbeat, kube, Inv, RestOK
  <2>2. faults' \in 0..MaxFaults
    BY FaultCounts
    DEF PrepareClaim, CreateClaim, PreparePod, StopWaiting, CallFails, StopHeartbeat, Inv, RestOK
  <2> QED BY <1>1, <2>1, <2>2 DEF Inv, RestOK
<1> QED BY <1>1, <1>2, <1>3, RowKept, WorkerGood DEF Everyone

LEMMA ConfirmJobGood ==
  ASSUME Inv, NEW w \in Workers, ConfirmJob(w)
  PROVE  Good
<1>1. UNCHANGED <<direction, vol, claim, pod, time, client, task, cleanup, faults>>
  BY DEF ConfirmJob, kube, queue
<1>2. Settles(w)
  BY AllPlaces, MoveSettles DEF ConfirmJob, Everyone
<1>3. tr' \in Row /\ tr'.state = tr.state /\ tr'.clean = tr.clean
  BY DEF ConfirmJob, Inv, RowOK, Row
<1> QED BY <1>1, <1>2, <1>3, Notes, WorkerGood DEF Everyone, Inv, RestOK

LEMMA MarkReadyGood ==
  ASSUME Inv, NEW w \in Workers, MarkReady(w)
  PROVE  Good
<1>1. UNCHANGED <<direction, vol, claim, pod, time, client, task, cleanup, faults>>
  BY DEF MarkReady, kube, queue
<1>2. Settles(w)
  BY AllPlaces, MoveSettles DEF MarkReady, Everyone
<1>3. RowStep
  <2>1. CASE UNCHANGED tr
    BY <1>1, <2>1, RowKept DEF row
  <2>2. CASE tr.state = "preparing" /\ tr' = [tr EXCEPT !.state = "ready", !.lease = "none"]
    <3>1. tr' \in Row /\ tr'.state = "ready" /\ tr'.clean = tr.clean
      BY <2>2, Table DEF Inv, RowOK, Row
    <3> QED BY <1>1, <2>2, <3>1, Table, Advances DEF Inv, RowOK, Lifecycle!Active
  <2> QED BY <2>1, <2>2 DEF MarkReady, Fenced
<1> QED BY <1>1, <1>2, <1>3, WorkerGood DEF Everyone, Inv, RestOK

LEMMA FailAttemptGood ==
  ASSUME Inv, NEW w \in Workers, FailAttempt(w)
  PROVE  Good
<1>1. UNCHANGED <<direction, claim, pod, time, client, task, cleanup>>
  BY DEF FailAttempt, kube, queue
<1>2. RowStep /\ faults' \in 0..MaxFaults
  BY <1>1, FailExecutionRow, RowKept, FaultCounts DEF FailAttempt, row, Inv, RestOK
<1>3. PICK v \in {"archive", "again"} :
        worker' = [worker EXCEPT ![w].at = "cleanPod", ![w].seen = "failed",
                                 ![w].lost = FALSE, ![w].then = v]
  BY DEF FailAttempt
<1> DEFINE x == [worker[w] EXCEPT !.at = "cleanPod", !.seen = "failed", !.lost = FALSE, !.then = v]
<1>4. worker[w] \in Attempt
  BY DEF Inv, WorkersOK, Everyone
<1>5. x \in Attempt /\ x.at # "late"
  BY <1>4, AllPlaces, Table DEF Attempt
<1>6. worker' = [worker EXCEPT ![w] = x]
  BY <1>3
<1> HIDE DEF x
<1>7. Settles(w)
  BY <1>5, <1>6 DEF Settles
<1> QED BY <1>1, <1>2, <1>7, WorkerGood DEF Everyone, Inv, RestOK

-----------------------------------------------------------------------------
(* Cleanup and maintenance.                                                *)

LEMMA CleanCallGood ==
  ASSUME Inv, NEW w \in Everyone, CleanPod(w) \/ CleanClaim(w)
  PROVE  Good
<1>1. UNCHANGED <<row, time, client, cleanup, faults>>
  BY DEF CleanPod, CleanClaim
<1>2. worker[w].then \in Verdicts /\ "again" \in Verdicts
  BY DEF Inv, WorkersOK, Attempt, Verdicts
<1>3. Settles(w) /\ task' \in TaskRow
  <2>1. CASE \E verdict \in Verdicts : Finish(w, verdict)
    BY <2>1, FinishSettles
  <2>2. CASE \E place \in Places \ {"late"} : Move(w, place) /\ UNCHANGED task
    BY <2>2, MoveSettles DEF Inv
  <2> QED BY <1>2, <2>1, <2>2, AllPlaces DEF CleanPod, CleanClaim
<1>4. claim' \in BOOLEAN /\ pod' \in {"none", "starting", "ready", "failed"}
  BY DEF CleanPod, CleanClaim, Inv, RestOK
<1>5. RestOK'
  BY <1>1, <1>4 DEF Inv, RestOK
<1> QED BY <1>1, <1>3, <1>5, RowKept, WorkerGood

LEMMA MarkCleanedGood ==
  ASSUME Inv, NEW w \in Everyone, MarkCleaned(w)
  PROVE  Good
<1>1. /\ UNCHANGED <<direction, vol, claim, pod, time, client, cleanup, faults>>
      /\ tr' = [tr EXCEPT !.clean = Over]
  BY DEF MarkCleaned, kube
<1>2. worker[w].then \in Verdicts /\ "again" \in Verdicts
  BY DEF Inv, WorkersOK, Attempt, Verdicts
<1>3. Settles(w) /\ task' \in TaskRow
  <2>1. CASE \E verdict \in Verdicts : Finish(w, verdict)
    BY <2>1, FinishSettles
  <2>2. CASE Move(w, "forget") /\ UNCHANGED task
    BY <2>2, AllPlaces, MoveSettles DEF Inv
  <2> QED BY <1>2, <2>1, <2>2 DEF MarkCleaned
<1>4. Over \in BOOLEAN
  BY DEF Over
<1>5. tr' \in Row /\ tr'.state = tr.state /\ tr'.clean = Over
  BY <1>1, <1>4 DEF Inv, RowOK, Row
<1>6. RowStep
  <2>1. CASE Over
    <3>1. VolumeAgrees' /\ CleanWhenOver'
      BY <1>1, <1>5, <2>1 DEF Inv, RowOK, VolumeAgrees, Import, CleanWhenOver, Over
    <3>2. Moves
      BY <1>5, <2>1 DEF Moves, Lifecycle!Next, Lifecycle!Clean, Over
    <3> QED BY <1>1, <1>5, <3>1, <3>2 DEF RowStep, RowOK, Inv
  <2>2. CASE ~Over
    <3>1. tr.clean = FALSE /\ Over = FALSE
      BY <2>2 DEF Inv, RowOK, CleanWhenOver, Row, Over
    <3> QED BY <1>1, <1>5, <3>1, Notes
  <2> QED BY <2>1, <2>2
<1> QED BY <1>1, <1>3, <1>6, WorkerGood DEF Inv, RestOK

LEMMA CleanupFailsGood ==
  ASSUME Inv, NEW w \in Everyone, CleanupFails(w)
  PROVE  Good
<1>1. /\ UNCHANGED <<row, claim, pod, time, client, cleanup>> /\ faults' \in 0..MaxFaults
      /\ Finish(w, "again")
  BY FaultCounts DEF CleanupFails, kube
<1>2. Settles(w) /\ task' \in TaskRow
  BY <1>1, FinishSettles DEF Verdicts
<1> QED BY <1>1, <1>2, RowKept, WorkerGood DEF Inv, RestOK

LEMMA CompleteCancelledImportGood ==
  ASSUME Inv, NEW w \in Workers, CompleteCancelledImport(w)
  PROVE  Good
<1>1. UNCHANGED <<direction, tr, claim, pod, time, client, cleanup, faults>>
  BY DEF CompleteCancelledImport, kube
<1>2. Settles(w) /\ task' \in TaskRow
  BY FinishSettles DEF CompleteCancelledImport, Verdicts, Everyone
<1>3. RowStep
  <2>1. CASE UNCHANGED vol
    BY <1>1, <2>1, RowKept DEF row
  <2>2. CASE tr.state = "cancelled" /\ tr.clean /\ vol' = "deleted"
    <3>1. VolumeAgrees' /\ CleanWhenOver'
      BY <1>1, <2>2 DEF Inv, RowOK, VolumeAgrees, Import, CleanWhenOver, Over
    <3>2. Moves
      BY <1>1 DEF Moves, Lifecycle!vars
    <3> QED BY <1>1, <2>2, <3>1, <3>2 DEF RowStep, RowOK, Inv
  <2> QED BY <2>1, <2>2 DEF CompleteCancelledImport
<1> QED BY <1>1, <1>2, <1>3, WorkerGood DEF Everyone, Inv, RestOK

LEMMA SweepSettles ==
  ASSUME Inv, NEW s \in Sweepers, NEW place \in Places \ {"late"}, Sweep(s, place)
  PROVE  Settles(s)
<1> DEFINE x == [Resting EXCEPT !.at = place, !.seen = tr.state, !.marked = tr.clean]
<1>1. tr.state \in Lifecycle!States /\ tr.clean \in BOOLEAN
  BY DEF Inv, RowOK, Row
<1>2. x \in Attempt /\ x.at # "late"
  BY <1>1, RestingAttempt DEF Attempt
<1>3. worker' = [worker EXCEPT ![s] = x]
  BY DEF Sweep
<1> HIDE DEF x
<1> QED BY <1>2, <1>3 DEF Settles

\* What a sweeper reads to decide what it looks at.
LEMMA ListGood ==
  ASSUME Inv, NEW s \in Sweepers, TakeCleanup(s) \/ ListExpired(s) \/ ListStale(s)
  PROVE  Good
<1>1. UNCHANGED <<row, claim, pod, time, client, task, faults>> /\ cleanup' \in BOOLEAN
  BY DEF TakeCleanup, ListExpired, ListStale, kube, queue, Inv, RestOK
<1>2. RowStep /\ RestOK' /\ task' \in TaskRow
  BY <1>1, RowKept DEF Inv, RestOK
<1>3. CASE UNCHANGED worker
  BY <1>2, <1>3, OtherGood
<1>4. CASE \E place \in {"expire", "cleanPod", "stale"} : Sweep(s, place)
  BY <1>2, <1>4, AllPlaces, SweepSettles, WorkerGood DEF Everyone
<1> QED BY <1>3, <1>4 DEF TakeCleanup, ListExpired, ListStale

LEMMA ExpireTransferGood ==
  ASSUME Inv, NEW s \in Sweepers, ExpireTransfer(s)
  PROVE  Good
<1>1. UNCHANGED <<direction, vol, claim, pod, time, client, task, cleanup, faults>>
  BY DEF ExpireTransfer, kube, queue
<1>2. CASE worker' = [worker EXCEPT ![s] = Resting] /\ UNCHANGED tr
  <2>1. Settles(s)
    BY <1>2, RestingAttempt DEF Settles
  <2> QED BY <1>1, <1>2, <2>1, RowKept, WorkerGood DEF Everyone, row, Inv, RestOK
<1>3. CASE /\ Expirable \/ tr.state = "expired"
           /\ Enter("expired")
           /\ worker' = [worker EXCEPT ![s].at = IF Import THEN "late" ELSE "cleanPod",
                                       ![s].seen = "expired", ![s].marked = tr.clean]
  <2>1. tr' \in Row /\ tr'.state = "expired" /\ tr'.clean = tr.clean
    BY <1>3, Table, EnterGives
  <2>2. RowStep
    <3>1. CASE tr.state = "expired"
      BY <1>1, <2>1, <3>1, Notes
    <3>2. CASE tr.state \in {"preparing", "ready"}
      BY <1>1, <2>1, <3>2, Table, Advances DEF Inv, RowOK, Lifecycle!Active
    <3> QED BY <1>3, <3>1, <3>2 DEF Expirable
  <2>3. WorkersOK'
    <3> DEFINE x == [worker[s] EXCEPT !.at = IF Import THEN "late" ELSE "cleanPod",
                                      !.seen = "expired", !.marked = tr.clean]
    <3>1. worker[s] \in Attempt /\ tr.clean \in BOOLEAN
      BY DEF Inv, WorkersOK, Everyone, RowOK, Row
    <3>2. "late" \in Places
      BY DEF Places
    <3>3. x \in Attempt
      BY <3>1, <3>2, AllPlaces, Table DEF Attempt
    <3>4. worker' = [worker EXCEPT ![s] = x]
      BY <1>3
    <3> HIDE DEF x
    <3> QED BY <2>1, <3>3, <3>4 DEF Inv, WorkersOK, LateIsExpired, Everyone
  <2> QED BY <1>1, <2>2, <2>3 DEF Good, RowStep, Inv, RestOK
<1> QED BY <1>2, <1>3 DEF ExpireTransfer

LEMMA ExpireVolumeGood ==
  ASSUME Inv, NEW s \in Sweepers, ExpireVolume(s)
  PROVE  Good
<1>1. /\ UNCHANGED <<direction, tr, claim, pod, time, client, task, cleanup, faults>>
      /\ worker[s].at = "late" /\ Move(s, "cleanPod")
      /\ vol' = IF vol = "provisioning" THEN "error" ELSE vol
  BY DEF ExpireVolume, kube, queue
<1>2. tr.state = "expired"
  BY <1>1 DEF Inv, WorkersOK, LateIsExpired, Everyone
<1>3. Settles(s)
  BY <1>1, AllPlaces, MoveSettles DEF Everyone
<1>4. VolumeAgrees' /\ CleanWhenOver'
  BY <1>1, <1>2 DEF Inv, RowOK, VolumeAgrees, Import, CleanWhenOver, Over
<1>5. Moves
  BY <1>1 DEF Moves, Lifecycle!vars
<1>6. RowStep
  BY <1>1, <1>4, <1>5 DEF RowStep, RowOK, Inv
<1> QED BY <1>1, <1>3, <1>6, WorkerGood DEF Everyone, Inv, RestOK

LEMMA FailStaleGood ==
  ASSUME Inv, NEW s \in Sweepers, FailStale(s)
  PROVE  Good
<1>1. UNCHANGED <<direction, claim, pod, time, client, task, cleanup, faults>>
  BY DEF FailStale, kube, queue
<1>2. CASE worker' = [worker EXCEPT ![s] = Resting] /\ UNCHANGED <<tr, vol>>
  <2>1. Settles(s)
    BY <1>2, RestingAttempt DEF Settles
  <2> QED BY <1>1, <1>2, <2>1, RowKept, WorkerGood DEF Everyone, row, Inv, RestOK
<1>3. CASE /\ tr.state = "streaming" /\ Enter("failed")
           /\ vol' = IF Import /\ vol = "provisioning" THEN "error" ELSE vol
           /\ worker' = [worker EXCEPT ![s].at = "cleanPod", ![s].seen = "failed"]
  <2>1. Import => vol = "provisioning"
    BY <1>3 DEF Inv, RowOK, VolumeAgrees
  <2>2. RowStep
    BY <1>1, <1>3, <2>1, Table, EnterGives, Advances DEF Inv, RowOK, Lifecycle!Active
  <2> DEFINE x == [worker[s] EXCEPT !.at = "cleanPod", !.seen = "failed"]
  <2>3. worker[s] \in Attempt
    BY DEF Inv, WorkersOK, Everyone
  <2>4. x \in Attempt /\ x.at # "late"
    BY <2>3, AllPlaces, Table DEF Attempt
  <2>5. worker' = [worker EXCEPT ![s] = x]
    BY <1>3
  <2> HIDE DEF x
  <2>6. Settles(s)
    BY <2>4, <2>5 DEF Settles
  <2> QED BY <1>1, <2>2, <2>6, WorkerGood DEF Everyone, Inv, RestOK
<1> QED BY <1>2, <1>3 DEF FailStale

-----------------------------------------------------------------------------
(* What happens to them.                                                   *)

LEMMA WorkerLeavesGood ==
  ASSUME Inv, NEW w \in Everyone, WorkerStops(w) \/ AttemptCancelled(w)
  PROVE  Good
<1>1. /\ UNCHANGED <<row, claim, pod, time, client, cleanup>> /\ faults' \in 0..MaxFaults
      /\ worker' = [worker EXCEPT ![w] = Resting]
  BY FaultCounts DEF WorkerStops, AttemptCancelled, kube, queue, Inv, RestOK
<1>2. task' \in TaskRow
  BY DEF WorkerStops, AttemptCancelled, queue, Inv, TaskRow
<1>3. Settles(w)
  BY <1>1, RestingAttempt DEF Settles
<1> QED BY <1>1, <1>2, <1>3, RowKept, WorkerGood DEF Inv, RestOK

LEMMA TaskGood ==
  ASSUME Inv, Reconcile \/ RecoverTask \/ LockExpires \/ \E w \in Workers : WorkerStalls(w)
  PROVE  Good
<1>1. UNCHANGED <<row, claim, pod, time, worker, client, cleanup>> /\ faults' \in 0..MaxFaults
  BY FaultCounts DEF Reconcile, RecoverTask, LockExpires, WorkerStalls, kube, Inv, RestOK
<1>2. task' \in TaskRow
  <2>1. [NoTask EXCEPT !.at = "queued"] \in TaskRow
    BY AgainTask DEF TaskRow
  <2>2. [task EXCEPT !.owner = Nobody] \in TaskRow
    BY DEF Inv, TaskRow
  <2> QED BY <2>1, <2>2, AgainTask DEF Reconcile, RecoverTask, LockExpires, WorkerStalls
<1> QED BY <1>1, <1>2, RowKept, OtherGood DEF Inv, RestOK

LEMMA LeaseLapsesGood ==
  ASSUME Inv, LeaseLapses
  PROVE  Good
<1>1. /\ UNCHANGED <<direction, vol, claim, pod, time, worker, client, task, cleanup>>
      /\ faults' \in 0..MaxFaults /\ tr' = [tr EXCEPT !.lease = "lapsed"]
  BY FaultCounts DEF LeaseLapses, kube, queue, Inv, RestOK
<1>2. tr' \in Row /\ tr'.state = tr.state /\ tr'.clean = tr.clean
  BY <1>1 DEF Inv, RowOK, Row
<1> QED BY <1>1, <1>2, Notes, OtherGood DEF Inv, RestOK

LEMMA WorldGood ==
  ASSUME Inv, SessionExpires \/ StreamStalls \/ PodStarts \/ PodFails
  PROVE  Good
<1>1. UNCHANGED <<row, claim, worker, client, task, cleanup>> /\ faults' \in 0..MaxFaults
  BY FaultCounts DEF SessionExpires, StreamStalls, PodStarts, PodFails, kube, queue, Inv, RestOK
<1>2. /\ pod' \in {"none", "starting", "ready", "failed"}
      /\ time' \in [expired : BOOLEAN, stale : BOOLEAN]
  BY DEF SessionExpires, StreamStalls, PodStarts, PodFails, kube, Inv, RestOK
<1> QED BY <1>1, <1>2, RowKept, OtherGood DEF Inv, RestOK

-----------------------------------------------------------------------------
(* The theorems.                                                           *)

LEMMA InitInv == Init => Inv
<1> SUFFICES ASSUME Init PROVE Inv
  OBVIOUS
<1>1. 0 \in 0..MaxGen /\ 0 \in 0..MaxFaults
  BY TransferAssumption
<1>2. tr \in Row
  BY <1>1 DEF Init, Row, Lifecycle!States
<1>3. VolumeAgrees /\ CleanWhenOver
  BY DEF Init, VolumeAgrees, CleanWhenOver
<1>4. RowOK
  BY <1>2, <1>3 DEF Init, RowOK
<1>5. WorkersOK
  BY RestingAttempt DEF Init, WorkersOK, LateIsExpired, Everyone
<1>6. RestOK
  BY <1>1 DEF Init, RestOK, Import
<1>7. task \in TaskRow
  <2>1. 0 \in 0..MaxRetry
    BY TransferAssumption
  <2> QED BY <2>1 DEF Init, NoTask, TaskRow
<1> QED BY <1>4, <1>5, <1>6, <1>7 DEF Inv

LEMMA StepGood == Inv /\ [Next]_vars => Good
<1> SUFFICES ASSUME Inv, [Next]_vars PROVE Good
  OBVIOUS
<1>1. CASE UNCHANGED vars
  <2>1. UNCHANGED <<row, claim, pod, time, worker, client, task, cleanup, faults>>
    BY <1>1 DEF vars, kube, queue
  <2> QED BY <2>1, RowKept, OtherGood DEF Inv, RestOK
<1>2. ASSUME NEW c \in Clients,
             CreateTransfer(c) \/ Cancel(c) \/ ClaimStream(c) \/ Progress(c)
               \/ RequestStep(c) \/ RequestLost(c)
      PROVE  Good
  BY <1>2, CreateTransferGood, CancelGood, ClaimStreamGood, CompleteStreamGood, FailRequestGood,
     RequestGood DEF RequestStep
<1>3. ASSUME NEW w \in Workers, Prepare(w) PROVE Good
  BY <1>3, ClaimExecutionGood, CallGood, ConfirmJobGood, MarkReadyGood DEF Prepare
<1>4. ASSUME NEW w \in Everyone, Clean(w) PROVE Good
  BY <1>4, CleanCallGood, MarkCleanedGood DEF Clean
<1>5. ASSUME NEW w \in Workers, WorkerStep(w) PROVE Good
  BY <1>3, <1>4, <1>5, TakeTaskGood, RefuseGood, FailAttemptGood, CompleteCancelledImportGood
  DEF WorkerStep, Everyone
<1>6. ASSUME NEW w \in Workers,
             TakeTaskWithoutCluster(w) \/ LoseLease(w) \/ CallFails(w)
               \/ WorkerStalls(w) \/ AttemptCancelled(w)
      PROVE  Good
  BY <1>6, TakeTaskWithoutClusterGood, LoseLeaseGood, CallGood, TaskGood, WorkerLeavesGood
  DEF Everyone
<1>7. ASSUME NEW s \in Sweepers, SweeperStep(s) PROVE Good
  BY <1>4, <1>7, ListGood, ExpireTransferGood, ExpireVolumeGood, FailStaleGood
  DEF SweeperStep, Everyone
<1>8. ASSUME NEW w \in Workers \cup Sweepers, WorkerStops(w) \/ CleanupFails(w) PROVE Good
  BY <1>8, WorkerLeavesGood, CleanupFailsGood DEF Everyone
<1>9. CASE Reconcile \/ RecoverTask \/ LockExpires
  BY <1>9, TaskGood
<1>10. CASE LeaseLapses
  BY <1>10, LeaseLapsesGood
<1>11. CASE SessionExpires \/ StreamStalls \/ PodStarts \/ PodFails
  BY <1>11, WorldGood
<1> QED BY <1>1, <1>2, <1>5, <1>6, <1>7, <1>8, <1>9, <1>10, <1>11 DEF Next

\* Inv holds in every state of every behaviour of the transfer.
THEOREM Invariance == Spec => []Inv
<1>1. Inv /\ [Next]_vars => Inv'
  BY StepGood DEF Good
<1> QED BY InitInv, <1>1, PTL DEF Spec

\* Every variable keeps its type: an execution never gets a generation beyond the last one,
\* a task never more retries than it has, and no attempt is in a place the code does not know.
THEOREM TypeCorrect == Spec => []TypeOK
<1>1. Inv => TypeOK
  BY DEF Inv, TypeOK, RowOK, WorkersOK, RestOK, Row, Attempt, TaskRow, Everyone
<1> QED BY Invariance, <1>1, PTL

\* The volume of an import agrees with its transfer, whoever ends it: the client, the worker
\* of an execution that has been overtaken, or one of the sweepers.
THEOREM VolumeFollows == Spec => []VolumeAgrees
<1>1. Inv => VolumeAgrees
  BY DEF Inv, RowOK
<1> QED BY Invariance, <1>1, PTL

\* The transfer follows the transition table and keeps its cleanup marker: every step of
\* every process is a step of TransferLifecycle or does not concern it.
THEOREM TableFollowed == Spec => TransferFollowsTable
<1>1. Init => Lifecycle!Init
  BY DEF Init, Lifecycle!Init
<1>2. Inv /\ [Next]_vars => [Lifecycle!Next]_(Lifecycle!vars)
  BY StepGood DEF Good, Moves
<1> QED BY <1>1, <1>2, Invariance, PTL DEF Spec, TransferFollowsTable, Lifecycle!Spec
=============================================================================
