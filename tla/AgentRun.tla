------------------------------ MODULE AgentRun ------------------------------
(***************************************************************************)
(* The execution of runs by the luna-agent service: the executor loops,    *)
(* the HTTP handlers that move a run behind their back (tool actions,      *)
(* approvals, cancel, input), the reconciliation at start-up, and crashes. *)
(*                                                                         *)
(* What is shared is what PostgreSQL holds (run, ckpt, calls); each task   *)
(* is one asynchronous activity of the single agent process, and one step  *)
(* of a task is what happens between two awaits: at most one transaction.  *)
(* Source: luna-agent/src/executor, luna-agent/src/tools/orchestrator.ts,  *)
(* luna-agent/src/server.ts, luna-agent/src/persistence/postgres.ts.       *)
(*                                                                         *)
(* Reads that are followed by a conditional update on what they read are   *)
(* folded into it; reads whose answer is used later are steps of their own.*)
(***************************************************************************)
EXTENDS RunStore, FiniteSets

CONSTANTS
  Runs,                \* runs of one user
  Executors,           \* loop slots: runtimeSettings.agentConcurrentRuns
  Requests,            \* requests the HTTP server has in flight
  NoRun,               \* task[t].run of an idle task
  NoTask,              \* controller[r] when no loop registered itself
  RunKinds,            \* the kinds of run requests ask for
  RequestKinds,        \* the kinds of request sent about an existing run
  CallShapes,          \* [write, gated] of the operations the model may call
  MaxModelSteps,       \* runtimeSettings.maxModelSteps
  MaxToolCalls,        \* runtimeSettings.runMaxToolCalls
  MaxRecoveries,       \* maxRunRecoveries of checkpoint.ts
  UserConcurrentRuns,  \* runtimeSettings.userConcurrentRuns
  MaxRestarts,         \* bound: how often the process goes down
  MaxOutages,          \* bound: how many steps fail on the database
  MaxVersion,          \* bound: no decision about a run, and no repeated tool
                       \* action, from this row_version on
  MaxRevision          \* bound: no waiting_external beyond this revision

CallIds == 1..MaxToolCalls

ASSUME TasksAssumption ==
  /\ Executors \cap Requests = {}
  /\ NoRun \notin Runs
  /\ NoTask \notin Executors
ASSUME KindsAssumption ==
  /\ RunKinds \subseteq RunKindNames
  /\ CallShapes \subseteq [write : BOOLEAN, gated : BOOLEAN]
ASSUME LimitsAssumption ==
  /\ MaxModelSteps \in Nat /\ MaxToolCalls \in Nat
  /\ MaxRecoveries \in Nat /\ UserConcurrentRuns \in Nat
  /\ MaxRestarts \in Nat /\ MaxOutages \in Nat
  /\ MaxVersion \in Nat /\ MaxRevision \in Nat

VARIABLES
  run,        \* ai.runs
  ckpt,       \* ai.run_checkpoints
  calls,      \* ai.tool_calls of each run, without the verification reads
  task,       \* the loops and the requests in flight
  controller, \* RunExecutor.controllers
  mode,       \* where the process is between two starts
  recon,      \* the pass of recoverOrphanedRuns
  restarts, outages,  \* what has been used of the bounds
  requeues,   \* history: how often start-up put the run back in the queue
  batches     \* history: how many tool batches the run has begun

vars == <<run, ckpt, calls, task, controller, mode, recon,
          restarts, outages, requeues, batches>>

Tasks == Executors \cup Requests

Checkpoint ==
  [rev : Nat, phase : Phases, step : Nat, pending : CallIds \cup {0},
   owed : SUBSET CallIds, blocked : SUBSET CallIds, final : BOOLEAN,
   recoveries : Nat]

NoCheckpoint ==
  [rev |-> 0, phase |-> "model", step |-> 0, pending |-> 0,
   owed |-> {}, blocked |-> {}, final |-> FALSE, recoveries |-> 0]

Call ==
  [status : CallStatuses, key : CallIds \cup {0}, write : BOOLEAN,
   gated : BOOLEAN, approved : BOOLEAN, result : CallResults,
   verified : BOOLEAN, effects : Nat]

NoCall ==
  [status |-> "absent", key |-> 0, write |-> FALSE, gated |-> FALSE,
   approved |-> FALSE, result |-> "none", verified |-> FALSE, effects |-> 0]

Kinds == {"idle", "loop", "direct", "approve", "reject", "cancel", "input"}

\* Where a task is: the step it takes next.
Pcs == {"idle",
        \* executor/index.ts, executor/run-loop.ts
        "register", "admit", "start", "settle", "branch", "verify", "check",
        "model", "stream", "tools", "batch", "park", "parkRun",
        "input", "inputRun", "finalize", "commit", "cancel", "interrupt",
        "fail", "exhausted", "finish",
        \* tools/orchestrator.ts
        "advance", "send", "answer",
        \* server.ts
        "begin", "propose", "saveWait", "wait", "end", "undo", "undoQueued",
        "grant", "resolve", "release", "requeue",
        "owned", "cancelRow", "signal", "inputQueue"}

Answers == {"ok", "error", "gate"}

Aborts == {"none", "canceled", "stopping", "timeout"}

Task ==
  [kind : Kinds, pc : Pcs, run : Runs \cup {NoRun},
   ver : Nat,                  \* run.rowVersion of the claimed run
   rev : Nat,                  \* checkpointRevision
   step : Nat,                 \* modelStep
   plan : Plans,               \* resumeAction
   rechecked : BOOLEAN,        \* the direct call has been verified again
   call : CallIds \cup {0},    \* the call at hand, awaitingToolCallId
   owed : SUBSET CallIds,      \* pendingVerifications
   blocked : SUBSET CallIds,   \* toolState.completionBlockers
   fenced : BOOLEAN,           \* pendingTerminal: an open stream session
   abort : Aborts,             \* AbortController.signal.reason
   answer : Answers,           \* what the platform answered
   out : Statuses]             \* the outcome reported, or to be committed

Idle ==
  [kind |-> "idle", pc |-> "idle", run |-> NoRun, ver |-> 0, rev |-> 0,
   step |-> 0, plan |-> "model", rechecked |-> FALSE, call |-> 0,
   owed |-> {}, blocked |-> {}, fenced |-> FALSE, abort |-> "none",
   answer |-> "ok", out |-> "absent"]

Modes == {"down", "reconciling", "serving", "stopping"}

Recon == [listed : BOOLEAN, todo : SUBSET (Runs \X Nat), clean : BOOLEAN]

NoRecon == [listed |-> FALSE, todo |-> {}, clean |-> TRUE]

TypeOK ==
  /\ run \in [Runs -> Row]
  /\ ckpt \in [Runs -> Checkpoint]
  /\ calls \in [Runs -> [CallIds -> Call]]
  /\ task \in [Tasks -> Task]
  /\ controller \in [Runs -> Executors \cup {NoTask}]
  /\ mode \in Modes
  /\ recon \in Recon
  /\ restarts \in Nat /\ outages \in Nat
  /\ requeues \in [Runs -> Nat]
  /\ batches \in [Runs -> Nat]

\* An agent that has reconciled and serves requests over empty tables.
Init ==
  /\ run = [r \in Runs |-> NoRow]
  /\ ckpt = [r \in Runs |-> NoCheckpoint]
  /\ calls = [r \in Runs |-> [c \in CallIds |-> NoCall]]
  /\ task = [t \in Tasks |-> Idle]
  /\ controller = [r \in Runs |-> NoTask]
  /\ mode = "serving"
  /\ recon = NoRecon
  /\ restarts = 0 /\ outages = 0
  /\ requeues = [r \in Runs |-> 0]
  /\ batches = [r \in Runs |-> 0]

-----------------------------------------------------------------------------
(* Steps and what they share.                                              *)

Of(t) == task[t].run

At(t, kinds, pc) == task[t].kind \in kinds /\ task[t].pc = pc

Goto(t, pc) == task' = [task EXCEPT ![t].pc = pc]

Begin(t, kind, pc, r) ==
  /\ task[t] = Idle
  /\ task' = [task EXCEPT ![t] = [Idle EXCEPT !.kind = kind, !.pc = pc, !.run = r]]

Done(t) == task' = [task EXCEPT ![t] = Idle]

\* updateRun: the transition is conditional on the status alone.
SetRun(r, to) == run' = [run EXCEPT ![r] = Moved(@, to)]

UpdateRun(r, from, to) == run[r].status = from /\ SetRun(r, to)

\* saveRunCheckpoint with the revision the task holds; the caller continues
\* with the next revision whether the row was written or replayed.
Save(t, phase, step, pending, owed, final) ==
  /\ ~SaveConflicts(ckpt[Of(t)], task[t].rev)
  /\ ckpt' = [ckpt EXCEPT ![Of(t)] = AfterSave(@, task[t].rev,
       [rev |-> task[t].rev + 1, phase |-> phase, step |-> step,
        pending |-> pending, owed |-> owed, blocked |-> task[t].blocked,
        final |-> final, recoveries |-> 0])]

\* Where an exception that nothing else handles takes the task: RunLoop's catch
\* block, the catch of the tool-action handler, the catch of the approval.
Recovery(t) ==
  CASE task[t].kind = "direct"  -> "undo"
    [] task[t].kind = "approve" -> "release"
    [] OTHER -> "fail"

rest == <<controller, mode, recon, restarts, outages, requeues, batches>>

-----------------------------------------------------------------------------
(* Requests that create a run.                                             *)

\* POST .../turns
AcceptTurn(r) ==
  /\ mode # "down"
  /\ "model" \in RunKinds
  /\ run[r].status = "absent"
  /\ run' = [run EXCEPT ![r] = NewRow("model")]
  /\ UNCHANGED <<ckpt, calls, task, rest>>

\* POST .../tool-actions: createTurn commits a queued run first; a request that
\* repeats the idempotency key gets the run of the first one and goes on alike.
AcceptToolAction(q, r) ==
  /\ mode # "down"
  /\ "direct" \in RunKinds
  /\ \/ /\ run[r].status = "absent"
        /\ run' = [run EXCEPT ![r] = NewRow("direct")]
     \/ /\ run[r].status # "absent"
        /\ run[r].kind = "direct" /\ run[r].version < MaxVersion
        /\ UNCHANGED run
  /\ Begin(q, "direct", "begin", r)
  /\ UNCHANGED <<ckpt, calls, rest>>

\* updateRun(queued, running); a conflict is caught below as any other error.
DirectBegin(q) ==
  /\ At(q, {"direct"}, "begin")
  /\ \/ UpdateRun(Of(q), "queued", "running") /\ Goto(q, "propose")
     \/ run[Of(q)].status # "queued" /\ UNCHANGED run /\ Goto(q, "undo")
  /\ UNCHANGED <<ckpt, calls, rest>>

\* The proposed call waits for an approval: saveRunCheckpoint(expectedRevision 0)
\* and then updateRun(running, waiting_approval).
DirectSaveWait(q) ==
  /\ At(q, {"direct"}, "saveWait")
  /\ Save(q, "awaiting_approval", 0, task[q].call, {}, FALSE)
  /\ Goto(q, "wait")
  /\ UNCHANGED <<run, calls, rest>>

DirectWait(q) ==
  /\ At(q, {"direct"}, "wait")
  /\ \/ UpdateRun(Of(q), "running", "waiting_approval") /\ Done(q)
     \/ run[Of(q)].status # "running" /\ UNCHANGED run /\ Goto(q, "undo")
  /\ UNCHANGED <<ckpt, calls, rest>>

\* The call has an outcome: updateRun(running, failed | queued | completed).
DirectEnd(q) ==
  /\ At(q, {"direct"}, "end")
  /\ \/ UpdateRun(Of(q), "running", task[q].out) /\ Done(q)
     \/ run[Of(q)].status # "running" /\ UNCHANGED run /\ Goto(q, "undo")
  /\ UNCHANGED <<ckpt, calls, rest>>

\* catch: updateRun(running, failed) and, if that conflicts, (queued, failed).
DirectUndo(q) ==
  /\ At(q, {"direct"}, "undo")
  /\ \/ UpdateRun(Of(q), "running", "failed") /\ Done(q)
     \/ run[Of(q)].status # "running" /\ UNCHANGED run /\ Goto(q, "undoQueued")
  /\ UNCHANGED <<ckpt, calls, rest>>

DirectUndoQueued(q) ==
  /\ At(q, {"direct"}, "undoQueued")
  /\ \/ UpdateRun(Of(q), "queued", "failed")
     \/ run[Of(q)].status # "queued" /\ UNCHANGED run
  /\ Done(q)
  /\ UNCHANGED <<ckpt, calls, rest>>

-----------------------------------------------------------------------------
(* One platform tool call, by a loop, a tool action or an approval.        *)

IsNextCall(r, c) ==
  /\ calls[r][c].status = "absent"
  /\ \A d \in CallIds : d < c => calls[r][d].status # "absent"

LastWrite(r, c) ==
  /\ calls[r][c].write
  /\ \A d \in CallIds : calls[r][d].write => d <= c

\* A call of the same logical key that propose hands back untouched.
ReusableFor(r, key) ==
  {c \in CallIds : calls[r][c].key = key /\ calls[r][c].status \in CallReusable}

\* The idempotency key of a proposal: that of the last write when this is the
\* same operation with the same arguments again, else one of its own.
MayHaveKey(r, c, shape, key) ==
  \/ key = c
  \/ \E d \in CallIds :
       /\ LastWrite(r, d) /\ key = calls[r][d].key
       /\ shape.write /\ shape.gated = calls[r][d].gated

\* What the caller of propose or resolveApproval does with the call it gets
\* back: the possible next states of the task, me, which has the call at hand.
Continue(me, call) ==
  LET end(out) == [me EXCEPT !.pc = "end", !.out = out]
      waits == call.status = "awaiting_approval"
  IN CASE me.kind = "loop" /\ waits ->
            \* the batch stops here, what it collected is dropped
            {[me EXCEPT !.pc = "park", !.owed = {}]}
       [] me.kind = "loop" /\ ~waits ->
            {[me EXCEPT !.pc = "batch",
                        !.blocked = Tracked(@, call),
                        !.owed = IF call.result = "verify" THEN @ \cup {me.call} ELSE @]}
       [] me.kind = "direct" /\ waits ->
            {[me EXCEPT !.pc = "saveWait"]}
       [] me.kind = "direct" /\ ~waits ->
            IF call.status # "succeeded" THEN {end("failed")}
            ELSE CASE call.result = "verify" -> {end("queued")}
                   [] call.result = "blind"  -> {end("queued"), end("failed")}
                   [] OTHER -> {end("completed")}
       [] OTHER -> {[me EXCEPT !.pc = "release"]}

AfterCall(t, c, call) == Continue([task[t] EXCEPT !.call = c], call)

\* store.insert of a call nobody proposed yet.
Propose(t) ==
  /\ At(t, {"loop"}, "batch") \/ At(t, {"direct"}, "propose")
  /\ LET r == Of(t) IN
     \E c \in CallIds, key \in CallIds, shape \in CallShapes :
       /\ IsNextCall(r, c)
       /\ MayHaveKey(r, c, shape, key)
       /\ shape.write => ReusableFor(r, key) = {}
       /\ calls' = [calls EXCEPT ![r][c] =
            [NoCall EXCEPT !.status = "proposed", !.key = key,
                           !.write = shape.write, !.gated = shape.gated]]
       /\ task' = [task EXCEPT ![t].pc = "advance", ![t].call = c]
  /\ UNCHANGED <<run, ckpt, rest>>

\* The last write is proposed again while a call of its key is still open or
\* has succeeded: that call is returned and is not advanced.
Reuse(t) ==
  /\ At(t, {"loop"}, "batch") \/ At(t, {"direct"}, "propose")
  /\ LET r == Of(t) IN
     \E d \in CallIds :
       /\ LastWrite(r, d)
       /\ \E c \in ReusableFor(r, calls[r][d].key) :
            \E next \in AfterCall(t, c, calls[r][c]) : task' = [task EXCEPT ![t] = next]
  /\ UNCHANGED <<run, ckpt, calls, rest>>

\* ToolInterruption: required arguments are missing. A loop parks the run, a
\* tool action treats it as an error.
NeedInput(t) ==
  /\ \/ At(t, {"loop"}, "batch") /\ Goto(t, "input")
     \/ At(t, {"direct"}, "propose") /\ Goto(t, "undo")
  /\ UNCHANGED <<run, ckpt, calls, rest>>

\* The status the conditional update of the call expects.
Expected(t) == IF task[t].kind = "approve" THEN "awaiting_approval" ELSE "proposed"

\* advance with a policy that wants an approval first, or propose with invalid
\* arguments: the call leaves "proposed" without being sent.
Hold(t) ==
  /\ At(t, {"loop", "direct"}, "advance")
  /\ LET r == Of(t) c == task[t].call IN
     /\ calls[r][c].status = Expected(t)
     /\ \E status \in IF calls[r][c].gated THEN {"awaiting_approval", "failed"} ELSE {"failed"} :
          /\ calls' = [calls EXCEPT ![r][c].status = status]
          /\ \E next \in AfterCall(t, c, [calls[r][c] EXCEPT !.status = status]) :
               task' = [task EXCEPT ![t] = next]
  /\ UNCHANGED <<run, ckpt, rest>>

\* Mutant of Execute: the status of the call is set unconditionally.
ExecuteUnconditionally(t) ==
  /\ At(t, {"loop", "direct", "approve"}, "advance")
  /\ LET r == Of(t) c == task[t].call IN
     /\ calls[r][c].gated => task[t].kind = "approve"
     /\ calls' = [calls EXCEPT ![r][c].status = "running"]
  /\ Goto(t, "send")
  /\ UNCHANGED <<run, ckpt, rest>>

\* execute: transition to "running" before the request is sent.
Execute(t) ==
  /\ At(t, {"loop", "direct", "approve"}, "advance")
  /\ LET r == Of(t) c == task[t].call IN
     /\ calls[r][c].status = Expected(t)
     /\ calls[r][c].gated => task[t].kind = "approve"
     /\ calls' = [calls EXCEPT ![r][c].status = "running"]
  /\ Goto(t, "send")
  /\ UNCHANGED <<run, ckpt, rest>>

\* ai.tool_call_state_conflict: somebody else moved the call.
AdvanceConflict(t) ==
  /\ At(t, {"loop", "direct", "approve"}, "advance")
  /\ calls[Of(t)][task[t].call].status # Expected(t)
  /\ Goto(t, Recovery(t))
  /\ UNCHANGED <<run, ckpt, calls, rest>>

\* The platform's gate: the run and the call are running, and an operation that
\* requires approval has been approved.
GateOpen(t) ==
  /\ run[Of(t)].status = "running"
  /\ calls[Of(t)][task[t].call].status = "running"

\* client.execute: the request is refused, aborted, or reaches the handler of
\* the platform, whose answer may be lost. A call that was sent without approval
\* may still be told that it needs one. Only an operation the catalog declares
\* idempotent is sent again after an error; its repetitions are one effect here.
Send(t) ==
  /\ At(t, {"loop", "direct", "approve"}, "send")
  /\ LET r == Of(t) c == task[t].call call == calls[r][c] IN
     \/ /\ task' = [task EXCEPT ![t].pc = "answer", ![t].answer = "error"]
        /\ UNCHANGED calls
     \/ /\ GateOpen(t) /\ ~call.approved
        /\ task' = [task EXCEPT ![t].pc = "answer", ![t].answer = "gate"]
        /\ UNCHANGED calls
     \/ /\ GateOpen(t) /\ task[t].abort = "none"
        /\ call.gated => call.approved
        /\ calls' = [calls EXCEPT ![r][c].effects = @ + 1]
        /\ \E answer \in {"ok", "error"} :
             task' = [task EXCEPT ![t].pc = "answer", ![t].answer = answer]
  /\ UNCHANGED <<run, ckpt, rest>>

\* finish or fail: the conditional update of a call that is still running.
Receive(t) ==
  /\ At(t, {"loop", "direct", "approve"}, "answer")
  /\ LET r == Of(t) c == task[t].call call == calls[r][c]
         status == CASE task[t].answer = "ok"   -> "succeeded"
                     [] task[t].answer = "gate" -> "awaiting_approval"
                     [] OTHER -> "failed"
     IN /\ call.status = "running"
        /\ \E result \in IF status # "succeeded" THEN {"none"}
                         ELSE IF call.write THEN {"verify", "blind", "done"}
                         ELSE {"done"} :
             LET after == [call EXCEPT !.status = status, !.result = result]
             IN /\ calls' = [calls EXCEPT ![r][c] = after]
                /\ \E next \in AfterCall(t, c, after) : task' = [task EXCEPT ![t] = next]
  /\ UNCHANGED <<run, ckpt, rest>>

\* The call was canceled meanwhile: an aborted request returns it as it is, a
\* response that did arrive runs into the conditional update.
ReceiveCanceled(t) ==
  /\ At(t, {"loop", "direct", "approve"}, "answer")
  /\ LET r == Of(t) c == task[t].call IN
     /\ calls[r][c].status # "running"
     /\ \/ /\ task[t].answer = "error" /\ task[t].abort # "none"
           /\ calls[r][c].status = "canceled"
           /\ \E next \in AfterCall(t, c, calls[r][c]) : task' = [task EXCEPT ![t] = next]
        \/ Goto(t, Recovery(t))
  /\ UNCHANGED <<run, ckpt, calls, rest>>

-----------------------------------------------------------------------------
(* Requests about an existing run.                                         *)

\* POST .../approvals/:toolCallId/decision, the reads of the handler.
AcceptDecision(q, r, c, decision) ==
  /\ mode # "down"
  /\ decision \in RequestKinds
  /\ run[r].status = "waiting_approval" /\ run[r].version < MaxVersion
  /\ calls[r][c].status # "absent"
  /\ task[q] = Idle
  /\ task' = [task EXCEPT ![q] =
       [Idle EXCEPT !.kind = decision, !.run = r, !.call = c,
                    !.pc = IF decision = "approve" THEN "grant" ELSE "resolve"]]
  /\ UNCHANGED <<run, ckpt, calls, rest>>

\* approve: the run has to be running while the platform executes the call.
ApproveGrant(q) ==
  /\ At(q, {"approve"}, "grant")
  /\ \/ UpdateRun(Of(q), "waiting_approval", "running") /\ Goto(q, "resolve")
     \/ run[Of(q)].status # "waiting_approval" /\ UNCHANGED run /\ Done(q)
  /\ UNCHANGED <<ckpt, calls, rest>>

\* resolveApproval(approve): the decision is written on an awaiting call.
ApproveResolve(q) ==
  /\ At(q, {"approve"}, "resolve")
  /\ LET r == Of(q) c == task[q].call IN
     \/ /\ calls[r][c].status = "awaiting_approval"
        /\ calls' = [calls EXCEPT ![r][c].approved = TRUE]
        /\ Goto(q, "advance")
     \/ /\ calls[r][c].status # "awaiting_approval"
        /\ UNCHANGED calls
        /\ Goto(q, "release")
  /\ UNCHANGED <<run, ckpt, rest>>

\* updateRun(running, queued), after the call as well as in the catch block.
ApproveRelease(q) ==
  /\ At(q, {"approve"}, "release")
  /\ \/ UpdateRun(Of(q), "running", "queued")
     \/ run[Of(q)].status # "running" /\ UNCHANGED run
  /\ Done(q)
  /\ UNCHANGED <<ckpt, calls, rest>>

\* Mutant of RejectResolve: the call does not have to await an approval.
RejectAnyCall(q) ==
  /\ At(q, {"reject"}, "resolve")
  /\ calls' = [calls EXCEPT ![Of(q)][task[q].call].status = "rejected"]
  /\ Goto(q, "requeue")
  /\ UNCHANGED <<run, ckpt, rest>>

\* resolveApproval(reject), then updateRun(waiting_approval, queued).
RejectResolve(q) ==
  /\ At(q, {"reject"}, "resolve")
  /\ LET r == Of(q) c == task[q].call IN
     \/ /\ calls[r][c].status = "awaiting_approval"
        /\ calls' = [calls EXCEPT ![r][c].status = "rejected"]
        /\ Goto(q, "requeue")
     \/ /\ calls[r][c].status # "awaiting_approval"
        /\ UNCHANGED calls
        /\ Done(q)
  /\ UNCHANGED <<run, ckpt, rest>>

RejectQueue(q) ==
  /\ At(q, {"reject"}, "requeue")
  /\ \/ UpdateRun(Of(q), "waiting_approval", "queued")
     \/ run[Of(q)].status # "waiting_approval" /\ UNCHANGED run
  /\ Done(q)
  /\ UNCHANGED <<ckpt, calls, rest>>

\* POST .../input for the version the client saw.
AcceptInput(q, r) ==
  /\ mode # "down"
  /\ "input" \in RequestKinds
  /\ run[r].status = "waiting_input"
  /\ Begin(q, "input", "inputQueue", r)
  /\ UNCHANGED <<run, ckpt, calls, rest>>

InputQueue(q) ==
  /\ At(q, {"input"}, "inputQueue")
  /\ \/ UpdateRun(Of(q), "waiting_input", "queued")
     \/ run[Of(q)].status # "waiting_input" /\ UNCHANGED run
  /\ Done(q)
  /\ UNCHANGED <<ckpt, calls, rest>>

\* POST .../cancel: the run is read and is not terminal.
AcceptCancel(q, r) ==
  /\ mode # "down"
  /\ "cancel" \in RequestKinds
  /\ run[r].status # "absent" /\ ~IsTerminal(run[r])
  /\ Begin(q, "cancel", "owned", r)
  /\ UNCHANGED <<run, ckpt, calls, rest>>

\* Aborting reaches the registered loop of the run and every tool execution of
\* a request for it; the first reason given to an AbortController stays.
Reached(r) ==
  {t \in Tasks : /\ Of(t) = r
                 /\ \/ controller[r] = t
                    \/ t \in Requests /\ task[t].pc \in {"advance", "send", "answer"}}

Aborted(t, reason) ==
  IF task[t].abort = "none" THEN [task[t] EXCEPT !.abort = reason] ELSE task[t]

AbortRun(q, r) ==
  task' = [t \in Tasks |-> IF t = q THEN Idle
                           ELSE IF t \in Reached(r) THEN Aborted(t, "canceled")
                           ELSE task[t]]

\* cancelExecuting: a loop that registered itself is aborted and is left to
\* write the terminal state; otherwise the handler cancels the row itself.
CancelOwned(q) ==
  /\ At(q, {"cancel"}, "owned")
  /\ \/ controller[Of(q)] # NoTask /\ AbortRun(q, Of(q))
     \/ controller[Of(q)] = NoTask /\ Goto(q, "cancelRow")
  /\ UNCHANGED <<run, ckpt, calls, rest>>

\* Mutant of CancelRun: every call is canceled, the settled ones too.
CancelEveryCall(r) ==
  /\ ~IsTerminal(run[r])
  /\ SetRun(r, "canceled")
  /\ calls' = [calls EXCEPT ![r] = [c \in CallIds |->
       IF @[c].status = "absent" THEN @[c] ELSE [@[c] EXCEPT !.status = "canceled"]]]

\* Mutant of CancelRun: the status of the run is not in the where clause.
CancelAnyRun(r) ==
  /\ SetRun(r, "canceled")
  /\ UNCHANGED calls

\* cancelRun: the row and its unsettled calls in one transaction.
CancelRun(r) ==
  /\ ~IsTerminal(run[r])
  /\ SetRun(r, "canceled")
  /\ calls' = [calls EXCEPT ![r] = [c \in CallIds |->
       IF @[c].status \in CallSettled \cup {"absent"} THEN @[c]
       ELSE [@[c] EXCEPT !.status = "canceled"]]]

CancelRow(q) ==
  /\ At(q, {"cancel"}, "cancelRow")
  /\ \/ CancelRun(Of(q)) /\ Goto(q, "signal")
     \/ /\ IsTerminal(run[Of(q)])
        /\ IF run[Of(q)].status = "canceled" THEN Goto(q, "signal") ELSE Done(q)
        /\ UNCHANGED <<run, calls>>
  /\ UNCHANGED <<ckpt, rest>>

\* The canceled row is committed, aborting what still runs is best effort.
CancelSignal(q) ==
  /\ At(q, {"cancel"}, "signal")
  /\ AbortRun(q, Of(q))
  /\ UNCHANGED <<run, ckpt, calls, rest>>

-----------------------------------------------------------------------------
(* A loop takes a run.                                                     *)

\* claimNextQueuedRun: FOR UPDATE SKIP LOCKED hands out any queued run that
\* nobody else is claiming.
Claim(t, r) ==
  /\ mode = "serving"
  /\ task[t] = Idle
  /\ UpdateRun(r, "queued", "running")
  /\ task' = [task EXCEPT ![t] =
       [Idle EXCEPT !.kind = "loop", !.pc = "register", !.run = r,
                    !.ver = run[r].version + 1]]
  /\ UNCHANGED <<ckpt, calls, rest>>

\* controllers.set(run.id, ...) after the transaction has returned.
Register(t) ==
  /\ At(t, {"loop"}, "register")
  /\ controller' = [controller EXCEPT ![Of(t)] = t]
  /\ Goto(t, "admit")
  /\ UNCHANGED <<run, ckpt, calls, mode, recon, restarts, outages, requeues, batches>>

ActiveRuns == {r \in Runs : IsActive(run[r])}

\* The quota check; failBeforeExecution when the catalog snapshot is unusable.
Admit(t) ==
  /\ At(t, {"loop"}, "admit")
  /\ \/ /\ Cardinality(ActiveRuns) <= UserConcurrentRuns
        /\ UNCHANGED run
        /\ Goto(t, "start")
     \/ /\ Cardinality(ActiveRuns) > UserConcurrentRuns
        /\ UpdateRun(Of(t), "running", "failed")
        /\ task' = [task EXCEPT ![t].pc = "finish", ![t].out = "failed"]
     \/ /\ Cardinality(ActiveRuns) > UserConcurrentRuns => run[Of(t)].status # "running"
        /\ UNCHANGED run
        /\ Goto(t, "exhausted")
  /\ UNCHANGED <<ckpt, calls, rest>>

\* loadRunCheckpoint and resumeAction.
Start(t) ==
  /\ At(t, {"loop"}, "start")
  /\ LET cp == ckpt[Of(t)] plan == ResumePlan(cp) IN
     task' = [task EXCEPT ![t].rev = cp.rev, ![t].step = cp.step,
                ![t].owed = cp.owed, ![t].blocked = cp.blocked,
                ![t].plan = plan, ![t].call = IF plan = "await" THEN cp.pending ELSE 0,
                ![t].fenced = (plan = "finalize" /\ cp.final),
                ![t].pc = IF plan \in {"settle", "await"} THEN "settle"
                          ELSE IF plan = "verify" \/ cp.owed # {} THEN "verify"
                          ELSE "branch"]
  /\ UNCHANGED <<run, ckpt, calls, rest>>

\* The keys that block completion once the facts in ai.tool_calls have been
\* folded over those of the checkpoint, call by call.
BlockedBy(r, before) ==
  {key \in CallIds :
     LET known == {c \in CallIds : /\ calls[r][c].write /\ calls[r][c].key = key
                                   /\ calls[r][c].status \in {"succeeded", "failed"}}
     IN IF known = {} THEN key \in before
        ELSE \E c \in known : /\ \A d \in known : d <= c
                              /\ key \in Tracked({}, calls[r][c])}

\* Mutant of OwedBy: a resumed run trusts its checkpoint alone.
OwedByNone(r) == {}

\* The accepted writes that were never read back.
OwedBy(r) ==
  {c \in CallIds : /\ calls[r][c].status = "succeeded" /\ calls[r][c].result = "verify"
                   /\ ~calls[r][c].verified}

Awaiting(r) == {c \in CallIds : calls[r][c].status = "awaiting_approval"}

\* The call to wait for: the first that awaits an approval, else the given one.
FirstAwaiting(r, call) ==
  IF Awaiting(r) = {} THEN {call}
  ELSE {c \in Awaiting(r) : \A d \in Awaiting(r) : c <= d}

\* Mutant of Settle: a call that is still "running" is passed over.
SettleRunning(t) ==
  /\ At(t, {"loop"}, "settle")
  /\ LET owed == task[t].owed \cup OwedBy(Of(t)) IN
     task' = [task EXCEPT ![t].owed = owed, ![t].blocked = BlockedBy(Of(t), @),
                          ![t].pc = IF owed = {} THEN "branch" ELSE "verify"]
  /\ UNCHANGED <<run, ckpt, calls, rest>>

\* recoverInterruptedBatch: a call that is still "running" may have reached the
\* platform, so the run fails rather than sending it again.
Settle(t) ==
  /\ At(t, {"loop"}, "settle")
  /\ LET r == Of(t) owed == task[t].owed \cup OwedBy(r) IN
     \/ /\ \E c \in CallIds : calls[r][c].status = "running"
        /\ Goto(t, "fail")
     \/ /\ ~\E c \in CallIds : calls[r][c].status = "running"
        /\ \E c \in FirstAwaiting(r, task[t].call) :
             task' = [task EXCEPT ![t].owed = owed, ![t].call = c,
                        ![t].blocked = BlockedBy(r, @),
                        ![t].pc = IF owed = {} THEN "branch" ELSE "verify"]
  /\ UNCHANGED <<run, ckpt, calls, rest>>

-----------------------------------------------------------------------------
(* Reading accepted writes back: settleVerifications.                      *)

\* The catch block of RunLoop goes by the reason of the abort. A request to the
\* model or a read back does not start once the signal has fired.
AbortPc(t) ==
  CASE task[t].abort = "canceled" -> "cancel"
    [] task[t].abort = "stopping" -> "interrupt"
    [] OTHER -> "fail"

Verify(t) ==
  /\ At(t, {"loop"}, "verify")
  /\ \/ /\ task[t].owed = {}
        /\ Goto(t, "branch")
        /\ UNCHANGED ckpt
     \/ /\ task[t].owed # {}
        /\ Save(t, "verification", task[t].step, 0, task[t].owed, FALSE)
        /\ task' = [task EXCEPT ![t].pc = IF task[t].abort = "none" THEN "check" ELSE AbortPc(t),
                               ![t].rev = @ + 1]
  /\ UNCHANGED <<run, calls, rest>>

\* The read says the write took effect.
CheckVerified(t) ==
  /\ At(t, {"loop"}, "check")
  /\ run[Of(t)].status = "running"
  /\ \E c \in task[t].owed :
       /\ calls' = [calls EXCEPT ![Of(t)][c].verified = TRUE]
       /\ task' = [task EXCEPT ![t].pc = "verify", ![t].owed = @ \ {c},
                               ![t].blocked = @ \ {calls[Of(t)][c].key}]
  /\ UNCHANGED <<run, ckpt, rest>>

\* Not yet: phase waiting_external, and another read after a delay.
CheckPending(t) ==
  /\ At(t, {"loop"}, "check")
  /\ task[t].rev < MaxRevision
  /\ Save(t, "waiting_external", task[t].step, 0, task[t].owed, FALSE)
  /\ task' = [task EXCEPT ![t].pc = "verify", ![t].rev = @ + 1]
  /\ UNCHANGED <<run, calls, rest>>

\* The read fails, or shows that the write failed.
CheckFailed(t) ==
  /\ At(t, {"loop"}, "check")
  /\ Goto(t, "fail")
  /\ UNCHANGED <<run, ckpt, calls, rest>>

-----------------------------------------------------------------------------
(* The graph of one loop: what it does between two checkpoints.            *)

\* Stops the loop's work for a reason the catch block of RunLoop handles.
StopFor(t, pc, fenced) == task' = [task EXCEPT ![t].pc = pc, ![t].fenced = fenced]

\* A tool action has one call: it has failed, still has to be read back, or
\* ends the run.
BranchDirect(t) ==
  LET r == Of(t)
      call == IF MaxToolCalls = 0 THEN NoCall ELSE calls[r][1]
      blocked == Tracked(task[t].blocked, call)
      recheck == /\ ~task[t].rechecked
                 /\ call.status = "succeeded" /\ call.result = "verify"
  IN /\ run[r].kind = "direct"
     /\ \/ /\ call.status \in {"absent", "failed", "rejected", "proposed", "running"}
           /\ StopFor(t, "fail", FALSE)
           /\ UNCHANGED ckpt
        \/ /\ recheck
           /\ task' = [task EXCEPT ![t].owed = {1}, ![t].rechecked = TRUE,
                                   ![t].blocked = blocked, ![t].pc = "verify"]
           /\ UNCHANGED ckpt
        \/ /\ call.status \in {"awaiting_approval", "canceled", "succeeded"} /\ ~recheck
           /\ blocked # {}
           /\ StopFor(t, "fail", FALSE)
           /\ UNCHANGED ckpt
        \/ /\ call.status \in {"awaiting_approval", "canceled", "succeeded"} /\ ~recheck
           /\ blocked = {}
           /\ Save(t, "finalizing", task[t].step, 0, task[t].owed, FALSE)
           /\ task' = [task EXCEPT ![t].pc = "commit", ![t].rev = @ + 1,
                ![t].blocked = blocked, ![t].fenced = FALSE,
                ![t].out = IF call.status = "canceled" THEN "failed" ELSE "completed"]

\* resumeToolCall of the call the checkpoint or the batch waits for, and what
\* follows when there is none.
BranchModel(t) ==
  LET r == Of(t) c == task[t].call
      status == IF c = 0 THEN "absent" ELSE calls[r][c].status
  IN /\ run[r].kind = "model"
     /\ \/ /\ status = "awaiting_approval"
           /\ Goto(t, "park")
        \/ /\ status \in {"proposed", "running"}
           /\ StopFor(t, "fail", FALSE)
        \/ /\ status \in CallSettled \cup {"absent"}
           /\ task' = [task EXCEPT ![t].call = 0,
                         ![t].pc = IF task[t].plan = "finalize" THEN "finalize" ELSE "model"]
     /\ UNCHANGED ckpt

Branch(t) ==
  /\ At(t, {"loop"}, "branch")
  /\ BranchDirect(t) \/ BranchModel(t)
  /\ UNCHANGED <<run, calls, rest>>

\* The head of the model loop, up to the request to the model.
Model(t) ==
  /\ At(t, {"loop"}, "model")
  /\ \/ /\ task[t].step >= MaxModelSteps
        /\ StopFor(t, "fail", FALSE)
        /\ UNCHANGED ckpt
     \/ /\ task[t].step < MaxModelSteps
        /\ Save(t, "model", task[t].step, 0, task[t].owed, FALSE)
        /\ task' = [task EXCEPT ![t].rev = @ + 1,
                      ![t].pc = IF task[t].abort = "none" THEN "stream" ELSE AbortPc(t),
                      ![t].fenced = (task[t].abort # "none")]
  /\ UNCHANGED <<run, calls, rest>>

\* persistRunStreamBatch: the session writes only while the run is running at
\* the version the loop claimed.
FenceOpen(t) == run[Of(t)].status = "running" /\ run[Of(t)].version = task[t].ver

\* The model's decision. A final answer keeps the session open for the terminal
\* batch, any other decision commits it.
Decide(t) ==
  /\ At(t, {"loop"}, "stream")
  /\ FenceOpen(t)
  /\ \/ Goto(t, "tools")
     \/ task' = [task EXCEPT ![t].pc = "model", ![t].step = @ + 1]
     \/ StopFor(t, "fail", FALSE)
     \/ task' = [task EXCEPT ![t].pc = "finalize", ![t].fenced = TRUE]
  /\ UNCHANGED <<run, ckpt, calls, rest>>

\* The provider fails, or a batch of the session does not pass the fence: the
\* session stays open for the terminal batch.
StreamError(t) ==
  /\ At(t, {"loop"}, "stream")
  /\ StopFor(t, "fail", TRUE)
  /\ UNCHANGED <<run, ckpt, calls, rest>>

\* The signal fires while the model streams or a write is read back.
AbortSeen(t) ==
  /\ \/ At(t, {"loop"}, "stream")
     \/ At(t, {"loop"}, "check")
  /\ task[t].abort # "none"
  /\ StopFor(t, AbortPc(t), task[t].pc = "stream")
  /\ UNCHANGED <<run, ckpt, calls, rest>>

\* Mutant of Tools: the checkpoint keeps the model step of before the batch.
ToolsKeepStep(t) ==
  /\ At(t, {"loop"}, "tools")
  /\ Save(t, "tool_execution", task[t].step, 0, task[t].owed, FALSE)
  /\ task' = [task EXCEPT ![t].pc = "batch", ![t].rev = @ + 1, ![t].call = 0]
  /\ batches' = [batches EXCEPT ![Of(t)] = @ + 1]
  /\ UNCHANGED <<run, calls, controller, mode, recon, restarts, outages, requeues>>

Tools(t) ==
  /\ At(t, {"loop"}, "tools")
  /\ Save(t, "tool_execution", task[t].step + 1, 0, task[t].owed, FALSE)
  /\ task' = [task EXCEPT ![t].pc = "batch", ![t].rev = @ + 1,
                          ![t].step = @ + 1, ![t].call = 0]
  /\ batches' = [batches EXCEPT ![Of(t)] = @ + 1]
  /\ UNCHANGED <<run, calls, controller, mode, recon, restarts, outages, requeues>>

\* Every call of the batch has been proposed, or was stopped by the loop guard.
BatchEnd(t) ==
  /\ At(t, {"loop"}, "batch")
  /\ task' = [task EXCEPT ![t].call = 0,
                ![t].pc = IF task[t].owed = {} THEN "model" ELSE "verify"]
  /\ UNCHANGED <<run, ckpt, calls, rest>>

\* A batch that only showed an interactive card completes the run.
BatchComplete(t) ==
  /\ At(t, {"loop"}, "batch")
  /\ task[t].call = 0 /\ task[t].owed = {}
  /\ StopFor(t, "finalize", FALSE)
  /\ UNCHANGED <<run, ckpt, calls, rest>>

-----------------------------------------------------------------------------
(* How a loop ends.                                                        *)

\* phase awaiting_approval first, then updateRun(running, waiting_approval).
Park(t) ==
  /\ At(t, {"loop"}, "park")
  /\ Save(t, "awaiting_approval", task[t].step, task[t].call, task[t].owed, FALSE)
  /\ task' = [task EXCEPT ![t].pc = "parkRun", ![t].rev = @ + 1]
  /\ UNCHANGED <<run, calls, rest>>

ParkRun(t) ==
  /\ At(t, {"loop"}, "parkRun")
  /\ \/ /\ UpdateRun(Of(t), "running", "waiting_approval")
        /\ task' = [task EXCEPT ![t].pc = "finish", ![t].out = "waiting_approval"]
     \/ /\ run[Of(t)].status # "running"
        /\ UNCHANGED run
        /\ StopFor(t, IF run[Of(t)].status = "canceled" THEN "cancel" ELSE "fail", FALSE)
  /\ UNCHANGED <<ckpt, calls, rest>>

\* The catch block for ToolInterruption: phase awaiting_input, then
\* updateRun(running, waiting_input).
Input(t) ==
  /\ At(t, {"loop"}, "input")
  /\ Save(t, "awaiting_input", task[t].step, 0, task[t].owed, FALSE)
  /\ task' = [task EXCEPT ![t].pc = "inputRun", ![t].rev = @ + 1]
  /\ UNCHANGED <<run, calls, rest>>

InputRun(t) ==
  /\ At(t, {"loop"}, "inputRun")
  /\ \/ /\ UpdateRun(Of(t), "running", "waiting_input")
        /\ task' = [task EXCEPT ![t].pc = "finish", ![t].out = "waiting_input"]
     \/ /\ run[Of(t)].status # "running"
        /\ UNCHANGED run
        /\ Goto(t, "exhausted")
  /\ UNCHANGED <<ckpt, calls, rest>>

\* pendingTerminal of a loop that does not commit yet. A final answer that was
\* found in the checkpoint has no session before it is committed.
OpenSession(t) ==
  task[t].pc = "finalize" /\ task[t].fenced /\ task[t].plan # "finalize"

\* assertCompletionAllowed, then phase finalizing with the final answer if there
\* is one.
Finalize(t) ==
  /\ At(t, {"loop"}, "finalize")
  /\ \/ /\ task[t].blocked # {}
        /\ StopFor(t, "fail", OpenSession(t))
        /\ UNCHANGED ckpt
     \/ /\ task[t].blocked = {}
        /\ Save(t, "finalizing", task[t].step, 0, task[t].owed, task[t].fenced)
        /\ task' = [task EXCEPT ![t].pc = "commit", ![t].rev = @ + 1, ![t].out = "completed"]
  /\ UNCHANGED <<run, calls, rest>>

\* Mutant of Terminate: a lost race still reports what was intended.
TerminateBlindly(t, to) ==
  LET r == Of(t)
      may == IF task[t].fenced THEN FenceOpen(t) ELSE run[r].status = "running"
  IN /\ IF may THEN SetRun(r, to) ELSE UNCHANGED run
     /\ task' = [task EXCEPT ![t].pc = "finish", ![t].out = to]
     /\ UNCHANGED <<ckpt, calls, rest>>

\* commitTerminal of finalize.ts: the terminal batch of an open session is
\* fenced, updateRun is not; losing against a terminal status reports that one.
Terminate(t, to) ==
  LET r == Of(t)
      may == IF task[t].fenced THEN FenceOpen(t) ELSE run[r].status = "running"
  IN /\ \/ /\ may
           /\ SetRun(r, to)
           /\ task' = [task EXCEPT ![t].pc = "finish", ![t].out = to]
        \/ /\ ~may /\ IsTerminal(run[r])
           /\ UNCHANGED run
           /\ task' = [task EXCEPT ![t].pc = "finish", ![t].out = run[r].status]
        \/ /\ ~may /\ ~IsTerminal(run[r])
           /\ UNCHANGED run
           /\ Goto(t, "exhausted")
     /\ UNCHANGED <<ckpt, calls, rest>>

Commit(t) == At(t, {"loop"}, "commit") /\ Terminate(t, task[t].out)

Interrupt(t) == At(t, {"loop"}, "interrupt") /\ Terminate(t, "interrupted")

Fail(t) == At(t, {"loop"}, "fail") /\ Terminate(t, "failed")

\* finalizer.cancel: without a session it cancels the row like the handler does;
\* cancelRun also hands back a run that is terminal already.
Cancel(t) ==
  /\ At(t, {"loop"}, "cancel")
  /\ \/ task[t].fenced /\ Terminate(t, "canceled")
     \/ /\ ~task[t].fenced
        /\ \/ CancelRun(Of(t))
           \/ IsTerminal(run[Of(t)]) /\ UNCHANGED <<run, calls>>
        /\ task' = [task EXCEPT ![t].pc = "finish", ![t].out = "canceled"]
        /\ UNCHANGED <<ckpt, rest>>

\* The steps that save a checkpoint, and where RunCheckpointConflictError leads.
SavingPcs == {"verify", "check", "model", "tools", "park", "input", "finalize", "branch"}

CheckpointConflict(t) ==
  /\ task[t].kind \in {"loop", "direct"}
  /\ SaveConflicts(ckpt[Of(t)], task[t].rev)
  /\ \/ /\ task[t].kind = "loop" /\ task[t].pc \in SavingPcs
        /\ task[t].pc = "verify" => task[t].owed # {}
        /\ task[t].pc = "branch" => run[Of(t)].kind = "direct"
        /\ StopFor(t, IF task[t].pc = "input" THEN "exhausted" ELSE "fail",
                   OpenSession(t))
     \/ At(t, {"direct"}, "saveWait") /\ Goto(t, "undo")
  /\ UNCHANGED <<run, ckpt, calls, rest>>

\* terminalPersistenceExhausted: interruptOrphanedRun at the claimed version and,
\* if that is not the stored one, at the version read back.
Exhausted(t) ==
  /\ At(t, {"loop"}, "exhausted")
  /\ \/ UpdateRun(Of(t), "running", "interrupted")
     \/ run[Of(t)].status # "running" /\ UNCHANGED run
  /\ task' = [task EXCEPT ![t].pc = "finish", ![t].out = "absent"]
  /\ UNCHANGED <<ckpt, calls, rest>>

\* The finally block: controllers.delete(run.id), whoever registered it.
Finish(t) ==
  /\ At(t, {"loop"}, "finish")
  /\ controller' = [controller EXCEPT ![Of(t)] = NoTask]
  /\ Done(t)
  /\ UNCHANGED <<run, ckpt, calls, mode, recon, restarts, outages, requeues, batches>>

\* The run's timer. It matters where the signal is looked at.
Timeout(t) ==
  /\ task[t].kind = "loop" /\ task[t].pc \in {"send", "answer", "stream", "check"}
  /\ task[t].abort = "none"
  /\ task' = [task EXCEPT ![t].abort = "timeout"]
  /\ UNCHANGED <<run, ckpt, calls, rest>>

\* The statement a task is about to execute fails on the database.
EndingPcs == {"admit", "commit", "cancel", "interrupt", "fail", "input", "inputRun"}

Outage(t) ==
  /\ outages < MaxOutages
  /\ task[t] # Idle /\ task[t].pc \notin {"register", "finish", "send"}
  /\ outages' = outages + 1
  /\ \/ /\ task[t].kind = "loop"
        /\ \E fenced \in IF task[t].pc = "stream" THEN BOOLEAN ELSE {OpenSession(t)} :
             task' = [task EXCEPT ![t].fenced = fenced, ![t].out = "absent",
                        ![t].pc = CASE task[t].pc = "exhausted" -> "finish"
                                    [] task[t].pc \in EndingPcs -> "exhausted"
                                    [] OTHER -> "fail"]
     \/ /\ task[t].kind = "direct" /\ task[t].pc \notin {"undo", "undoQueued"}
        /\ Goto(t, "undo")
     \/ /\ task[t].kind = "approve" /\ task[t].pc \notin {"grant", "release"}
        /\ Goto(t, "release")
     \/ /\ \/ task[t].kind \notin {"loop", "direct", "approve"}
           \/ task[t].pc \in {"undo", "undoQueued", "grant", "release"}
        /\ Done(t)
  /\ UNCHANGED <<run, ckpt, calls, controller, mode, recon, restarts, requeues, batches>>

-----------------------------------------------------------------------------
(* The process: start-up reconciliation, shutdown, crashes.                *)

\* executor.start() does not wait for the reconciliation, and the server begins
\* to listen right after it.
Boot ==
  /\ mode = "down"
  /\ mode' = "reconciling"
  /\ UNCHANGED <<run, ckpt, calls, task, controller, recon, restarts, outages, requeues, batches>>

ListRunning ==
  /\ mode = "reconciling" /\ ~recon.listed
  /\ recon' = [listed |-> TRUE, clean |-> TRUE,
               todo |-> {<<r, run[r].version>> : r \in {x \in Runs : run[x].status = "running"}}]
  /\ UNCHANGED <<run, ckpt, calls, task, controller, mode, restarts, outages, requeues, batches>>

\* recoverOrphanedRun: with a checkpoint and recoveries left the run goes back
\* to the queue, otherwise it is interrupted; a row that is no longer running at
\* the listed version is skipped.
RecoverOne(r, v) ==
  /\ mode \in {"reconciling", "stopping"} /\ <<r, v>> \in recon.todo
  /\ \/ /\ run[r].status = "running" /\ run[r].version = v
        /\ ckpt[r].rev > 0 /\ ckpt[r].recoveries < MaxRecoveries
        /\ SetRun(r, "queued")
        /\ ckpt' = [ckpt EXCEPT ![r].recoveries = @ + 1, ![r].rev = @ + 1]
        /\ requeues' = [requeues EXCEPT ![r] = @ + 1]
        /\ recon' = [recon EXCEPT !.todo = @ \ {<<r, v>>}]
     \/ /\ run[r].status = "running" /\ run[r].version = v
        /\ ckpt[r].rev = 0 \/ ckpt[r].recoveries >= MaxRecoveries
        /\ SetRun(r, "interrupted")
        /\ recon' = [recon EXCEPT !.todo = @ \ {<<r, v>>}]
        /\ UNCHANGED <<ckpt, requeues>>
     \/ /\ run[r].status # "running" \/ run[r].version # v
        /\ recon' = [recon EXCEPT !.todo = @ \ {<<r, v>>}, !.clean = FALSE]
        /\ UNCHANGED <<run, ckpt, requeues>>
  /\ UNCHANGED <<calls, task, controller, mode, restarts, outages, batches>>

\* Mutant of ReconcileDone: claiming starts without the pass.
ServeAtOnce ==
  /\ mode = "reconciling"
  /\ mode' = "serving"
  /\ recon' = NoRecon
  /\ UNCHANGED <<run, ckpt, calls, task, controller, restarts, outages, requeues, batches>>

\* A complete pass starts the claiming timer, any other one is repeated.
ReconcileDone ==
  /\ mode = "reconciling" /\ recon.listed /\ recon.todo = {}
  /\ mode' = IF recon.clean THEN "serving" ELSE "reconciling"
  /\ recon' = NoRecon
  /\ UNCHANGED <<run, ckpt, calls, task, controller, restarts, outages, requeues, batches>>

\* executor.stop(): no more claims, registered loops and tool executions are
\* aborted. The server still answers until the loops are done.
StopBegin ==
  /\ mode \in {"serving", "reconciling"} /\ restarts < MaxRestarts
  /\ mode' = "stopping"
  /\ task' = [t \in Tasks |-> IF t \in UNION {Reached(r) : r \in Runs}
                              THEN Aborted(t, "stopping") ELSE task[t]]
  /\ UNCHANGED <<run, ckpt, calls, controller, recon, restarts, outages, requeues, batches>>

Down ==
  /\ mode' = "down" /\ restarts' = restarts + 1
  /\ recon' = NoRecon
  /\ controller' = [r \in Runs |-> NoTask]

StopEnd ==
  /\ mode = "stopping" /\ \A t \in Tasks : task[t] = Idle
  /\ Down
  /\ UNCHANGED <<run, ckpt, calls, task, outages, requeues, batches>>

\* The process is killed: what is only in memory is gone.
Crash ==
  /\ mode # "down" /\ restarts < MaxRestarts
  /\ Down
  /\ task' = [t \in Tasks |-> Idle]
  /\ UNCHANGED <<run, ckpt, calls, outages, requeues, batches>>

-----------------------------------------------------------------------------

Request(q) ==
  \/ \E r \in Runs : AcceptToolAction(q, r) \/ AcceptInput(q, r) \/ AcceptCancel(q, r)
  \/ \E r \in Runs, c \in CallIds, decision \in {"approve", "reject"} :
       AcceptDecision(q, r, c, decision)

RequestStep(q) ==
  \/ DirectBegin(q) \/ DirectSaveWait(q) \/ DirectWait(q) \/ DirectEnd(q)
  \/ DirectUndo(q) \/ DirectUndoQueued(q)
  \/ ApproveGrant(q) \/ ApproveResolve(q) \/ ApproveRelease(q)
  \/ RejectResolve(q) \/ RejectQueue(q) \/ InputQueue(q)
  \/ CancelOwned(q) \/ CancelRow(q) \/ CancelSignal(q) \/ CheckpointConflict(q)

CallStep(t) ==
  \/ Propose(t) \/ Reuse(t) \/ NeedInput(t)
  \/ Hold(t) \/ Execute(t) \/ AdvanceConflict(t)
  \/ Send(t) \/ Receive(t) \/ ReceiveCanceled(t)

\* What a loop does on its own ...
LoopStep(t) ==
  \/ Register(t) \/ Admit(t) \/ Start(t) \/ Settle(t) \/ Verify(t)
  \/ Branch(t) \/ Model(t) \/ Tools(t) \/ BatchEnd(t)
  \/ Park(t) \/ ParkRun(t) \/ Input(t) \/ InputRun(t) \/ Finalize(t)
  \/ Commit(t) \/ Cancel(t) \/ Interrupt(t) \/ Fail(t)
  \/ Exhausted(t) \/ Finish(t) \/ AbortSeen(t) \/ CheckpointConflict(t)

\* ... and what the model and the platform decide.
LoopAnswer(t) ==
  \/ Decide(t) \/ StreamError(t) \/ BatchComplete(t)
  \/ CheckVerified(t) \/ CheckPending(t) \/ CheckFailed(t)

Process ==
  \/ Boot \/ ListRunning \/ ReconcileDone \/ StopEnd
  \/ \E row \in recon.todo : RecoverOne(row[1], row[2])

Next ==
  \/ \E r \in Runs : AcceptTurn(r)
  \/ \E q \in Requests : Request(q) \/ RequestStep(q)
  \/ \E t \in Executors, r \in Runs : Claim(t, r)
  \/ \E t \in Executors : LoopStep(t) \/ LoopAnswer(t) \/ Timeout(t)
  \/ \E t \in Tasks : CallStep(t) \/ Outage(t)
  \/ Process \/ StopBegin \/ Crash

Spec == Init /\ [][Next]_vars

\* What the event loop and the deployment guarantee: a loop or a request that
\* can take its next step takes it, requests to the platform have a time limit,
\* a run has a timer, free slots claim, and a process that is down is started
\* again. What the model answers, and when, is up to the model.
Fairness ==
  /\ \A q \in Requests : WF_vars(RequestStep(q))
  /\ \A t \in Executors : /\ WF_vars(LoopStep(t)) /\ WF_vars(Timeout(t))
                          /\ WF_vars(\E r \in Runs : Claim(t, r))
  /\ \A t \in Tasks : WF_vars(CallStep(t))
  /\ WF_vars(Process)

FairSpec == Spec /\ Fairness

-----------------------------------------------------------------------------
(* Safety.                                                                 *)

\* However often loops, approvals and restarts meet on a run, a call reaches the
\* platform's handler at most once: "running" is stored before the request is
\* sent and no code sends a call it finds in that status.
EffectAtMostOnce == \A r \in Runs, c \in CallIds : calls[r][c].effects <= 1

\* An operation that requires approval only takes effect after the user has
\* approved this very call, and never after its call was rejected.
EffectsHaveConsent ==
  \A r \in Runs, c \in CallIds :
    calls[r][c].effects > 0 =>
      /\ calls[r][c].gated => calls[r][c].approved
      /\ calls[r][c].status # "rejected"

\* A settled call keeps its status: a late response, a cancel or a second loop
\* does not rewrite what was reported to the user and the model.
CallsSettleOnce ==
  [][\A r \in Runs, c \in CallIds :
       calls[r][c].status \in CallSettled => calls'[r][c].status = calls[r][c].status]_vars

\* A run that brings the process down again and again is given up: start-up puts
\* it back in the queue at most maxRunRecoveries times in its life.
RecoveriesBounded == \A r \in Runs : requeues[r] <= MaxRecoveries

\* maxModelSteps bounds the tool batches of a run over all its resumptions. It
\* needs ApprovalHasNoRival, below: where an approval and a loop that start-up
\* requeued work on one run, each may save over the other (doc_budget.cfg).
BatchBudget == \A r \in Runs : batches[r] <= MaxModelSteps

\* A completed model run has no call under way and no write left that was accepted
\* and not read back: the batches that approvals cut short and the resumptions
\* after a crash lose none of them. (A call that was "proposed" when the process
\* went down stays so, and one that waits for the user may be forgotten, see
\* CompletedHasNoOpenCall.) It needs ApprovalHasNoRival, below, which fails while
\* a restarted agent reconciles: the runs check approvals without restarts, and
\* restarts without approvals.
CompletedMeansSettled ==
  \A r \in Runs : run[r].status = "completed" /\ run[r].kind = "model" =>
    \A c \in CallIds :
      /\ calls[r][c].status # "running"
      /\ calls[r][c].result = "verify" => calls[r][c].verified

\* A loop that reports a terminal outcome reports the stored one.
OutcomeIsStored ==
  \A t \in Executors : At(t, {"loop"}, "finish") /\ task[t].out \in Terminal \ {"canceled"} =>
    run[Of(t)].status = task[t].out

\* The runs of one user that loops carry on with past the quota check, however
\* many of them claimed and counted at once.
Admitted == {r \in Runs : \E t \in Executors :
               /\ Of(t) = r /\ FenceOpen(t)
               /\ task[t].pc \notin {"register", "admit", "exhausted", "finish"}}

UserQuotaHolds == Cardinality(Admitted) <= UserConcurrentRuns

\* A run that waits for an approval nobody is handling has a call to approve.
ApprovalHasCall ==
  \A r \in Runs :
    /\ run[r].status = "waiting_approval"
    /\ ~\E q \in Requests : Of(q) = r /\ task[q].kind \in {"approve", "reject", "direct"}
    => Awaiting(r) # {}

\* The rows of ai.runs only ever move the way RunLifecycle allows, whichever of
\* the handlers, loops and recoveries writes them and in whatever order.
Lifecycle == INSTANCE RunLifecycle

RunsFollowLifecycle == Lifecycle!Spec

-----------------------------------------------------------------------------
(* What the repository's documents say of the program and the code does not*)
(* do; each is refuted under a configuration of its own, doc_*.cfg.        *)

\* server.ts:360-361: a run that is "running" cannot be claimed, so no executor
\* competes while a handler executes the approved call.
ApprovalHasNoRival ==
  \A q \in Requests, t \in Executors :
    /\ task[q].kind = "approve" /\ task[q].pc \in {"advance", "send", "answer"}
    /\ Of(t) = Of(q)
    => ~FenceOpen(t)

\* docs-internal/11:63-64: row_version guards the terminal write of an execution,
\* a late write does not overwrite a run that has changed.
OnlyOwnerFailsRun ==
  [][\A t \in Executors :
       task[t].kind = "loop" /\ FenceOpen(t) /\ task'[t] = task[t] =>
         run'[Of(t)].status # "failed"]_vars

\* docs-internal/14:375: completing, failing, canceling and interrupting all
\* return the terminal status the database really holds.
EveryOutcomeIsStored ==
  \A t \in Executors : At(t, {"loop"}, "finish") /\ task[t].out \in Terminal =>
    run[Of(t)].status = task[t].out

\* docs-internal/13:90: "completed" means that no tool call is suspended.
CompletedHasNoOpenCall ==
  \A r \in Runs : run[r].status = "completed" => Awaiting(r) = {}

\* docs-internal/11:60: canceling a run moves it to "canceled" first, so a loop
\* that was told to cancel never leaves the run open.
CancelIsFinal ==
  \A t \in Executors : At(t, {"loop"}, "finish") /\ task[t].abort = "canceled" =>
    IsTerminal(run[Of(t)])

\* docs-internal/11:59: a rejection ends the call and lets the model go on, so a
\* run whose call was rejected does not go on waiting for an approval.
RejectedRunGoesOn ==
  \A r \in Runs :
    /\ run[r].status = "waiting_approval"
    /\ \E c \in CallIds : calls[r][c].status = "rejected"
    /\ \A q \in Requests : Of(q) # r
    => Awaiting(r) # {}

-----------------------------------------------------------------------------
(* Liveness, under FairSpec.                                               *)

\* An accepted run is not lost: it ends, or is handed to the user, whatever the
\* model does and however often the process restarts.
RunSettles ==
  \A r \in Runs : IsActive(run[r]) ~> (IsTerminal(run[r]) \/ run[r].status \in Parked)
=============================================================================
