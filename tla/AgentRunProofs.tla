--------------------------- MODULE AgentRunProofs ---------------------------
(***************************************************************************)
(* What TLAPS proves of AgentRun for any number of runs, loops, requests,  *)
(* calls, restarts and outages.                                            *)
(*                                                                         *)
(* One inductive invariant, Inv, carries most of it. Every action is shown *)
(* once to preserve Inv, to move ai.runs only as RunLifecycle allows and to*)
(* keep settled calls (Good); the theorems after it follow from that. The  *)
(* quota and the budget of steps need to know who works on a run: the next *)
(* part goes through the actions once more (Kept), on top of Inv. What a   *)
(* completed run leaves behind needs, on top of that, what the loops and   *)
(* the checkpoints know of the calls (Settling), in the last part.         *)
(***************************************************************************)
EXTENDS AgentRun, FiniteSetTheorems, TLAPS

\* The steps that work on the call at hand, and those with a request under way.
CallPcs == {"grant", "resolve", "advance", "send", "answer"}
FlightPcs == {"send", "answer"}

\* The steps that need nothing but a run.
PlainPcs == Pcs \ (CallPcs \cup {"end", "commit", "finish"})

\* The loop is about to report that the run ended this way.
Reports(x) == x.pc = "finish" /\ x.out \in Terminal \ {"canceled"}

TaskOK(x) ==
  /\ x \in Task
  /\ x = Idle \/ x.run \in Runs
  /\ x.pc \in CallPcs => x.call \in CallIds
  /\ x.pc = "end" => x.out \in {"queued", "completed", "failed"}
  /\ x.pc = "commit" => x.out \in {"completed", "failed"}

\* A call that was not sent, or was rejected, had no effect; one that had an
\* effect had it once, with consent; only one that succeeded has a result.
CallOK(e) ==
  /\ e.write => e.key # 0
  /\ e.effects <= 1
  /\ e.status \in {"absent", "proposed", "awaiting_approval", "rejected"} => e.effects = 0
  /\ e.effects > 0 /\ e.gated => e.approved
  /\ e.result # "none" => e.status = "succeeded"

\* What a task that has a request under way knows of its call.
UnderWay(x, e) ==
  /\ e.status \in {"running"} \cup CallSettled
  /\ e.status = "running" /\ (x.pc = "send" \/ x.answer = "gate") => e.effects = 0

TasksOK == \A t \in Tasks : TaskOK(task[t])

RunsExist == \A t \in Tasks : task[t] # Idle => run[task[t].run].status # "absent"

ReportsOK == \A t \in Tasks : Reports(task[t]) => run[task[t].run].status = task[t].out

RowsOK == \A r \in Runs : run[r].status = "absent" => run[r] = NoRow

RecoveriesOK ==
  \A r \in Runs : requeues[r] = ckpt[r].recoveries /\ requeues[r] <= MaxRecoveries

CallsOK == \A r \in Runs, c \in CallIds : CallOK(calls[r][c])

SameCall(x, y) == x.run = y.run /\ x.call = y.call

FlightOK ==
  \A t \in Tasks : task[t].pc \in FlightPcs =>
    /\ UnderWay(task[t], calls[task[t].run][task[t].call])
    /\ \A u \in Tasks : task[u].pc \in FlightPcs /\ SameCall(task[t], task[u]) => u = t

Inv ==
  /\ TypeOK /\ TasksOK /\ RunsExist /\ ReportsOK
  /\ RowsOK /\ RecoveriesOK /\ CallsOK /\ FlightOK

-----------------------------------------------------------------------------
(* What a step does, variable by variable.                                 *)

SettledStay ==
  \A r \in Runs, c \in CallIds :
    calls[r][c].status \in CallSettled => calls'[r][c].status = calls[r][c].status

Good == Inv' /\ [Lifecycle!Next]_<<run, requeues>> /\ SettledStay

\* Every task keeps its run, becomes idle, or takes a run that exists.
Follows(t) ==
  /\ TaskOK(task'[t])
  /\ \/ task'[t] = Idle
     \/ task[t] # Idle /\ task'[t].run = task[t].run
     \/ run'[task'[t].run].status # "absent"
  /\ Reports(task'[t]) =>
       \/ run'[task'[t].run].status = task'[t].out
       \/ Reports(task[t]) /\ task'[t].run = task[t].run /\ task'[t].out = task[t].out

TasksStep == task' \in [Tasks -> Task] /\ \A t \in Tasks : Follows(t)

\* No request is sent, and those under way stay what they are.
Quiet ==
  \A t \in Tasks : task'[t].pc \in FlightPcs =>
    /\ task[t].pc = task'[t].pc
    /\ SameCall(task[t], task'[t])
    /\ task[t].answer = task'[t].answer

\* The requests that stay under way for a call know what they have to know of e.
Keeps(r, c, e) ==
  \A t \in Tasks : task'[t].pc \in FlightPcs /\ task[t].run = r /\ task[t].call = c =>
    UnderWay(task[t], e)

RunStep ==
  \/ UNCHANGED run
  \/ \E r \in Runs : \E to \in Lifecycle!Successors(run[r].status) : SetRun(r, to)

CkptStep ==
  /\ ckpt' \in [Runs -> Checkpoint]
  /\ \A r \in Runs : ckpt'[r].recoveries = ckpt[r].recoveries

CallsStep == calls' \in [Runs -> [CallIds -> Call]] /\ CallsOK' /\ SettledStay

RestStep ==
  /\ controller' \in [Runs -> Executors \cup {NoTask}]
  /\ mode' \in Modes
  /\ recon' \in Recon
  /\ restarts' \in Nat /\ outages' \in Nat
  /\ requeues' = requeues
  /\ batches' \in [Runs -> Nat]

-----------------------------------------------------------------------------
(* Lemmas about rows, checkpoints, calls and tasks.                        *)

\* Idle is a task without a run.
LEMMA IdleOK == TaskOK(Idle) /\ ~Reports(Idle) /\ Idle.pc \notin FlightPcs
BY DEF TaskOK, Idle, Task, Kinds, Pcs, Plans, Aborts, Answers, Statuses, CallPcs,
       FlightPcs, Reports

\* A task that is not idle has a run that exists, with a checkpoint and calls.
LEMMA Busy ==
  ASSUME Inv, NEW t \in Tasks, task[t].kind # "idle" \/ task[t].pc # "idle"
  PROVE  /\ task[t] \in Task /\ TaskOK(task[t]) /\ task[t] # Idle
         /\ task[t].run \in Runs /\ Of(t) = task[t].run
         /\ run[task[t].run] \in Row /\ run[task[t].run].status # "absent"
         /\ ckpt[task[t].run] \in Checkpoint
         /\ task[t].rev \in Nat /\ task[t].step \in Nat /\ task[t].call \in CallIds \cup {0}
         /\ task[t].owed \in SUBSET CallIds /\ task[t].blocked \in SUBSET CallIds
<1>1. task[t] # Idle
  BY DEF Idle
<1>2. task[t] \in Task /\ TaskOK(task[t]) /\ task[t].run \in Runs
  BY <1>1 DEF Inv, TasksOK, TaskOK
<1>3. /\ task[t].rev \in Nat /\ task[t].step \in Nat /\ task[t].call \in CallIds \cup {0}
      /\ task[t].owed \in SUBSET CallIds /\ task[t].blocked \in SUBSET CallIds
  BY <1>2 DEF Task
<1> QED
  BY <1>1, <1>2, <1>3 DEF Inv, TypeOK, RunsExist, Of

\* The statuses a run is moved to are statuses, and "absent" is none of them.
LEMMA SuccessorsType ==
  ASSUME NEW from
  PROVE  Lifecycle!Successors(from) \subseteq Statuses \ {"absent"}
BY DEF Lifecycle!Successors, Lifecycle!Parked, Statuses, Parked, Terminal

\* A terminal status has no successor.
LEMMA TerminalStays ==
  ASSUME NEW from \in Terminal
  PROVE  Lifecycle!Successors(from) = {}
BY DEF Lifecycle!Successors, Terminal

\* Moving a row keeps it a row, sets the status and nothing else but the version.
LEMMA MovedRow ==
  ASSUME NEW row \in Row, NEW to \in Statuses
  PROVE  Moved(row, to) \in Row /\ Moved(row, to).status = to
<1> DEFINE v == row.version + 1
<1>1. v \in Nat
  BY DEF Row
<1>2. Moved(row, to) = [row EXCEPT !.status = to, !.version = v]
  BY DEF Moved, Row
<1> HIDE DEF v
<1>3. [row EXCEPT !.status = to, !.version = v] \in Row
  BY <1>1 DEF Row
<1>4. [row EXCEPT !.status = to, !.version = v].status = to
  BY DEF Row
<1> QED
  BY <1>2, <1>3, <1>4

\* What a move of ai.runs leaves true of the rows.
LEMMA RunStepFacts ==
  ASSUME Inv, RunStep
  PROVE  /\ run' \in [Runs -> Row]
         /\ \A r \in Runs : run'[r].status = "absent" => run'[r] = run[r]
         /\ \A r \in Runs : run[r].status \in Terminal => run'[r] = run[r]
<1>1. CASE UNCHANGED run
  BY <1>1 DEF Inv, TypeOK
<1>2. CASE ~UNCHANGED run
  <2>1. PICK r \in Runs : \E to \in Lifecycle!Successors(run[r].status) : SetRun(r, to)
    BY <1>2 DEF RunStep
  <2>2. PICK to \in Lifecycle!Successors(run[r].status) : SetRun(r, to)
    BY <2>1
  <2>3. to \in Statuses \ {"absent"} /\ run[r].status \notin Terminal
    BY SuccessorsType, TerminalStays
  <2>4. run \in [Runs -> Row] /\ run[r] \in Row
    BY DEF Inv, TypeOK
  <2>5. Moved(run[r], to) \in Row /\ Moved(run[r], to).status = to
    BY <2>3, <2>4, MovedRow
  <2>6. run' = [run EXCEPT ![r] = Moved(run[r], to)]
    BY <2>2 DEF SetRun
  <2> QED
    BY <2>3, <2>4, <2>5, <2>6
<1> QED
  BY <1>1, <1>2

\* A conditional update that follows the status graph is a step of the rows.
LEMMA UpdateRunStep ==
  ASSUME NEW r \in Runs, NEW from, NEW to \in Lifecycle!Successors(from), UpdateRun(r, from, to)
  PROVE  RunStep
BY DEF RunStep, UpdateRun

\* The upsert keeps "recoveries".
LEMMA AfterSaveType ==
  ASSUME NEW cp \in Checkpoint, NEW rev \in Nat, NEW next \in Checkpoint
  PROVE  /\ AfterSave(cp, rev, next) \in Checkpoint
         /\ AfterSave(cp, rev, next).recoveries = cp.recoveries
BY DEF AfterSave, Checkpoint

\* Saving a checkpoint is a step of the checkpoints.
LEMMA SaveStep ==
  ASSUME Inv, NEW t \in Tasks, task[t] # Idle,
         NEW phase \in Phases, NEW step \in Nat, NEW pending \in CallIds \cup {0},
         NEW owed \in SUBSET CallIds, NEW final \in BOOLEAN,
         Save(t, phase, step, pending, owed, final)
  PROVE  CkptStep
<1> DEFINE next == [rev |-> task[t].rev + 1, phase |-> phase, step |-> step,
                    pending |-> pending, owed |-> owed, blocked |-> task[t].blocked,
                    final |-> final, recoveries |-> 0]
<1>1. task[t].rev \in Nat /\ task[t].blocked \in SUBSET CallIds /\ Of(t) \in Runs
  BY DEF Inv, TasksOK, TaskOK, Task, Of
<1>2. next \in Checkpoint
  BY <1>1 DEF Checkpoint
<1>3. ckpt' = [ckpt EXCEPT ![Of(t)] = AfterSave(ckpt[Of(t)], task[t].rev, next)]
  BY DEF Save
<1> HIDE DEF next
<1> QED
  BY <1>1, <1>2, <1>3, AfterSaveType DEF Inv, TypeOK, CkptStep

\* A task that goes on with its run.
LEMMA StepTo ==
  ASSUME Inv, NEW t \in Tasks, task[t] # Idle, NEW y \in Task,
         y.run = task[t].run, y.pc \notin FlightPcs,
         y.pc \in CallPcs => y.call \in CallIds,
         y.pc = "end" => y.out \in {"queued", "completed", "failed"},
         y.pc = "commit" => y.out \in {"completed", "failed"},
         Reports(y) => run'[y.run].status = y.out,
         task' = [task EXCEPT ![t] = y]
  PROVE  TasksStep /\ Quiet
<1>1. task[t].run \in Runs /\ task \in [Tasks -> Task] /\ \A u \in Tasks : TaskOK(task[u])
  BY DEF Inv, TasksOK, TaskOK, TypeOK
<1>2. TaskOK(y)
  BY <1>1 DEF TaskOK
<1>3. task' \in [Tasks -> Task] /\ Follows(t)
  BY <1>1, <1>2 DEF Follows
<1>4. \A u \in Tasks \ {t} : Follows(u)
  BY <1>1 DEF Follows
<1> QED
  BY <1>1, <1>3, <1>4 DEF TasksStep, Quiet, SameCall

\* The same for the steps that need nothing but the run.
LEMMA PlainTo ==
  ASSUME Inv, NEW t \in Tasks, task[t] # Idle, NEW y \in Task,
         y.run = task[t].run, y.pc \in PlainPcs, task' = [task EXCEPT ![t] = y]
  PROVE  TasksStep /\ Quiet
BY StepTo DEF PlainPcs, CallPcs, FlightPcs, Reports

\* A task that only changes where it is.
LEMMA GotoStep ==
  ASSUME Inv, NEW t \in Tasks, task[t] # Idle, NEW pc \in PlainPcs, Goto(t, pc)
  PROVE  TasksStep /\ Quiet
<1> DEFINE y == [task[t] EXCEPT !.pc = pc]
<1>1. task[t] \in Task /\ pc \in Pcs
  BY DEF Inv, TypeOK, PlainPcs
<1>2. y \in Task /\ y.pc = pc /\ y.run = task[t].run
  BY <1>1 DEF Task
<1>3. task' = [task EXCEPT ![t] = y]
  BY DEF Goto
<1> HIDE DEF y
<1> QED
  BY <1>2, <1>3, PlainTo

\* ... and whether its stream session is open.
LEMMA StopForStep ==
  ASSUME Inv, NEW t \in Tasks, task[t] # Idle, NEW pc \in PlainPcs, NEW fenced \in BOOLEAN,
         StopFor(t, pc, fenced)
  PROVE  TasksStep /\ Quiet
<1> DEFINE y == [task[t] EXCEPT !.pc = pc, !.fenced = fenced]
<1>1. task[t] \in Task /\ pc \in Pcs
  BY DEF Inv, TypeOK, PlainPcs
<1>2. y \in Task /\ y.pc = pc /\ y.run = task[t].run
  BY <1>1 DEF Task
<1>3. task' = [task EXCEPT ![t] = y]
  BY DEF StopFor, Inv, TypeOK
<1> HIDE DEF y
<1> QED
  BY <1>2, <1>3, PlainTo

\* A task that ends.
LEMMA DoneStep ==
  ASSUME Inv, NEW t \in Tasks, Done(t)
  PROVE  TasksStep /\ Quiet
<1>1. task \in [Tasks -> Task] /\ \A u \in Tasks : TaskOK(task[u])
  BY DEF Inv, TasksOK, TypeOK
<1>2. Idle \in Task
  BY IdleOK DEF TaskOK
<1> QED
  BY <1>1, <1>2, IdleOK DEF Done, TasksStep, Follows, Quiet, SameCall

\* A loop that reports how it ended.
LEMMA FinishStep ==
  ASSUME Inv, NEW t \in Tasks, task[t] # Idle, NEW out \in Statuses,
         out \in Terminal \ {"canceled"} => run'[task[t].run].status = out,
         task' = [task EXCEPT ![t].pc = "finish", ![t].out = out]
  PROVE  TasksStep /\ Quiet
<1> DEFINE y == [task[t] EXCEPT !.pc = "finish", !.out = out]
<1>1. task[t] \in Task /\ "finish" \in Pcs
  BY DEF Inv, TypeOK, Pcs
<1>2. y \in Task /\ y.pc = "finish" /\ y.run = task[t].run /\ y.out = out
  BY <1>1 DEF Task
<1>3. task' = [task EXCEPT ![t] = y]
  BY DEF Inv, TypeOK
<1> HIDE DEF y
<1> QED
  BY <1>2, <1>3, StepTo DEF FlightPcs, CallPcs, Reports

\* A slot that takes a run.
LEMMA TakeStep ==
  ASSUME Inv, NEW t \in Tasks, NEW y \in Task,
         y.run \in Runs, run'[y.run].status # "absent",
         y.pc \in PlainPcs \/ (y.pc \in {"grant", "resolve"} /\ y.call \in CallIds),
         task' = [task EXCEPT ![t] = y]
  PROVE  TasksStep /\ Quiet
<1>1. task \in [Tasks -> Task] /\ \A u \in Tasks : TaskOK(task[u])
  BY DEF Inv, TasksOK, TypeOK
<1>2. TaskOK(y) /\ ~Reports(y) /\ y.pc \notin FlightPcs
  BY DEF TaskOK, PlainPcs, CallPcs, Reports, FlightPcs
<1>3. task' \in [Tasks -> Task] /\ Follows(t)
  BY <1>1, <1>2 DEF Follows
<1>4. \A u \in Tasks \ {t} : Follows(u)
  BY <1>1 DEF Follows
<1> QED
  BY <1>1, <1>2, <1>3, <1>4 DEF TasksStep, Quiet, SameCall

\* Begin, the way most requests take a run.
LEMMA BeginStep ==
  ASSUME Inv, NEW t \in Tasks, NEW kind \in Kinds, NEW pc \in PlainPcs, NEW r \in Runs,
         run'[r].status # "absent", Begin(t, kind, pc, r)
  PROVE  TasksStep /\ Quiet
<1> DEFINE y == [Idle EXCEPT !.kind = kind, !.pc = pc, !.run = r]
<1>1. Idle \in Task /\ pc \in Pcs
  BY IdleOK DEF TaskOK, PlainPcs
<1>2. y \in Task /\ y.pc = pc /\ y.run = r
  BY <1>1 DEF Task
<1>3. task' = [task EXCEPT ![t] = y]
  BY DEF Begin
<1> HIDE DEF y
<1> QED
  BY <1>2, <1>3, TakeStep

\* The calls of a step that changes none and sends none.
LEMMA SameCalls ==
  ASSUME Inv, TasksStep, Quiet, UNCHANGED calls
  PROVE  CallsStep /\ FlightOK'
<1>1. CallsStep
  BY DEF Inv, TypeOK, CallsStep, CallsOK, SettledStay
<1>2. FlightOK'
  BY DEF Inv, Quiet, FlightOK, SameCall, UnderWay
<1> QED
  BY <1>1, <1>2

\* The calls of a step that changes one and sends none.
LEMMA OneCall ==
  ASSUME Inv, TasksStep, Quiet, NEW r \in Runs, NEW c \in CallIds, NEW e \in Call,
         CallOK(e), calls' = [calls EXCEPT ![r][c] = e],
         calls[r][c].status \in CallSettled => e.status = calls[r][c].status,
         Keeps(r, c, e)
  PROVE  CallsStep /\ FlightOK'
<1>1. CallsStep
  BY DEF Inv, TypeOK, CallsStep, CallsOK, SettledStay
<1>2. ASSUME NEW t \in Tasks, task'[t].pc \in FlightPcs
      PROVE  UnderWay(task'[t], calls'[task'[t].run][task'[t].call])
  <2>1. /\ task[t].pc = task'[t].pc /\ task[t].answer = task'[t].answer
        /\ task[t].run = task'[t].run /\ task[t].call = task'[t].call
    BY <1>2 DEF Quiet, SameCall
  <2>2. task[t].run \in Runs /\ task[t].call \in CallIds
    BY <1>2, <2>1 DEF Inv, TasksOK, TaskOK, FlightPcs, CallPcs, Idle
  <2>3. UnderWay(task[t], calls[task[t].run][task[t].call])
    BY <1>2, <2>1 DEF Inv, FlightOK
  <2>4. UnderWay(task[t], calls'[task[t].run][task[t].call])
    BY <1>2, <2>2, <2>3 DEF Inv, TypeOK, Keeps
  <2> QED
    BY <2>1, <2>4 DEF UnderWay
<1>3. FlightOK'
  BY <1>2 DEF Inv, Quiet, FlightOK, SameCall
<1> QED
  BY <1>1, <1>3

\* What is not about runs, checkpoints, calls or tasks.
LEMMA SameRest ==
  ASSUME Inv, UNCHANGED rest
  PROVE  RestStep
BY DEF Inv, TypeOK, rest, RestStep

\* A checkpoint or a row that is left alone.
LEMMA SameRows ==
  ASSUME Inv
  PROVE  (UNCHANGED run => RunStep) /\ (UNCHANGED ckpt => CkptStep)
BY DEF Inv, TypeOK, RunStep, CkptStep

\* The parts of a good step, whatever it does to the rows.
LEMMA ComposeRows ==
  ASSUME Inv, TasksStep, CkptStep, CallsStep, FlightOK', RestStep,
         run' \in [Runs -> Row],
         \A r \in Runs : run'[r].status = "absent" => run'[r] = run[r],
         \A r \in Runs : run[r].status \in Terminal => run'[r] = run[r],
         [Lifecycle!Next]_<<run, requeues>>
  PROVE  Good
<1>1. TypeOK'
  BY DEF Inv, TypeOK, TasksStep, CkptStep, CallsStep, RestStep
<1>2. TasksOK'
  BY DEF TasksOK, TasksStep, Follows
<1>3. RunsExist'
  BY DEF Inv, RunsExist, TasksOK, TaskOK, TasksStep, Follows
<1>4. ReportsOK'
  <2> SUFFICES ASSUME NEW t \in Tasks, Reports(task'[t])
               PROVE  run'[task'[t].run].status = task'[t].out
    BY DEF ReportsOK
  <2>1. Follows(t) /\ task'[t] # Idle
    BY IdleOK DEF TasksStep
  <2>2. CASE Reports(task[t]) /\ task'[t].run = task[t].run /\ task'[t].out = task[t].out
    <3>1. run[task[t].run].status = task[t].out /\ task[t].out \in Terminal
      BY <2>2 DEF Inv, ReportsOK, Reports
    <3>2. task'[t].run \in Runs
      BY <2>1 DEF Follows, TaskOK
    <3> QED
      BY <2>2, <3>1, <3>2
  <2> QED
    BY <2>1, <2>2 DEF Follows
<1>5. RowsOK'
  BY DEF Inv, RowsOK
<1>6. RecoveriesOK'
  BY DEF Inv, RecoveriesOK, CkptStep, RestStep
<1> QED
  BY <1>1, <1>2, <1>3, <1>4, <1>5, <1>6 DEF Good, Inv, CallsStep

\* The parts make a good step.
LEMMA Compose ==
  ASSUME Inv, TasksStep, RunStep, CkptStep, CallsStep, FlightOK', RestStep
  PROVE  Good
<1>1. [Lifecycle!Next]_<<run, requeues>>
  BY DEF RunStep, RestStep, SetRun, Moved, Lifecycle!Next, Lifecycle!Move, Lifecycle!Moved
<1> QED
  BY <1>1, RunStepFacts, ComposeRows

-----------------------------------------------------------------------------
(* One step per action: the requests about a run.                          *)

\* A run that a request creates.
LEMMA CreateStep ==
  ASSUME Inv, NEW r \in Runs, run[r].status = "absent", NEW kind \in RunKindNames,
         run' = [run EXCEPT ![r] = NewRow(kind)], TasksStep, CkptStep, CallsStep,
         FlightOK', RestStep
  PROVE  Good
<1>1. NewRow(kind) \in Row /\ NewRow(kind).status = "queued"
  BY DEF NewRow, Row, Statuses
<1>2. /\ run' \in [Runs -> Row]
      /\ \A s \in Runs : run'[s].status = "absent" => run'[s] = run[s]
      /\ \A s \in Runs : run[s].status \in Terminal => run'[s] = run[s]
  BY <1>1 DEF Inv, TypeOK, Terminal
<1>3. run[r] = NoRow
  BY DEF Inv, RowsOK
<1>4. Lifecycle!Create(r)
  BY <1>3 DEF Lifecycle!Create, Lifecycle!NoRow, NoRow, Lifecycle!NewRow, NewRow,
              Lifecycle!RunKindNames, RunKindNames, RestStep
<1> QED
  BY <1>2, <1>4, ComposeRows DEF Lifecycle!Next

\* POST .../turns
LEMMA AcceptTurnGood ==
  ASSUME Inv, NEW r \in Runs, AcceptTurn(r)
  PROVE  Good
<1>1. TasksStep /\ Quiet
  BY DEF AcceptTurn, Inv, TypeOK, TasksOK, TasksStep, Follows, Quiet, SameCall
<1> QED
  BY <1>1, CreateStep, SameCalls, SameRows, SameRest DEF AcceptTurn, RunKindNames

\* The requests whose handlers begin.
LEMMA RequestGood ==
  ASSUME Inv, NEW q \in Requests, Request(q)
  PROVE  Good
<1>1. q \in Tasks
  BY DEF Tasks
<1>2. ASSUME NEW r \in Runs, AcceptToolAction(q, r)
      PROVE  Good
  <2>1. CASE run[r].status = "absent" /\ run' = [run EXCEPT ![r] = NewRow("direct")]
    <3>1. run'[r].status # "absent"
      BY <2>1 DEF NewRow, Inv, TypeOK
    <3>2. TasksStep /\ Quiet
      BY <1>1, <1>2, <3>1, BeginStep DEF AcceptToolAction, PlainPcs, Pcs, CallPcs, Kinds
    <3> QED
      BY <1>2, <2>1, <3>2, CreateStep, SameCalls, SameRows, SameRest
      DEF AcceptToolAction, RunKindNames
  <2>2. CASE run[r].status # "absent" /\ UNCHANGED run
    <3>1. TasksStep /\ Quiet
      BY <1>1, <1>2, <2>2, BeginStep DEF AcceptToolAction, PlainPcs, Pcs, CallPcs, Kinds
    <3> QED
      BY <1>2, <2>2, <3>1, Compose, SameCalls, SameRows, SameRest DEF AcceptToolAction
  <2> QED
    BY <1>2, <2>1, <2>2 DEF AcceptToolAction
<1>3. ASSUME NEW r \in Runs, AcceptInput(q, r)
      PROVE  Good
  <2>1. TasksStep /\ Quiet
    BY <1>1, <1>3, BeginStep DEF AcceptInput, PlainPcs, Pcs, CallPcs, Kinds
  <2> QED
    BY <1>3, <2>1, Compose, SameCalls, SameRows, SameRest DEF AcceptInput
<1>4. ASSUME NEW r \in Runs, AcceptCancel(q, r)
      PROVE  Good
  <2>1. TasksStep /\ Quiet
    BY <1>1, <1>4, BeginStep DEF AcceptCancel, PlainPcs, Pcs, CallPcs, Kinds
  <2> QED
    BY <1>4, <2>1, Compose, SameCalls, SameRows, SameRest DEF AcceptCancel
<1>5. ASSUME NEW r \in Runs, NEW c \in CallIds, NEW decision \in {"approve", "reject"},
             AcceptDecision(q, r, c, decision)
      PROVE  Good
  <2> DEFINE pc == IF decision = "approve" THEN "grant" ELSE "resolve"
             y == [Idle EXCEPT !.kind = decision, !.run = r, !.call = c, !.pc = pc]
  <2>1. Idle \in Task /\ pc \in {"grant", "resolve"} /\ pc \in Pcs /\ decision \in Kinds
    BY IdleOK DEF TaskOK, Pcs, Kinds
  <2>2. task' = [task EXCEPT ![q] = y]
    BY <1>5 DEF AcceptDecision
  <2> HIDE DEF pc
  <2>3. y \in Task /\ y.pc = pc /\ y.run = r /\ y.call = c
    BY <2>1 DEF Task
  <2> HIDE DEF y
  <2>4. TasksStep /\ Quiet
    BY <1>1, <1>5, <2>1, <2>2, <2>3, TakeStep DEF AcceptDecision
  <2> QED
    BY <1>5, <2>4, Compose, SameCalls, SameRows, SameRest DEF AcceptDecision
<1> QED
  BY <1>2, <1>3, <1>4, <1>5 DEF Request

\* RunCheckpointConflictError, in a loop or in a tool action.
LEMMA CheckpointConflictGood ==
  ASSUME Inv, NEW t \in Tasks, CheckpointConflict(t)
  PROVE  Good
<1>1. task[t].kind # "idle"
  BY DEF CheckpointConflict
<1>2. task[t] # Idle
  BY <1>1, Busy
<1>3. TasksStep /\ Quiet
  <2>1. CASE At(t, {"direct"}, "saveWait") /\ Goto(t, "undo")
    BY <1>2, <2>1, GotoStep DEF PlainPcs, Pcs, CallPcs
  <2>2. CASE StopFor(t, IF task[t].pc = "input" THEN "exhausted" ELSE "fail", OpenSession(t))
    <3>1. OpenSession(t) \in BOOLEAN
      BY <1>1, Busy DEF OpenSession, Task
    <3>2. "exhausted" \in PlainPcs /\ "fail" \in PlainPcs
      BY DEF PlainPcs, Pcs, CallPcs
    <3> QED
      BY <1>2, <2>2, <3>1, <3>2, StopForStep
  <2> QED
    BY <2>1, <2>2 DEF CheckpointConflict
<1> QED
  BY <1>3, Compose, SameCalls, SameRows, SameRest DEF CheckpointConflict

\* A tool action: the run it creates, up to its outcome.
LEMMA DirectGood ==
  ASSUME Inv, NEW q \in Requests,
         \/ DirectBegin(q) \/ DirectSaveWait(q) \/ DirectWait(q)
         \/ DirectEnd(q) \/ DirectUndo(q) \/ DirectUndoQueued(q)
  PROVE  Good
<1>1. q \in Tasks
  BY DEF Tasks
<1>2. task[q].kind # "idle"
  BY DEF DirectBegin, DirectSaveWait, DirectWait, DirectEnd, DirectUndo, DirectUndoQueued, At
<1>3. task[q] # Idle /\ Of(q) = task[q].run /\ Of(q) \in Runs /\ task[q].call \in CallIds \cup {0}
  BY <1>1, <1>2, Busy
<1>4. CASE DirectBegin(q)
  <2>1. TasksStep /\ Quiet
    BY <1>1, <1>3, <1>4, GotoStep DEF DirectBegin, PlainPcs, Pcs, CallPcs
  <2>2. RunStep
    BY <1>3, <1>4, UpdateRunStep, SameRows DEF DirectBegin, Lifecycle!Successors
  <2> QED
    BY <1>4, <2>1, <2>2, Compose, SameCalls, SameRows, SameRest DEF DirectBegin
<1>5. CASE DirectSaveWait(q)
  <2>1. TasksStep /\ Quiet
    BY <1>1, <1>3, <1>5, GotoStep DEF DirectSaveWait, PlainPcs, Pcs, CallPcs
  <2>2. CkptStep
    BY <1>1, <1>3, <1>5, SaveStep DEF DirectSaveWait, Phases
  <2> QED
    BY <1>5, <2>1, <2>2, Compose, SameCalls, SameRows, SameRest DEF DirectSaveWait
<1>6. CASE DirectWait(q)
  <2>1. TasksStep /\ Quiet
    BY <1>1, <1>3, <1>6, GotoStep, DoneStep DEF DirectWait, PlainPcs, Pcs, CallPcs
  <2>2. RunStep
    BY <1>3, <1>6, UpdateRunStep, SameRows
    DEF DirectWait, Lifecycle!Successors, Lifecycle!Parked
  <2> QED
    BY <1>6, <2>1, <2>2, Compose, SameCalls, SameRows, SameRest DEF DirectWait
<1>7. CASE DirectEnd(q)
  <2>1. TasksStep /\ Quiet
    BY <1>1, <1>3, <1>7, GotoStep, DoneStep DEF DirectEnd, PlainPcs, Pcs, CallPcs
  <2>2. task[q].out \in {"queued", "completed", "failed"}
    BY <1>1, <1>7 DEF DirectEnd, At, Inv, TasksOK, TaskOK
  <2>3. RunStep
    BY <1>3, <1>7, <2>2, UpdateRunStep, SameRows DEF DirectEnd, Lifecycle!Successors
  <2> QED
    BY <1>7, <2>1, <2>3, Compose, SameCalls, SameRows, SameRest DEF DirectEnd
<1>8. CASE DirectUndo(q)
  <2>1. TasksStep /\ Quiet
    BY <1>1, <1>3, <1>8, GotoStep, DoneStep DEF DirectUndo, PlainPcs, Pcs, CallPcs
  <2>2. RunStep
    BY <1>3, <1>8, UpdateRunStep, SameRows DEF DirectUndo, Lifecycle!Successors
  <2> QED
    BY <1>8, <2>1, <2>2, Compose, SameCalls, SameRows, SameRest DEF DirectUndo
<1>9. CASE DirectUndoQueued(q)
  <2>1. TasksStep /\ Quiet
    BY <1>1, <1>9, DoneStep DEF DirectUndoQueued
  <2>2. RunStep
    BY <1>3, <1>9, UpdateRunStep, SameRows DEF DirectUndoQueued, Lifecycle!Successors
  <2> QED
    BY <1>9, <2>1, <2>2, Compose, SameCalls, SameRows, SameRest DEF DirectUndoQueued
<1> QED
  BY <1>4, <1>5, <1>6, <1>7, <1>8, <1>9

\* Nobody has a request under way for a call that awaits an approval, or that
\* was only proposed.
LEMMA NotUnderWay ==
  ASSUME Inv, NEW t \in Tasks,
         calls[task[t].run][task[t].call].status \in {"absent", "proposed", "awaiting_approval"}
  PROVE  task[t].pc \notin FlightPcs
BY DEF Inv, FlightOK, UnderWay, CallSettled

\* The calls of a step that changes one that was not sent, and sends none.
LEMMA UnsentCall ==
  ASSUME Inv, TasksStep, Quiet, NEW r \in Runs, NEW c \in CallIds, NEW e \in Call,
         CallOK(e), calls' = [calls EXCEPT ![r][c] = e],
         calls[r][c].status \in {"absent", "proposed", "awaiting_approval"}
  PROVE  CallsStep /\ FlightOK'
<1>1. calls[r][c].status \notin CallSettled
  BY DEF CallSettled
<1>2. ASSUME NEW t \in Tasks, task'[t].pc \in FlightPcs, task[t].run = r, task[t].call = c
      PROVE  FALSE
  <2>1. task[t].pc \in FlightPcs
    BY <1>2 DEF Quiet
  <2>2. calls[task[t].run][task[t].call].status \in {"absent", "proposed", "awaiting_approval"}
    BY <1>2
  <2> QED
    BY <2>1, <2>2, NotUnderWay
<1>3. Keeps(r, c, e)
  BY <1>2 DEF Keeps
<1>4. calls[r][c].status \in CallSettled => e.status = calls[r][c].status
  BY <1>1
<1> QED
  BY <1>3, <1>4, OneCall

\* A decision about an approval, and the input a run waits for.
LEMMA DecisionGood ==
  ASSUME Inv, NEW q \in Requests,
         \/ ApproveGrant(q) \/ ApproveResolve(q) \/ ApproveRelease(q)
         \/ RejectResolve(q) \/ RejectQueue(q) \/ InputQueue(q)
  PROVE  Good
<1>1. q \in Tasks
  BY DEF Tasks
<1>2. task[q].kind # "idle"
  BY DEF ApproveGrant, ApproveResolve, ApproveRelease, RejectResolve,
         RejectQueue, InputQueue, At
<1>3. /\ task[q] # Idle /\ task[q] \in Task /\ TaskOK(task[q])
      /\ Of(q) = task[q].run /\ Of(q) \in Runs
  BY <1>1, <1>2, Busy
<1>4. ASSUME NEW pc \in {"resolve", "advance"}, task[q].pc \in CallPcs, Goto(q, pc)
      PROVE  TasksStep /\ Quiet
  <2> DEFINE y == [task[q] EXCEPT !.pc = pc]
  <2>1. y \in Task /\ y.pc = pc /\ y.run = task[q].run /\ y.call = task[q].call
    BY <1>3 DEF Task, Pcs
  <2>2. task' = [task EXCEPT ![q] = y] /\ task[q].call \in CallIds
    BY <1>3, <1>4 DEF Goto, TaskOK
  <2> HIDE DEF y
  <2> QED
    BY <1>1, <1>3, <2>1, <2>2, StepTo DEF FlightPcs, Reports
<1>5. CASE ApproveGrant(q)
  <2>1. TasksStep /\ Quiet
    BY <1>1, <1>4, <1>5, DoneStep DEF ApproveGrant, At, CallPcs
  <2>2. RunStep
    BY <1>3, <1>5, UpdateRunStep, SameRows DEF ApproveGrant, Lifecycle!Successors
  <2> QED
    BY <1>5, <2>1, <2>2, Compose, SameCalls, SameRows, SameRest DEF ApproveGrant
<1>6. CASE ApproveResolve(q)
  <2> DEFINE r == Of(q) c == task[q].call e == [calls[r][c] EXCEPT !.approved = TRUE]
  <2>1. c \in CallIds /\ calls[r][c] \in Call
    BY <1>3, <1>6 DEF ApproveResolve, At, TaskOK, CallPcs, Inv, TypeOK
  <2>2. CASE calls[r][c].status = "awaiting_approval"
    <3>1. TasksStep /\ Quiet
      BY <1>4, <1>6, <2>2 DEF ApproveResolve, At, CallPcs
    <3>2. e \in Call /\ e.status = "awaiting_approval" /\ CallOK(e)
      <4>1. CallOK(calls[r][c])
        BY <1>3, <2>1 DEF Inv, CallsOK
      <4>2. /\ e \in Call /\ e.status = calls[r][c].status /\ e.effects = calls[r][c].effects
            /\ e.write = calls[r][c].write /\ e.key = calls[r][c].key
            /\ e.result = calls[r][c].result
        BY <2>1 DEF Call
      <4> QED
        BY <2>2, <4>1, <4>2 DEF CallOK
    <3>3. calls' = [calls EXCEPT ![r][c] = e]
      BY <1>6, <2>2 DEF ApproveResolve
    <3> HIDE DEF e
    <3>4. CallsStep /\ FlightOK'
      BY <1>3, <2>1, <2>2, <3>1, <3>2, <3>3, UnsentCall
    <3> QED
      BY <1>6, <3>1, <3>4, Compose, SameRows, SameRest DEF ApproveResolve
  <2>3. CASE calls[r][c].status # "awaiting_approval"
    <3>1. TasksStep /\ Quiet
      BY <1>1, <1>3, <1>6, <2>3, GotoStep DEF ApproveResolve, PlainPcs, Pcs, CallPcs
    <3> QED
      BY <1>6, <2>3, <3>1, Compose, SameCalls, SameRows, SameRest DEF ApproveResolve
  <2> QED
    BY <2>2, <2>3
<1>7. CASE ApproveRelease(q)
  <2>1. TasksStep /\ Quiet
    BY <1>1, <1>7, DoneStep DEF ApproveRelease
  <2>2. RunStep
    BY <1>3, <1>7, UpdateRunStep, SameRows DEF ApproveRelease, Lifecycle!Successors
  <2> QED
    BY <1>7, <2>1, <2>2, Compose, SameCalls, SameRows, SameRest DEF ApproveRelease
<1>8. CASE RejectResolve(q)
  <2> DEFINE r == Of(q) c == task[q].call e == [calls[r][c] EXCEPT !.status = "rejected"]
  <2>1. c \in CallIds /\ calls[r][c] \in Call
    BY <1>3, <1>8 DEF RejectResolve, At, TaskOK, CallPcs, Inv, TypeOK
  <2>2. CASE calls[r][c].status = "awaiting_approval"
    <3>1. TasksStep /\ Quiet
      BY <1>1, <1>3, <1>8, <2>2, GotoStep DEF RejectResolve, PlainPcs, Pcs, CallPcs
    <3>2. e \in Call /\ CallOK(e)
      <4>1. CallOK(calls[r][c])
        BY <1>3, <2>1 DEF Inv, CallsOK
      <4>2. /\ e \in Call /\ e.effects = calls[r][c].effects
            /\ e.write = calls[r][c].write /\ e.key = calls[r][c].key
            /\ e.result = calls[r][c].result
        BY <2>1 DEF Call, CallStatuses
      <4> QED
        BY <2>2, <4>1, <4>2 DEF CallOK
    <3>3. calls' = [calls EXCEPT ![r][c] = e]
      BY <1>8, <2>2 DEF RejectResolve
    <3> HIDE DEF e
    <3>4. CallsStep /\ FlightOK'
      BY <1>3, <2>1, <2>2, <3>1, <3>2, <3>3, UnsentCall
    <3> QED
      BY <1>8, <3>1, <3>4, Compose, SameRows, SameRest DEF RejectResolve
  <2>3. CASE calls[r][c].status # "awaiting_approval"
    <3>1. TasksStep /\ Quiet
      BY <1>1, <1>8, <2>3, DoneStep DEF RejectResolve
    <3> QED
      BY <1>8, <2>3, <3>1, Compose, SameCalls, SameRows, SameRest DEF RejectResolve
  <2> QED
    BY <2>2, <2>3
<1>9. CASE RejectQueue(q)
  <2>1. TasksStep /\ Quiet
    BY <1>1, <1>9, DoneStep DEF RejectQueue
  <2>2. RunStep
    BY <1>3, <1>9, UpdateRunStep, SameRows DEF RejectQueue, Lifecycle!Successors
  <2> QED
    BY <1>9, <2>1, <2>2, Compose, SameCalls, SameRows, SameRest DEF RejectQueue
<1>10. CASE InputQueue(q)
  <2>1. TasksStep /\ Quiet
    BY <1>1, <1>10, DoneStep DEF InputQueue
  <2>2. RunStep
    BY <1>3, <1>10, UpdateRunStep, SameRows DEF InputQueue, Lifecycle!Successors
  <2> QED
    BY <1>10, <2>1, <2>2, Compose, SameCalls, SameRows, SameRest DEF InputQueue
<1> QED
  BY <1>5, <1>6, <1>7, <1>8, <1>9, <1>10

\* Aborting tasks, and ending some, changes no run and no call at hand.
LEMMA AbortTasks ==
  ASSUME Inv, task' = [t \in Tasks |-> task'[t]],
         \A t \in Tasks :
           \/ task'[t] = Idle
           \/ task'[t] = task[t]
           \/ task[t] # Idle /\ \E reason \in Aborts : task'[t] = Aborted(t, reason)
  PROVE  TasksStep /\ Quiet
<1>1. ASSUME NEW t \in Tasks
      PROVE  /\ task'[t] \in Task /\ Follows(t)
             /\ task'[t].pc \in FlightPcs => /\ task[t].pc = task'[t].pc
                                             /\ SameCall(task[t], task'[t])
                                             /\ task[t].answer = task'[t].answer
  <2>1. TaskOK(task[t]) /\ task[t] \in Task
    BY DEF Inv, TasksOK, TaskOK
  <2>2. CASE task'[t] = Idle
    BY <2>2, IdleOK DEF Follows, TaskOK
  <2>3. CASE task'[t] = task[t]
    BY <2>1, <2>3 DEF Follows, SameCall
  <2>4. CASE task[t] # Idle /\ \E reason \in Aborts : task'[t] = Aborted(t, reason)
    <3>1. PICK reason \in Aborts : task'[t] = Aborted(t, reason)
      BY <2>4
    <3> DEFINE y == [task[t] EXCEPT !.abort = reason]
    <3>2. /\ y \in Task /\ y.pc = task[t].pc /\ y.run = task[t].run /\ y.call = task[t].call
          /\ y.answer = task[t].answer /\ y.out = task[t].out
      BY <2>1 DEF Task
    <3>3. task'[t] = y \/ task'[t] = task[t]
      BY <3>1 DEF Aborted
    <3> HIDE DEF y
    <3>4. CASE task'[t] = y
      BY <2>1, <2>4, <3>2, <3>4 DEF Follows, TaskOK, Reports, SameCall
    <3> QED
      BY <2>3, <3>3, <3>4
  <2> QED
    BY <2>2, <2>3, <2>4
<1> QED
  BY <1>1 DEF TasksStep, Quiet

\* The tasks an abort reaches have a run.
LEMMA ReachedBusy ==
  ASSUME Inv, NEW r \in Runs, NEW t \in Reached(r)
  PROVE  t \in Tasks /\ task[t] # Idle
BY TasksAssumption DEF Reached, Of, Idle

\* Aborting the executions of one run on behalf of a cancel request.
LEMMA AbortRunStep ==
  ASSUME Inv, NEW q \in Tasks, NEW r \in Runs, AbortRun(q, r)
  PROVE  TasksStep /\ Quiet
<1>1. \A t \in Tasks :
        \/ task'[t] = Idle
        \/ task'[t] = task[t]
        \/ task[t] # Idle /\ \E reason \in Aborts : task'[t] = Aborted(t, reason)
  BY ReachedBusy DEF AbortRun, Aborts
<1>2. task' = [t \in Tasks |-> task'[t]]
  BY DEF AbortRun
<1> QED
  BY <1>1, <1>2, AbortTasks

\* cancelRun: the run is terminal afterwards, its unsettled calls are canceled.
LEMMA CancelRunStep ==
  ASSUME Inv, NEW r \in Runs, run[r].status # "absent", CancelRun(r), TasksStep, Quiet
  PROVE  RunStep /\ CallsStep /\ FlightOK'
<1>1. RunStep
  <2>1. run[r].status \in Statuses \ ({"absent"} \cup Terminal)
    BY DEF CancelRun, IsTerminal, Inv, TypeOK, Row
  <2>2. "canceled" \in Lifecycle!Successors(run[r].status)
    BY <2>1 DEF Lifecycle!Successors, Lifecycle!Parked, Statuses, Parked, Terminal
  <2> QED
    BY <2>2 DEF RunStep, CancelRun
<1> DEFINE after(c) == IF calls[r][c].status \in CallSettled \cup {"absent"} THEN calls[r][c]
                       ELSE [calls[r][c] EXCEPT !.status = "canceled"]
<1>2. calls' = [calls EXCEPT ![r] = [c \in CallIds |-> after(c)]]
  BY DEF CancelRun
<1>3. ASSUME NEW c \in CallIds
      PROVE  /\ after(c) \in Call /\ CallOK(after(c))
             /\ calls[r][c].status \in CallSettled => after(c).status = calls[r][c].status
             /\ \A x \in Task : UnderWay(x, calls[r][c]) => UnderWay(x, after(c))
  <2>1. calls[r][c] \in Call /\ CallOK(calls[r][c])
    BY DEF Inv, TypeOK, CallsOK
  <2>2. CASE calls[r][c].status \in CallSettled \cup {"absent"}
    BY <2>1, <2>2
  <2>3. CASE calls[r][c].status \notin CallSettled \cup {"absent"}
    <3> DEFINE e == [calls[r][c] EXCEPT !.status = "canceled"]
    <3>1. /\ e \in Call /\ e.status = "canceled" /\ e.effects = calls[r][c].effects
          /\ e.write = calls[r][c].write /\ e.key = calls[r][c].key
          /\ e.result = calls[r][c].result
          /\ e.gated = calls[r][c].gated /\ e.approved = calls[r][c].approved
      BY <2>1 DEF Call, CallStatuses
    <3>2. after(c) = e
      BY <2>3
    <3> HIDE DEF e, after
    <3> QED
      BY <2>1, <2>3, <3>1, <3>2 DEF CallOK, UnderWay, CallSettled
  <2> QED
    BY <2>2, <2>3
<1> HIDE DEF after
<1>4. CallsStep
  BY <1>2, <1>3 DEF Inv, TypeOK, CallsOK, CallsStep, SettledStay
<1>5. ASSUME NEW t \in Tasks, task'[t].pc \in FlightPcs
      PROVE  UnderWay(task'[t], calls'[task'[t].run][task'[t].call])
  <2>1. /\ task[t].pc = task'[t].pc /\ task[t].answer = task'[t].answer
        /\ task[t].run = task'[t].run /\ task[t].call = task'[t].call
    BY <1>5 DEF Quiet, SameCall
  <2>2. task[t] \in Task /\ task[t].run \in Runs /\ task[t].call \in CallIds
    BY <1>5, <2>1 DEF Inv, TasksOK, TaskOK, FlightPcs, CallPcs, Idle
  <2>3. UnderWay(task[t], calls[task[t].run][task[t].call])
    BY <1>5, <2>1 DEF Inv, FlightOK
  <2>4. UnderWay(task[t], calls'[task[t].run][task[t].call])
    BY <1>2, <1>3, <2>2, <2>3 DEF Inv, TypeOK
  <2> QED
    BY <2>1, <2>4 DEF UnderWay
<1>6. FlightOK'
  BY <1>5 DEF Inv, Quiet, FlightOK, SameCall
<1> QED
  BY <1>1, <1>4, <1>6

\* Canceling a run.
LEMMA CancelRequestGood ==
  ASSUME Inv, NEW q \in Requests, CancelOwned(q) \/ CancelRow(q) \/ CancelSignal(q)
  PROVE  Good
<1>1. q \in Tasks
  BY DEF Tasks
<1>2. task[q].kind # "idle"
  BY DEF CancelOwned, CancelRow, CancelSignal, At
<1>3. /\ task[q] # Idle /\ Of(q) = task[q].run /\ Of(q) \in Runs
      /\ run[Of(q)].status # "absent"
  BY <1>1, <1>2, Busy
<1>4. CASE CancelOwned(q)
  <2>1. TasksStep /\ Quiet
    BY <1>1, <1>3, <1>4, GotoStep, AbortRunStep DEF CancelOwned, PlainPcs, Pcs, CallPcs
  <2> QED
    BY <1>4, <2>1, Compose, SameCalls, SameRows, SameRest DEF CancelOwned
<1>5. CASE CancelRow(q)
  <2>1. TasksStep /\ Quiet
    BY <1>1, <1>3, <1>5, GotoStep, DoneStep DEF CancelRow, PlainPcs, Pcs, CallPcs
  <2>2. RunStep /\ CallsStep /\ FlightOK'
    BY <1>3, <1>5, <2>1, CancelRunStep, SameRows, SameCalls DEF CancelRow
  <2> QED
    BY <1>5, <2>1, <2>2, Compose, SameRows, SameRest DEF CancelRow
<1>6. CASE CancelSignal(q)
  <2>1. TasksStep /\ Quiet
    BY <1>1, <1>3, <1>6, AbortRunStep DEF CancelSignal
  <2> QED
    BY <1>6, <2>1, Compose, SameCalls, SameRows, SameRest DEF CancelSignal
<1> QED
  BY <1>4, <1>5, <1>6

\* What a request does once its handler has begun.
LEMMA RequestStepGood ==
  ASSUME Inv, NEW q \in Requests, RequestStep(q)
  PROVE  Good
<1>1. q \in Tasks
  BY DEF Tasks
<1> QED
  BY <1>1, DirectGood, DecisionGood, CancelRequestGood, CheckpointConflictGood DEF RequestStep

-----------------------------------------------------------------------------
(* One step per action: a platform tool call.                              *)

\* The keys that block completion are keys of calls.
LEMMA TrackedType ==
  ASSUME NEW blocked \in SUBSET CallIds, NEW call \in Call, call.write => call.key # 0
  PROVE  Tracked(blocked, call) \in SUBSET CallIds
<1>1. call.key \in CallIds \cup {0}
  BY DEF Call
<1> QED
  BY <1>1 DEF Tracked

\* With the call settled, or waiting, its caller goes on with the same run.
LEMMA ContinueOK ==
  ASSUME NEW me \in Task, me.call \in CallIds, NEW call \in Call, call.write => call.key # 0,
         NEW next \in Continue(me, call)
  PROVE  /\ next \in Task /\ next.run = me.run
         /\ \/ next.pc \in PlainPcs
            \/ next.pc = "end" /\ next.out \in {"queued", "completed", "failed"}
<1> DEFINE waits == call.status = "awaiting_approval"
<1>1. me.owed \in SUBSET CallIds /\ me.blocked \in SUBSET CallIds
  BY DEF Task
<1>2. CASE me.kind = "loop" /\ waits
  <2>1. next = [me EXCEPT !.pc = "park", !.owed = {}]
    BY <1>2 DEF Continue
  <2>2. "park" \in PlainPcs /\ "park" \in Pcs
    BY DEF PlainPcs, Pcs, CallPcs
  <2> QED
    BY <2>1, <2>2 DEF Task
<1>3. CASE me.kind = "loop" /\ ~waits
  <2> DEFINE blocked == Tracked(me.blocked, call)
             owed == IF call.result = "verify" THEN me.owed \cup {me.call} ELSE me.owed
             y == [me EXCEPT !.pc = "batch", !.blocked = blocked, !.owed = owed]
  <2>1. next = y
    BY <1>3 DEF Continue, Task
  <2>2. blocked \in SUBSET CallIds /\ owed \in SUBSET CallIds
    BY <1>1, TrackedType
  <2>3. "batch" \in PlainPcs /\ "batch" \in Pcs
    BY DEF PlainPcs, Pcs, CallPcs
  <2> HIDE DEF blocked, owed
  <2>4. y \in Task /\ y.pc = "batch" /\ y.run = me.run
    BY <2>2, <2>3 DEF Task
  <2> QED
    BY <2>1, <2>3, <2>4
<1>4. CASE me.kind = "direct" /\ waits
  <2>1. next = [me EXCEPT !.pc = "saveWait"]
    BY <1>4 DEF Continue
  <2>2. "saveWait" \in PlainPcs /\ "saveWait" \in Pcs
    BY DEF PlainPcs, Pcs, CallPcs
  <2> QED
    BY <2>1, <2>2 DEF Task
<1>5. CASE me.kind = "direct" /\ ~waits
  <2>1. PICK out \in {"queued", "completed", "failed"} :
          next = [me EXCEPT !.pc = "end", !.out = out]
    BY <1>5 DEF Continue
  <2>2. "end" \in Pcs /\ out \in Statuses
    BY DEF Pcs, Statuses, Terminal
  <2>3. next \in Task
    BY <2>1, <2>2 DEF Task
  <2>4. next.pc = "end" /\ next.out = out /\ next.run = me.run
    BY <2>1 DEF Task
  <2> QED
    BY <2>3, <2>4
<1>6. CASE me.kind \notin {"loop", "direct"}
  <2>1. next = [me EXCEPT !.pc = "release"]
    BY <1>6 DEF Continue
  <2>2. "release" \in PlainPcs /\ "release" \in Pcs
    BY DEF PlainPcs, Pcs, CallPcs
  <2> QED
    BY <2>1, <2>2 DEF Task
<1> QED
  BY <1>2, <1>3, <1>4, <1>5, <1>6

\* The same for the task that had the call at hand.
LEMMA AfterCallStep ==
  ASSUME Inv, NEW t \in Tasks, task[t] # Idle, NEW c \in CallIds, NEW call \in Call,
         call.write => call.key # 0, NEW next \in AfterCall(t, c, call),
         task' = [task EXCEPT ![t] = next]
  PROVE  TasksStep /\ Quiet /\ task'[t].pc \notin FlightPcs
<1> DEFINE me == [task[t] EXCEPT !.call = c]
<1>1. task[t] \in Task
  BY DEF Inv, TypeOK
<1>2. me \in Task /\ me.call = c /\ me.run = task[t].run
  BY <1>1 DEF Task
<1>3. next \in Continue(me, call)
  BY DEF AfterCall
<1> HIDE DEF me
<1>4. /\ next \in Task /\ next.run = task[t].run
      /\ \/ next.pc \in PlainPcs
         \/ next.pc = "end" /\ next.out \in {"queued", "completed", "failed"}
  BY <1>2, <1>3, ContinueOK
<1>5. TasksStep /\ Quiet
  BY <1>4, StepTo DEF PlainPcs, CallPcs, FlightPcs, Reports
<1>6. task'[t] = next
  BY DEF Inv, TypeOK
<1> QED
  BY <1>4, <1>5, <1>6 DEF PlainPcs, CallPcs, FlightPcs

\* A task that goes on with a call it is about to advance.
LEMMA AdvanceTo ==
  ASSUME Inv, NEW t \in Tasks, task[t] # Idle, NEW c \in CallIds,
         task' = [task EXCEPT ![t].pc = "advance", ![t].call = c]
  PROVE  TasksStep /\ Quiet
<1> DEFINE y == [task[t] EXCEPT !.pc = "advance", !.call = c]
<1>1. task[t] \in Task /\ "advance" \in Pcs
  BY DEF Inv, TypeOK, Pcs
<1>2. y \in Task /\ y.pc = "advance" /\ y.call = c /\ y.run = task[t].run
  BY <1>1 DEF Task
<1>3. task' = [task EXCEPT ![t] = y]
  BY DEF Inv, TypeOK
<1> HIDE DEF y
<1> QED
  BY <1>2, <1>3, StepTo DEF FlightPcs, CallPcs, Reports

\* propose: a new call, one that is reused, or missing arguments.
LEMMA ProposeGood ==
  ASSUME Inv, NEW t \in Tasks, Propose(t) \/ Reuse(t) \/ NeedInput(t)
  PROVE  Good
<1>1. task[t].kind # "idle"
  BY DEF Propose, Reuse, NeedInput, At
<1>2. /\ task[t] # Idle /\ Of(t) = task[t].run /\ Of(t) \in Runs
  BY <1>1, Busy
<1>3. CASE Propose(t)
  <2> DEFINE r == Of(t)
  <2>1. PICK c \in CallIds, key \in CallIds, shape \in CallShapes :
          /\ IsNextCall(r, c)
          /\ calls' = [calls EXCEPT ![r][c] =
               [NoCall EXCEPT !.status = "proposed", !.key = key,
                              !.write = shape.write, !.gated = shape.gated]]
          /\ task' = [task EXCEPT ![t].pc = "advance", ![t].call = c]
    BY <1>3 DEF Propose
  <2> DEFINE write == shape.write
             gated == shape.gated
             e == [NoCall EXCEPT !.status = "proposed", !.key = key,
                                 !.write = write, !.gated = gated]
  <2>2. write \in BOOLEAN /\ gated \in BOOLEAN
    BY KindsAssumption
  <2>3. NoCall \in Call /\ NoCall.effects = 0 /\ NoCall.result = "none"
    BY DEF NoCall, Call, CallStatuses, CallResults
  <2>4. calls' = [calls EXCEPT ![r][c] = e]
    BY <2>1
  <2> HIDE DEF write, gated
  <2>5. e \in Call /\ e.effects = 0 /\ e.key = key /\ e.result = "none"
    BY <2>2, <2>3 DEF Call, CallStatuses
  <2> HIDE DEF e
  <2>6. CallOK(e)
    BY <2>5 DEF CallOK, CallIds
  <2>7. TasksStep /\ Quiet
    BY <1>2, <2>1, AdvanceTo
  <2>8. CallsStep /\ FlightOK'
    BY <1>2, <2>1, <2>4, <2>5, <2>6, <2>7, UnsentCall DEF IsNextCall
  <2> QED
    BY <1>3, <2>7, <2>8, Compose, SameRows, SameRest DEF Propose
<1>4. CASE Reuse(t)
  <2>1. PICK d \in CallIds : \E c \in ReusableFor(Of(t), calls[Of(t)][d].key) :
          \E next \in AfterCall(t, c, calls[Of(t)][c]) : task' = [task EXCEPT ![t] = next]
    BY <1>4 DEF Reuse
  <2>2. PICK c \in CallIds :
          \E next \in AfterCall(t, c, calls[Of(t)][c]) : task' = [task EXCEPT ![t] = next]
    BY <2>1 DEF ReusableFor
  <2>3. PICK next \in AfterCall(t, c, calls[Of(t)][c]) : task' = [task EXCEPT ![t] = next]
    BY <2>2
  <2>4. calls[Of(t)][c] \in Call /\ CallOK(calls[Of(t)][c])
    BY <1>2 DEF Inv, TypeOK, CallsOK
  <2>5. TasksStep /\ Quiet
    BY <1>2, <2>3, <2>4, AfterCallStep DEF CallOK
  <2> QED
    BY <1>4, <2>5, Compose, SameCalls, SameRows, SameRest DEF Reuse
<1>5. CASE NeedInput(t)
  <2>1. TasksStep /\ Quiet
    BY <1>2, <1>5, GotoStep DEF NeedInput, PlainPcs, Pcs, CallPcs
  <2> QED
    BY <1>5, <2>1, Compose, SameCalls, SameRows, SameRest DEF NeedInput
<1> QED
  BY <1>3, <1>4, <1>5

\* A step that leaves a task with its request under way, and nobody else with one
\* for the same call.
LEMMA LaunchStep ==
  ASSUME Inv, NEW t \in Tasks, task[t] # Idle, NEW y \in Task,
         y.run = task[t].run, y.pc \in FlightPcs, y.call \in CallIds,
         task' = [task EXCEPT ![t] = y],
         NEW e \in Call, CallOK(e), UnderWay(y, e),
         calls' = [calls EXCEPT ![y.run][y.call] = e],
         calls[y.run][y.call].status \in CallSettled => e.status = calls[y.run][y.call].status,
         \A u \in Tasks \ {t} : task[u].pc \in FlightPcs => ~SameCall(y, task[u])
  PROVE  TasksStep /\ CallsStep /\ FlightOK'
<1>1. /\ task[t].run \in Runs /\ task \in [Tasks -> Task]
      /\ calls \in [Runs -> [CallIds -> Call]]
      /\ \A u \in Tasks : TaskOK(task[u])
  BY DEF Inv, TasksOK, TaskOK, TypeOK
<1>2. task'[t] = y /\ \A u \in Tasks \ {t} : task'[u] = task[u]
  BY <1>1
<1>3. TasksStep
  <2>1. TaskOK(y) /\ ~Reports(y)
    BY <1>1 DEF TaskOK, FlightPcs, Reports
  <2>2. Follows(t)
    BY <1>2, <2>1 DEF Follows
  <2>3. \A u \in Tasks \ {t} : Follows(u)
    BY <1>1, <1>2 DEF Follows
  <2> QED
    BY <1>1, <2>2, <2>3 DEF TasksStep
<1>4. CallsStep
  BY <1>1 DEF Inv, CallsStep, CallsOK, SettledStay
<1>5. UnderWay(task'[t], calls'[task'[t].run][task'[t].call])
  BY <1>1, <1>2
<1>6. ASSUME NEW u \in Tasks \ {t}, task[u].pc \in FlightPcs
      PROVE  UnderWay(task[u], calls'[task[u].run][task[u].call])
  <2>1. task[u].run \in Runs /\ task[u].call \in CallIds
    BY <1>1, <1>6 DEF TaskOK, FlightPcs, CallPcs, Idle
  <2>2. task[u].run # y.run \/ task[u].call # y.call
    BY <1>6 DEF SameCall
  <2>3. calls'[task[u].run][task[u].call] = calls[task[u].run][task[u].call]
    BY <1>1, <2>1, <2>2
  <2> QED
    BY <1>6, <2>3 DEF Inv, FlightOK
<1>7. FlightOK'
  <2> SUFFICES ASSUME NEW u \in Tasks, task'[u].pc \in FlightPcs
               PROVE  /\ UnderWay(task'[u], calls'[task'[u].run][task'[u].call])
                      /\ \A v \in Tasks : task'[v].pc \in FlightPcs /\ SameCall(task'[u], task'[v])
                                            => v = u
    BY DEF FlightOK, SameCall, UnderWay
  <2>1. CASE u = t
    BY <1>2, <1>5, <2>1
  <2>2. CASE u # t
    <3>1. task'[u] = task[u] /\ UnderWay(task'[u], calls'[task'[u].run][task'[u].call])
      BY <1>2, <1>6, <2>2
    <3>2. ~SameCall(task[u], y)
      BY <2>2, <3>1 DEF SameCall
    <3>3. \A v \in Tasks \ {t} : task[v].pc \in FlightPcs /\ SameCall(task[u], task[v]) => v = u
      BY <3>1, SMTT(30) DEF Inv, FlightOK
    <3> QED
      BY <1>2, <3>1, <3>2, <3>3
  <2> QED
    BY <2>1, <2>2, SMTT(30)
<1> QED
  BY <1>3, <1>4, <1>7

\* advance: a call is held back, sent, or was moved by somebody else.
LEMMA AdvanceGood ==
  ASSUME Inv, NEW t \in Tasks, Hold(t) \/ Execute(t) \/ AdvanceConflict(t)
  PROVE  Good
<1> DEFINE r == task[t].run c == task[t].call
<1>1. task[t].pc = "advance"
  BY DEF Hold, Execute, AdvanceConflict, At
<1>2. /\ task[t] # Idle /\ task[t] \in Task /\ Of(t) = r /\ r \in Runs
      /\ c \in CallIds
  BY <1>1, Busy DEF TaskOK, CallPcs
<1>3. calls[r][c] \in Call /\ CallOK(calls[r][c])
  BY <1>2, SMTT(30) DEF Inv, TypeOK, CallsOK
<1>4. CASE Hold(t)
  <2>1. calls[r][c].status = "proposed"
    BY <1>2, <1>4, ZenonT(40) DEF Hold, Expected, At
  <2>2. PICK status \in {"awaiting_approval", "failed"} :
          /\ calls' = [calls EXCEPT ![r][c].status = status]
          /\ \E next \in AfterCall(t, c, [calls[r][c] EXCEPT !.status = status]) :
               task' = [task EXCEPT ![t] = next]
    BY <1>2, <1>4 DEF Hold
  <2> DEFINE e == [calls[r][c] EXCEPT !.status = status]
  <2>3. /\ e \in Call /\ e.status = status /\ e.effects = calls[r][c].effects
        /\ e.write = calls[r][c].write /\ e.key = calls[r][c].key
        /\ e.result = calls[r][c].result
    BY <1>3 DEF Call, CallStatuses
  <2>4. calls' = [calls EXCEPT ![r][c] = e]
    BY <2>2
  <2>5. PICK next \in AfterCall(t, c, e) : task' = [task EXCEPT ![t] = next]
    BY <2>2
  <2> HIDE DEF e
  <2>6. CallOK(e)
    BY <1>3, <2>1, <2>3 DEF CallOK
  <2>7. TasksStep /\ Quiet
    BY <1>2, <2>3, <2>5, <2>6, AfterCallStep DEF CallOK
  <2>8. CallsStep /\ FlightOK'
    BY <1>2, <2>1, <2>3, <2>4, <2>6, <2>7, UnsentCall
  <2> QED
    BY <1>4, <2>7, <2>8, Compose, SameRows, SameRest, SMTT(30) DEF Hold
<1>5. CASE Execute(t)
  <2> DEFINE e == [calls[r][c] EXCEPT !.status = "running"]
             y == [task[t] EXCEPT !.pc = "send"]
  <2>1. calls[r][c].status \in {"proposed", "awaiting_approval"}
    BY <1>2, <1>5 DEF Execute, Expected
  <2>2. /\ e \in Call /\ e.status = "running" /\ e.effects = calls[r][c].effects
        /\ e.write = calls[r][c].write /\ e.key = calls[r][c].key
        /\ e.result = calls[r][c].result
    BY <1>3 DEF Call, CallStatuses
  <2>3. y \in Task /\ y.pc = "send" /\ y.run = r /\ y.call = c
    BY <1>2 DEF Task, Pcs
  <2>4. calls' = [calls EXCEPT ![r][c] = e]
    BY <1>2, <1>5 DEF Execute
  <2>5. task' = [task EXCEPT ![t] = y]
    BY <1>5 DEF Execute, Goto
  <2> HIDE DEF e, y
  <2>6. e.effects = 0 /\ CallOK(e) /\ UnderWay(y, e)
    BY <1>3, <2>1, <2>2 DEF CallOK, UnderWay
  <2>7. \A u \in Tasks \ {t} : task[u].pc \in FlightPcs => ~SameCall(y, task[u])
    <3> SUFFICES ASSUME NEW u \in Tasks, SameCall(y, task[u])
                 PROVE  task[u].pc \notin FlightPcs
      OBVIOUS
    <3>1. calls[task[u].run][task[u].call].status \in {"proposed", "awaiting_approval"}
      BY <2>1, <2>3 DEF SameCall
    <3> QED
      BY <3>1, NotUnderWay
  <2>8. calls[r][c].status \notin CallSettled
    BY <2>1 DEF CallSettled
  <2>9. y.pc \in FlightPcs
    BY <2>3 DEF FlightPcs
  <2>10. TasksStep /\ CallsStep /\ FlightOK'
    BY <1>2, <2>2, <2>3, <2>4, <2>5, <2>6, <2>7, <2>8, <2>9, LaunchStep
  <2> QED
    BY <1>5, <2>10, Compose, SameRows, SameRest DEF Execute
<1>6. CASE AdvanceConflict(t)
  <2>1. Recovery(t) \in PlainPcs
    BY DEF Recovery, PlainPcs, Pcs, CallPcs
  <2>2. TasksStep /\ Quiet
    BY <1>2, <1>6, <2>1, GotoStep DEF AdvanceConflict
  <2> QED
    BY <1>6, <2>2, Compose, SameCalls, SameRows, SameRest DEF AdvanceConflict
<1> QED
  BY <1>4, <1>5, <1>6

\* client.execute: the request reaches the platform at most once.
LEMMA SendGood ==
  ASSUME Inv, NEW t \in Tasks, Send(t)
  PROVE  Good
<1> DEFINE r == task[t].run c == task[t].call
<1>1. task[t].pc = "send"
  BY DEF Send, At
<1>2. /\ task[t] # Idle /\ task[t] \in Task /\ Of(t) = r /\ r \in Runs
      /\ c \in CallIds
  BY <1>1, Busy DEF TaskOK, CallPcs
<1>3. calls[r][c] \in Call /\ CallOK(calls[r][c])
  BY <1>2 DEF Inv, TypeOK, CallsOK
<1>4. /\ UnderWay(task[t], calls[r][c])
      /\ \A u \in Tasks \ {t} : task[u].pc \in FlightPcs => ~SameCall(task[t], task[u])
  BY <1>1, SMTT(30) DEF Inv, FlightOK, FlightPcs
<1>5. PICK answer \in {"ok", "error", "gate"} :
        /\ task' = [task EXCEPT ![t].pc = "answer", ![t].answer = answer]
        /\ \/ answer = "error" /\ UNCHANGED calls
           \/ answer = "gate" /\ UNCHANGED calls /\ GateOpen(t)
           \/ /\ answer # "gate" /\ GateOpen(t)
              /\ calls[r][c].gated => calls[r][c].approved
              /\ calls' = [calls EXCEPT ![r][c].effects = @ + 1]
  BY <1>2 DEF Send
<1> DEFINE y == [task[t] EXCEPT !.pc = "answer", !.answer = answer]
<1>6. /\ y \in Task /\ y.pc = "answer" /\ y.answer = answer /\ y.run = r /\ y.call = c
      /\ y.pc \in FlightPcs
  BY <1>2 DEF Task, Pcs, Answers, FlightPcs
<1>7. task' = [task EXCEPT ![t] = y]
  BY <1>5 DEF Inv, TypeOK
<1> HIDE DEF y
<1>8. \A u \in Tasks \ {t} : task[u].pc \in FlightPcs => ~SameCall(y, task[u])
  BY <1>4, <1>6 DEF SameCall
<1>9. CASE UNCHANGED calls
  <2>1. calls' = [calls EXCEPT ![y.run][y.call] = calls[r][c]]
    BY <1>2, <1>6, <1>9 DEF Inv, TypeOK
  <2>2. UnderWay(y, calls[r][c])
    BY <1>1, <1>4, <1>6 DEF UnderWay
  <2>3. TasksStep /\ CallsStep /\ FlightOK'
    BY <1>2, <1>3, <1>6, <1>7, <1>8, <2>1, <2>2, LaunchStep
  <2> QED
    BY <2>3, Compose, SameRows, SameRest DEF Send
<1>10. CASE ~UNCHANGED calls
  <2> DEFINE n == calls[r][c].effects + 1
             e == [calls[r][c] EXCEPT !.effects = n]
  <2>1. /\ answer # "gate" /\ calls[r][c].status = "running"
        /\ calls[r][c].gated => calls[r][c].approved
        /\ calls' = [calls EXCEPT ![r][c].effects = n]
    BY <1>2, <1>5, <1>10 DEF GateOpen
  <2>2. n = 1
    BY <1>1, <1>4, <2>1 DEF UnderWay
  <2> HIDE DEF n
  <2>3. /\ e \in Call /\ e.effects = n /\ e.status = calls[r][c].status
        /\ e.write = calls[r][c].write /\ e.key = calls[r][c].key
        /\ e.result = calls[r][c].result
        /\ e.gated = calls[r][c].gated /\ e.approved = calls[r][c].approved
    BY <1>3, <2>2 DEF Call
  <2>4. calls' = [calls EXCEPT ![y.run][y.call] = e]
    BY <1>6, <2>1, SMTT(30)
  <2> HIDE DEF e
  <2>5. CallOK(e) /\ UnderWay(y, e)
    BY <1>3, <1>6, <2>1, <2>2, <2>3, SMTT(30) DEF CallOK, UnderWay
  <2>6. TasksStep /\ CallsStep /\ FlightOK'
    BY <1>2, <1>6, <1>7, <1>8, <2>3, <2>4, <2>5, LaunchStep, ZenonT(40)
  <2> QED
    BY <2>6, Compose, SameRows, SameRest DEF Send
<1> QED
  BY <1>9, <1>10

\* finish and fail: the answer settles a call that is still running.
LEMMA ReceiveGood ==
  ASSUME Inv, NEW t \in Tasks, Receive(t) \/ ReceiveCanceled(t)
  PROVE  Good
<1> DEFINE r == task[t].run c == task[t].call
<1>1. task[t].pc = "answer"
  BY DEF Receive, ReceiveCanceled, At
<1>2. /\ task[t] # Idle /\ task[t] \in Task /\ Of(t) = r /\ r \in Runs
      /\ c \in CallIds
  BY <1>1, Busy DEF TaskOK, CallPcs
<1>3. calls[r][c] \in Call /\ CallOK(calls[r][c])
  BY <1>2 DEF Inv, TypeOK, CallsOK
<1>4. /\ UnderWay(task[t], calls[r][c])
      /\ \A u \in Tasks \ {t} : task[u].pc \in FlightPcs => ~SameCall(task[t], task[u])
  BY <1>1 DEF Inv, FlightOK, FlightPcs
<1>5. CASE Receive(t)
  <2>1. calls[r][c].status = "running"
    BY <1>2, <1>5, ZenonT(40) DEF Receive
  <2>2. PICK status \in {"succeeded", "awaiting_approval", "failed"}, result \in CallResults :
          /\ status = "awaiting_approval" => task[t].answer = "gate"
          /\ result # "none" => status = "succeeded"
          /\ calls' = [calls EXCEPT ![r][c] =
                         [calls[r][c] EXCEPT !.status = status, !.result = result]]
          /\ \E next \in AfterCall(t, c, [calls[r][c] EXCEPT !.status = status, !.result = result]) :
               task' = [task EXCEPT ![t] = next]
    BY <1>2, <1>5 DEF Receive, CallResults
  <2> DEFINE e == [calls[r][c] EXCEPT !.status = status, !.result = result]
  <2>3. /\ e \in Call /\ e.status = status /\ e.effects = calls[r][c].effects
        /\ e.write = calls[r][c].write /\ e.key = calls[r][c].key
        /\ e.result = result
        /\ e.gated = calls[r][c].gated /\ e.approved = calls[r][c].approved
    BY <1>3 DEF Call, CallStatuses
  <2>4. calls' = [calls EXCEPT ![r][c] = e]
    BY <2>2
  <2>5. PICK next \in AfterCall(t, c, e) : task' = [task EXCEPT ![t] = next]
    BY <2>2
  <2> HIDE DEF e
  <2>6. CallOK(e)
    BY <1>3, <1>4, <2>1, <2>2, <2>3 DEF CallOK, UnderWay
  <2>7. TasksStep /\ Quiet /\ task'[t].pc \notin FlightPcs
    BY <1>2, <2>3, <2>5, <2>6, AfterCallStep DEF CallOK
  <2>8. Keeps(r, c, e)
    BY <1>4, <2>7 DEF Keeps, Quiet, SameCall
  <2>9. calls[r][c].status \in CallSettled => e.status = calls[r][c].status
    BY <2>1 DEF CallSettled
  <2>10. CallsStep /\ FlightOK'
    BY <1>2, <2>3, <2>4, <2>6, <2>7, <2>8, <2>9, OneCall
  <2> QED
    BY <1>5, <2>7, <2>10, Compose, SameRows, SameRest, ZenonT(40) DEF Receive
<1>6. CASE ReceiveCanceled(t)
  <2>1. CASE Goto(t, Recovery(t))
    <3>1. Recovery(t) \in PlainPcs
      BY DEF Recovery, PlainPcs, Pcs, CallPcs
    <3>2. TasksStep /\ Quiet
      BY <1>2, <2>1, <3>1, GotoStep
    <3> QED
      BY <1>6, <3>2, Compose, SameCalls, SameRows, SameRest DEF ReceiveCanceled
  <2>2. CASE \E next \in AfterCall(t, c, calls[r][c]) : task' = [task EXCEPT ![t] = next]
    <3>1. PICK next \in AfterCall(t, c, calls[r][c]) : task' = [task EXCEPT ![t] = next]
      BY <2>2
    <3>2. TasksStep /\ Quiet
      BY <1>2, <1>3, <3>1, AfterCallStep DEF CallOK
    <3> QED
      BY <1>6, <3>2, Compose, SameCalls, SameRows, SameRest DEF ReceiveCanceled
  <2> QED
    BY <1>2, <1>6, <2>1, <2>2 DEF ReceiveCanceled
<1> QED
  BY <1>5, <1>6

\* A platform tool call, whoever makes it.
LEMMA CallStepGood ==
  ASSUME Inv, NEW t \in Tasks, CallStep(t)
  PROVE  Good
BY ProposeGood, AdvanceGood, SendGood, ReceiveGood DEF CallStep

-----------------------------------------------------------------------------
(* One step per action: the loops.                                         *)

\* A task that has saved a checkpoint goes on with the next revision.
LEMMA SavedStep ==
  ASSUME Inv, NEW t \in Tasks, task[t] # Idle, NEW pc \in PlainPcs,
         task' = [task EXCEPT ![t].pc = pc, ![t].rev = @ + 1]
  PROVE  TasksStep /\ Quiet
<1> DEFINE rev == task[t].rev + 1
           y == [task[t] EXCEPT !.pc = pc, !.rev = rev]
<1>1. task[t] \in Task /\ pc \in Pcs
  BY DEF Inv, TypeOK, PlainPcs
<1>2. rev \in Nat
  BY <1>1 DEF Task
<1>3. task' = [task EXCEPT ![t] = y]
  BY DEF Inv, TypeOK
<1> HIDE DEF rev
<1>4. y \in Task /\ y.pc = pc /\ y.run = task[t].run
  BY <1>1, <1>2 DEF Task
<1> HIDE DEF y
<1> QED
  BY <1>3, <1>4, PlainTo

\* A loop that takes a run, registers itself and is admitted or not.
LEMMA TakeGood ==
  ASSUME Inv, NEW t \in Executors,
         (\E r \in Runs : Claim(t, r)) \/ Register(t) \/ Admit(t)
  PROVE  Good
<1>1. t \in Tasks
  BY DEF Tasks
<1>2. ASSUME NEW r \in Runs, Claim(t, r)
      PROVE  Good
  <2> DEFINE ver == run[r].version + 1
             y == [Idle EXCEPT !.kind = "loop", !.pc = "register", !.run = r, !.ver = ver]
  <2>1. run[r] \in Row /\ ver \in Nat
    BY DEF Inv, TypeOK, Row
  <2>2. Idle \in Task /\ "register" \in Pcs /\ "register" \in PlainPcs /\ "loop" \in Kinds
    BY IdleOK DEF TaskOK, Pcs, Kinds, PlainPcs, CallPcs
  <2>3. task' = [task EXCEPT ![t] = y]
    BY <1>2 DEF Claim
  <2> HIDE DEF ver
  <2>4. y \in Task /\ y.pc = "register" /\ y.run = r
    BY <2>1, <2>2 DEF Task
  <2> HIDE DEF y
  <2>5. RunStep
    BY <1>2, UpdateRunStep DEF Claim, Lifecycle!Successors
  <2>6. run'[r].status # "absent"
    BY <1>2, <2>5, RunStepFacts DEF Claim, UpdateRun
  <2>7. TasksStep /\ Quiet
    BY <1>1, <2>2, <2>3, <2>4, <2>6, TakeStep
  <2> QED
    BY <1>2, <2>5, <2>7, Compose, SameCalls, SameRows, SameRest DEF Claim
<1>3. CASE Register(t)
  <2>1. task[t] # Idle
    BY <1>1, <1>3, Busy DEF Register, At
  <2>2. TasksStep /\ Quiet
    BY <1>1, <1>3, <2>1, GotoStep DEF Register, PlainPcs, Pcs, CallPcs
  <2>3. RestStep
    BY <1>3 DEF Register, RestStep, Inv, TypeOK
  <2> QED
    BY <1>3, <2>2, <2>3, Compose, SameCalls, SameRows DEF Register
<1>4. CASE Admit(t)
  <2>1. task[t] # Idle /\ Of(t) = task[t].run /\ Of(t) \in Runs
    BY <1>1, <1>4, Busy DEF Admit, At
  <2>2. CASE UNCHANGED run /\ (Goto(t, "start") \/ Goto(t, "exhausted"))
    <3>1. TasksStep /\ Quiet
      BY <1>1, <2>1, <2>2, GotoStep DEF PlainPcs, Pcs, CallPcs
    <3> QED
      BY <1>4, <2>2, <3>1, Compose, SameCalls, SameRows, SameRest DEF Admit
  <2>3. CASE /\ UpdateRun(Of(t), "running", "failed")
             /\ task' = [task EXCEPT ![t].pc = "finish", ![t].out = "failed"]
    <3>1. RunStep
      BY <2>1, <2>3, UpdateRunStep DEF Lifecycle!Successors
    <3>2. run'[Of(t)].status = "failed"
      BY <2>1, <2>3, MovedRow DEF UpdateRun, SetRun, Inv, TypeOK, Statuses, Terminal
    <3>3. TasksStep /\ Quiet
      BY <1>1, <2>1, <2>3, <3>2, FinishStep DEF Statuses, Terminal
    <3> QED
      BY <1>4, <3>1, <3>3, Compose, SameCalls, SameRows, SameRest DEF Admit
  <2> QED
    BY <1>4, <2>2, <2>3 DEF Admit
<1> QED
  BY <1>2, <1>3, <1>4

\* loadRunCheckpoint and recoverInterruptedBatch.
LEMMA ResumeGood ==
  ASSUME Inv, NEW t \in Executors, Start(t) \/ Settle(t)
  PROVE  Good
<1>1. t \in Tasks
  BY DEF Tasks
<1>2. task[t].kind # "idle"
  BY DEF Start, Settle, At
<1>3. /\ task[t] \in Task /\ task[t] # Idle /\ Of(t) = task[t].run
      /\ task[t].run \in Runs /\ ckpt[task[t].run] \in Checkpoint
      /\ task[t].call \in CallIds \cup {0} /\ task[t].owed \in SUBSET CallIds
  BY <1>1, <1>2, Busy, SMTT(30)
<1>4. CASE Start(t)
  <2> DEFINE cp == ckpt[task[t].run]
             plan == ResumePlan(cp)
             rev == cp.rev
             step == cp.step
             owed == cp.owed
             blocked == cp.blocked
             call == IF plan = "await" THEN cp.pending ELSE 0
             fenced == plan = "finalize" /\ cp.final
             pc == IF plan \in {"settle", "await"} THEN "settle"
                   ELSE IF plan = "verify" \/ cp.owed # {} THEN "verify"
                   ELSE "branch"
             y == [task[t] EXCEPT !.rev = rev, !.step = step, !.owed = owed,
                                  !.blocked = blocked, !.plan = plan, !.call = call,
                                  !.fenced = fenced, !.pc = pc]
  <2>1. task' = [task EXCEPT ![t].rev = rev, ![t].step = step, ![t].owed = owed,
                             ![t].blocked = blocked, ![t].plan = plan, ![t].call = call,
                             ![t].fenced = fenced, ![t].pc = pc]
    BY <1>3, <1>4, Zenon DEF Start
  <2>2. /\ rev \in Nat /\ step \in Nat /\ owed \in SUBSET CallIds
        /\ blocked \in SUBSET CallIds /\ cp.pending \in CallIds \cup {0}
        /\ cp.final \in BOOLEAN /\ cp.phase \in Phases
    BY <1>3 DEF Checkpoint
  <2>3. plan \in Plans
    BY <2>2 DEF ResumePlan, Plans, Phases
  <2>4. call \in CallIds \cup {0} /\ fenced \in BOOLEAN /\ pc \in PlainPcs /\ pc \in Pcs
    BY <2>2 DEF PlainPcs, Pcs, CallPcs
  <2> HIDE DEF cp, plan, rev, step, owed, blocked, call, fenced, pc
  <2>5. task' = [task EXCEPT ![t] = y]
    BY <1>1, <1>3, <2>1 DEF Inv, TypeOK
  <2>6. y \in Task
    BY <1>3, <2>2, <2>3, <2>4 DEF Task
  <2>7. y.pc = pc /\ y.run = task[t].run
    BY <1>3 DEF Task
  <2> HIDE DEF y
  <2>8. TasksStep /\ Quiet
    BY <1>1, <1>3, <2>4, <2>5, <2>6, <2>7, PlainTo
  <2> QED
    BY <1>4, <2>8, Compose, SameCalls, SameRows, SameRest DEF Start
<1>5. CASE Settle(t)
  <2>1. CASE Goto(t, "fail")
    <3>1. TasksStep /\ Quiet
      BY <1>1, <1>3, <2>1, GotoStep, SMTT(30) DEF PlainPcs, Pcs, CallPcs
    <3> QED
      BY <1>5, <3>1, Compose, SameCalls, SameRows, SameRest DEF Settle
  <2>2. CASE ~Goto(t, "fail")
    <3> DEFINE owed == task[t].owed \cup OwedBy(Of(t))
               blocked == BlockedBy(Of(t), task[t].blocked)
               pc == IF owed = {} THEN "branch" ELSE "verify"
    <3>1. PICK c \in FirstAwaiting(Of(t), task[t].call) :
            task' = [task EXCEPT ![t].owed = owed, ![t].call = c,
                                 ![t].blocked = BlockedBy(Of(t), @), ![t].pc = pc]
      BY <1>5, <2>2 DEF Settle
    <3>2. c \in CallIds \cup {0}
      BY <1>3, <3>1 DEF FirstAwaiting, Awaiting
    <3>3. owed \in SUBSET CallIds /\ blocked \in SUBSET CallIds
      BY <1>3 DEF OwedBy, BlockedBy
    <3>4. pc \in Pcs /\ pc \in PlainPcs
      BY DEF PlainPcs, Pcs, CallPcs
    <3> DEFINE y == [task[t] EXCEPT !.owed = owed, !.call = c, !.blocked = blocked, !.pc = pc]
    <3>5. task' = [task EXCEPT ![t] = y]
      BY <3>1 DEF Inv, TypeOK
    <3> HIDE DEF owed, blocked, pc
    <3>6. y \in Task /\ y.pc = pc /\ y.run = task[t].run
      BY <1>3, <3>2, <3>3, <3>4 DEF Task
    <3> HIDE DEF y
    <3>7. TasksStep /\ Quiet
      BY <1>1, <1>3, <3>4, <3>5, <3>6, PlainTo
    <3> QED
      BY <1>5, <3>7, Compose, SameCalls, SameRows, SameRest, ZenonT(40) DEF Settle
  <2> QED
    BY <2>1, <2>2
<1> QED
  BY <1>4, <1>5

\* The pc an abort leads to.
LEMMA AbortPcPlain ==
  ASSUME NEW t
  PROVE  AbortPc(t) \in PlainPcs
BY DEF AbortPc, PlainPcs, Pcs, CallPcs

\* Reading accepted writes back.
LEMMA VerifyGood ==
  ASSUME Inv, NEW t \in Executors,
         Verify(t) \/ CheckVerified(t) \/ CheckPending(t) \/ CheckFailed(t)
  PROVE  Good
<1>1. t \in Tasks
  BY DEF Tasks
<1>2. task[t].kind # "idle"
  BY DEF Verify, CheckVerified, CheckPending, CheckFailed, At
<1>3. /\ task[t] \in Task /\ task[t] # Idle /\ Of(t) = task[t].run /\ task[t].run \in Runs
      /\ task[t].step \in Nat /\ task[t].owed \in SUBSET CallIds
      /\ task[t].blocked \in SUBSET CallIds
  BY <1>1, <1>2, Busy
<1>4. CASE Verify(t)
  <2>1. TasksStep /\ Quiet
    <3>1. CASE task[t].owed = {}
      BY <1>1, <1>3, <1>4, <3>1, GotoStep DEF Verify, PlainPcs, Pcs, CallPcs
    <3>2. CASE task[t].owed # {}
      <4> DEFINE pc == IF task[t].abort = "none" THEN "check" ELSE AbortPc(t)
      <4>1. pc \in PlainPcs
        BY AbortPcPlain DEF PlainPcs, Pcs, CallPcs
      <4>2. task' = [task EXCEPT ![t].pc = pc, ![t].rev = @ + 1]
        BY <1>4, <3>2 DEF Verify
      <4> HIDE DEF pc
      <4> QED
        BY <1>1, <1>3, <4>1, <4>2, SavedStep
    <3> QED
      BY <3>1, <3>2
  <2>2. CkptStep
    BY <1>1, <1>3, <1>4, SaveStep, SameRows DEF Verify, Phases
  <2> QED
    BY <1>4, <2>1, <2>2, Compose, SameCalls, SameRows, SameRest DEF Verify
<1>5. CASE CheckVerified(t)
  <2>1. PICK c \in task[t].owed :
          /\ calls' = [calls EXCEPT ![Of(t)][c].verified = TRUE]
          /\ task' = [task EXCEPT ![t].pc = "verify", ![t].owed = @ \ {c},
                                  ![t].blocked = @ \ {calls[Of(t)][c].key}]
    BY <1>5 DEF CheckVerified
  <2> DEFINE owed == task[t].owed \ {c}
             blocked == task[t].blocked \ {calls[Of(t)][c].key}
             y == [task[t] EXCEPT !.pc = "verify", !.owed = owed, !.blocked = blocked]
             e == [calls[Of(t)][c] EXCEPT !.verified = TRUE]
  <2>2. c \in CallIds /\ owed \in SUBSET CallIds /\ blocked \in SUBSET CallIds
    BY <1>3
  <2>3. task' = [task EXCEPT ![t] = y]
    BY <2>1 DEF Inv, TypeOK
  <2>4. "verify" \in Pcs /\ "verify" \in PlainPcs
    BY DEF PlainPcs, Pcs, CallPcs
  <2> HIDE DEF owed, blocked
  <2>5. y \in Task /\ y.pc = "verify" /\ y.run = task[t].run
    BY <1>3, <2>2, <2>4 DEF Task
  <2> HIDE DEF y
  <2>6. TasksStep /\ Quiet
    BY <1>1, <1>3, <2>3, <2>4, <2>5, PlainTo
  <2>7. calls[Of(t)][c] \in Call /\ CallOK(calls[Of(t)][c])
    BY <1>3, <2>2 DEF Inv, TypeOK, CallsOK
  <2>8. /\ e \in Call /\ e.effects = calls[Of(t)][c].effects
        /\ e.write = calls[Of(t)][c].write /\ e.key = calls[Of(t)][c].key
        /\ e.result = calls[Of(t)][c].result
        /\ e.gated = calls[Of(t)][c].gated /\ e.approved = calls[Of(t)][c].approved
        /\ e.status = calls[Of(t)][c].status
    BY <2>7 DEF Call
  <2>9. calls' = [calls EXCEPT ![Of(t)][c] = e]
    BY <2>1
  <2> HIDE DEF e
  <2>10. CallOK(e)
    BY <2>7, <2>8 DEF CallOK
  <2>11. Keeps(Of(t), c, e)
    <3> SUFFICES ASSUME NEW u \in Tasks, task'[u].pc \in FlightPcs,
                        task[u].run = Of(t), task[u].call = c
                 PROVE  UnderWay(task[u], e)
      BY DEF Keeps
    <3>1. task[u].pc \in FlightPcs
      BY <2>6 DEF Quiet
    <3>2. UnderWay(task[u], calls[Of(t)][c])
      BY <3>1 DEF Inv, FlightOK
    <3> QED
      BY <2>8, <3>2 DEF UnderWay
  <2>12. CallsStep /\ FlightOK'
    BY <1>3, <2>2, <2>6, <2>8, <2>9, <2>10, <2>11, OneCall
  <2> QED
    BY <1>5, <2>6, <2>12, Compose, SameRows, SameRest DEF CheckVerified
<1>6. CASE CheckPending(t)
  <2>1. TasksStep /\ Quiet
    BY <1>1, <1>3, <1>6, SavedStep DEF CheckPending, PlainPcs, Pcs, CallPcs
  <2>2. CkptStep
    BY <1>1, <1>3, <1>6, SaveStep DEF CheckPending, Phases
  <2> QED
    BY <1>6, <2>1, <2>2, Compose, SameCalls, SameRows, SameRest DEF CheckPending
<1>7. CASE CheckFailed(t)
  <2>1. TasksStep /\ Quiet
    BY <1>1, <1>3, <1>7, GotoStep DEF CheckFailed, PlainPcs, Pcs, CallPcs
  <2> QED
    BY <1>7, <2>1, Compose, SameCalls, SameRows, SameRest DEF CheckFailed
<1> QED
  BY <1>4, <1>5, <1>6, <1>7

\* What a resumed run does first.
LEMMA BranchGood ==
  ASSUME Inv, NEW t \in Executors, Branch(t)
  PROVE  Good
<1>1. t \in Tasks
  BY DEF Tasks
<1>2. task[t].kind # "idle"
  BY DEF Branch, At
<1>3. /\ task[t] \in Task /\ task[t] # Idle /\ Of(t) = task[t].run /\ task[t].run \in Runs
      /\ task[t].rev \in Nat /\ task[t].step \in Nat /\ task[t].owed \in SUBSET CallIds
      /\ task[t].blocked \in SUBSET CallIds
  BY <1>1, <1>2, Busy
<1>4. CASE BranchDirect(t)
  <2> DEFINE call == IF MaxToolCalls = 0 THEN NoCall ELSE calls[Of(t)][1]
             blocked == Tracked(task[t].blocked, call)
  <2>1. call \in Call /\ CallOK(call)
    <3>1. CASE MaxToolCalls = 0
      BY <3>1 DEF NoCall, Call, CallStatuses, CallResults, CallOK
    <3>2. CASE MaxToolCalls # 0
      <4>1. 1 \in CallIds
        BY <3>2, LimitsAssumption DEF CallIds
      <4> QED
        BY <1>3, <3>2, <4>1 DEF Inv, TypeOK, CallsOK
    <3> QED
      BY <3>1, <3>2
  <2>2. blocked \in SUBSET CallIds
    BY <1>3, <2>1, TrackedType DEF CallOK
  <2>3. CASE StopFor(t, "fail", FALSE) /\ UNCHANGED ckpt
    <3>1. TasksStep /\ Quiet
      BY <1>1, <1>3, <2>3, StopForStep DEF PlainPcs, Pcs, CallPcs
    <3> QED
      BY <1>4, <2>3, <3>1, Compose, SameCalls, SameRows, SameRest DEF Branch
  <2>4. CASE /\ call.status = "succeeded" /\ UNCHANGED ckpt
             /\ task' = [task EXCEPT ![t].owed = {1}, ![t].rechecked = TRUE,
                                     ![t].blocked = blocked, ![t].pc = "verify"]
    <3> DEFINE y == [task[t] EXCEPT !.owed = {1}, !.rechecked = TRUE,
                                    !.blocked = blocked, !.pc = "verify"]
    <3>1. 1 \in CallIds
      BY <2>4, LimitsAssumption DEF CallIds, NoCall
    <3>2. task' = [task EXCEPT ![t] = y]
      BY <2>4 DEF Inv, TypeOK
    <3>3. "verify" \in Pcs /\ "verify" \in PlainPcs
      BY DEF PlainPcs, Pcs, CallPcs
    <3> HIDE DEF blocked
    <3>4. y \in Task /\ y.pc = "verify" /\ y.run = task[t].run
      BY <1>3, <2>2, <3>1, <3>3 DEF Task
    <3> HIDE DEF y
    <3>5. TasksStep /\ Quiet
      BY <1>1, <1>3, <3>2, <3>3, <3>4, PlainTo
    <3> QED
      BY <1>4, <2>4, <3>5, Compose, SameCalls, SameRows, SameRest DEF Branch
  <2>5. CASE /\ Save(t, "finalizing", task[t].step, 0, task[t].owed, FALSE)
             /\ task' = [task EXCEPT ![t].pc = "commit", ![t].rev = @ + 1,
                  ![t].blocked = blocked, ![t].fenced = FALSE,
                  ![t].out = IF call.status = "canceled" THEN "failed" ELSE "completed"]
    <3> DEFINE rev == task[t].rev + 1
               out == IF call.status = "canceled" THEN "failed" ELSE "completed"
               y == [task[t] EXCEPT !.pc = "commit", !.rev = rev, !.blocked = blocked,
                                    !.fenced = FALSE, !.out = out]
    <3>1. task' = [task EXCEPT ![t] = y]
      BY <2>5 DEF Inv, TypeOK
    <3>2. rev \in Nat /\ out \in {"completed", "failed"} /\ out \in Statuses
      BY <1>3 DEF Statuses, Terminal
    <3>3. "commit" \in Pcs
      BY DEF Pcs
    <3> HIDE DEF blocked, rev, out
    <3>4. y \in Task /\ y.pc = "commit" /\ y.run = task[t].run /\ y.out = out
      BY <1>3, <2>2, <3>2, <3>3 DEF Task
    <3> HIDE DEF y
    <3>5. TasksStep /\ Quiet
      BY <1>1, <1>3, <3>1, <3>2, <3>4, StepTo DEF FlightPcs, CallPcs, Reports
    <3>6. CkptStep
      BY <1>1, <1>3, <2>5, SaveStep DEF Phases
    <3> QED
      BY <1>4, <3>5, <3>6, Compose, SameCalls, SameRows, SameRest DEF Branch
  <2> QED
    BY <1>4, <2>3, <2>4, <2>5 DEF BranchDirect
<1>5. CASE BranchModel(t)
  <2>1. CASE Goto(t, "park") \/ StopFor(t, "fail", FALSE)
    BY <1>1, <1>3, <1>5, <2>1, GotoStep, StopForStep, Compose, SameCalls, SameRows, SameRest
    DEF Branch, BranchModel, PlainPcs, Pcs, CallPcs
  <2>2. CASE task' = [task EXCEPT ![t].call = 0,
               ![t].pc = IF task[t].plan = "finalize" THEN "finalize" ELSE "model"]
    <3> DEFINE pc == IF task[t].plan = "finalize" THEN "finalize" ELSE "model"
               y == [task[t] EXCEPT !.call = 0, !.pc = pc]
    <3>1. task' = [task EXCEPT ![t] = y]
      BY <2>2 DEF Inv, TypeOK
    <3>2. pc \in Pcs /\ pc \in PlainPcs
      BY DEF PlainPcs, Pcs, CallPcs
    <3> HIDE DEF pc
    <3>3. y \in Task /\ y.pc = pc /\ y.run = task[t].run
      BY <1>3, <3>2 DEF Task
    <3> HIDE DEF y
    <3>4. TasksStep /\ Quiet
      BY <1>1, <1>3, <3>1, <3>2, <3>3, PlainTo
    <3> QED
      BY <1>5, <3>4, Compose, SameCalls, SameRows, SameRest DEF Branch, BranchModel
  <2> QED
    BY <1>5, <2>1, <2>2 DEF BranchModel
<1> QED
  BY <1>4, <1>5 DEF Branch

\* The model loop: a request to the model, its decision, the tool batch.
LEMMA ModelGood ==
  ASSUME Inv, NEW t \in Executors,
         \/ Model(t) \/ Decide(t) \/ StreamError(t) \/ AbortSeen(t)
         \/ Tools(t) \/ BatchEnd(t) \/ BatchComplete(t)
  PROVE  Good
<1>1. t \in Tasks
  BY DEF Tasks
<1>2. task[t].kind # "idle"
  BY DEF Model, Decide, StreamError, AbortSeen, Tools, BatchEnd, BatchComplete, At
<1>3. /\ task[t] \in Task /\ task[t] # Idle /\ Of(t) = task[t].run /\ task[t].run \in Runs
      /\ task[t].rev \in Nat /\ task[t].step \in Nat /\ task[t].owed \in SUBSET CallIds
  BY <1>1, <1>2, Busy
<1>4. CASE Model(t)
  <2>1. CASE StopFor(t, "fail", FALSE) /\ UNCHANGED ckpt
    <3>1. TasksStep /\ Quiet
      BY <1>1, <1>3, <2>1, StopForStep DEF PlainPcs, Pcs, CallPcs
    <3> QED
      BY <1>4, <2>1, <3>1, Compose, SameCalls, SameRows, SameRest DEF Model
  <2>2. CASE Save(t, "model", task[t].step, 0, task[t].owed, FALSE)
    <3> DEFINE rev == task[t].rev + 1
               pc == IF task[t].abort = "none" THEN "stream" ELSE AbortPc(t)
               fenced == task[t].abort # "none"
               y == [task[t] EXCEPT !.rev = rev, !.pc = pc, !.fenced = fenced]
    <3>1. CASE StopFor(t, "fail", FALSE) /\ UNCHANGED ckpt
      BY <2>1, <3>1
    <3>2. CASE ~(StopFor(t, "fail", FALSE) /\ UNCHANGED ckpt)
      <4>1. task' = [task EXCEPT ![t] = y]
        BY <1>4, <3>2 DEF Model, Inv, TypeOK
      <4>2. rev \in Nat /\ pc \in Pcs /\ pc \in PlainPcs /\ fenced \in BOOLEAN
        BY <1>3, AbortPcPlain DEF PlainPcs, Pcs, CallPcs
      <4> HIDE DEF rev, pc, fenced
      <4>3. y \in Task /\ y.pc = pc /\ y.run = task[t].run
        BY <1>3, <4>2 DEF Task
      <4> HIDE DEF y
      <4>4. TasksStep /\ Quiet
        BY <1>1, <1>3, <4>1, <4>2, <4>3, PlainTo
      <4>5. CkptStep
        BY <1>1, <1>3, <2>2, SaveStep DEF Phases
      <4> QED
        BY <1>4, <4>4, <4>5, Compose, SameCalls, SameRows, SameRest DEF Model
    <3> QED
      BY <3>1, <3>2
  <2> QED
    BY <1>4, <2>1, <2>2 DEF Model
<1>5. CASE Decide(t)
  <2>1. CASE Goto(t, "tools") \/ StopFor(t, "fail", FALSE)
    <3>1. TasksStep /\ Quiet
      BY <1>1, <1>3, <2>1, GotoStep, StopForStep DEF PlainPcs, Pcs, CallPcs
    <3> QED
      BY <1>5, <3>1, Compose, SameCalls, SameRows, SameRest DEF Decide
  <2>2. CASE task' = [task EXCEPT ![t].pc = "model", ![t].step = @ + 1]
    <3> DEFINE step == task[t].step + 1
               y == [task[t] EXCEPT !.pc = "model", !.step = step]
    <3>1. task' = [task EXCEPT ![t] = y]
      BY <2>2 DEF Inv, TypeOK
    <3>2. step \in Nat /\ "model" \in Pcs /\ "model" \in PlainPcs
      BY <1>3 DEF PlainPcs, Pcs, CallPcs
    <3> HIDE DEF step
    <3>3. y \in Task /\ y.pc = "model" /\ y.run = task[t].run
      BY <1>3, <3>2 DEF Task
    <3> HIDE DEF y
    <3>4. TasksStep /\ Quiet
      BY <1>1, <1>3, <3>1, <3>2, <3>3, PlainTo
    <3> QED
      BY <1>5, <3>4, Compose, SameCalls, SameRows, SameRest DEF Decide
  <2>3. CASE task' = [task EXCEPT ![t].pc = "finalize", ![t].fenced = TRUE]
    <3>1. StopFor(t, "finalize", TRUE)
      BY <2>3 DEF StopFor
    <3>2. TasksStep /\ Quiet
      BY <1>1, <1>3, <3>1, StopForStep DEF PlainPcs, Pcs, CallPcs
    <3> QED
      BY <1>5, <3>2, Compose, SameCalls, SameRows, SameRest DEF Decide
  <2> QED
    BY <1>5, <2>1, <2>2, <2>3 DEF Decide
<1>6. CASE StreamError(t)
  <2>1. TasksStep /\ Quiet
    BY <1>1, <1>3, <1>6, StopForStep DEF StreamError, PlainPcs, Pcs, CallPcs
  <2> QED
    BY <1>6, <2>1, Compose, SameCalls, SameRows, SameRest DEF StreamError
<1>7. CASE AbortSeen(t)
  <2>1. (task[t].pc = "stream") \in BOOLEAN
    OBVIOUS
  <2>2. TasksStep /\ Quiet
    BY <1>1, <1>3, <1>7, <2>1, StopForStep, AbortPcPlain DEF AbortSeen
  <2> QED
    BY <1>7, <2>2, Compose, SameCalls, SameRows, SameRest DEF AbortSeen
<1>8. CASE Tools(t)
  <2> DEFINE rev == task[t].rev + 1
             step == task[t].step + 1
             y == [task[t] EXCEPT !.pc = "batch", !.rev = rev, !.step = step, !.call = 0]
  <2>1. task' = [task EXCEPT ![t] = y]
    BY <1>8 DEF Tools, Inv, TypeOK
  <2>2. rev \in Nat /\ step \in Nat /\ "batch" \in Pcs /\ "batch" \in PlainPcs
    BY <1>3 DEF PlainPcs, Pcs, CallPcs
  <2>3. Save(t, "tool_execution", step, 0, task[t].owed, FALSE)
    BY <1>8 DEF Tools
  <2> HIDE DEF rev, step
  <2>4. y \in Task /\ y.pc = "batch" /\ y.run = task[t].run
    BY <1>3, <2>2 DEF Task
  <2> HIDE DEF y
  <2>5. TasksStep /\ Quiet
    BY <1>1, <1>3, <2>1, <2>2, <2>4, PlainTo
  <2>6. CkptStep
    BY <1>1, <1>3, <2>2, <2>3, SaveStep DEF Phases
  <2>7. RestStep
    BY <1>3, <1>8 DEF Tools, RestStep, Inv, TypeOK
  <2> QED
    BY <1>8, <2>5, <2>6, <2>7, Compose, SameCalls, SameRows DEF Tools
<1>9. CASE BatchEnd(t)
  <2> DEFINE pc == IF task[t].owed = {} THEN "model" ELSE "verify"
             y == [task[t] EXCEPT !.call = 0, !.pc = pc]
  <2>1. task' = [task EXCEPT ![t] = y]
    BY <1>9 DEF BatchEnd, Inv, TypeOK
  <2>2. pc \in Pcs /\ pc \in PlainPcs
    BY DEF PlainPcs, Pcs, CallPcs
  <2> HIDE DEF pc
  <2>3. y \in Task /\ y.pc = pc /\ y.run = task[t].run
    BY <1>3, <2>2 DEF Task
  <2> HIDE DEF y
  <2>4. TasksStep /\ Quiet
    BY <1>1, <1>3, <2>1, <2>2, <2>3, PlainTo
  <2> QED
    BY <1>9, <2>4, Compose, SameCalls, SameRows, SameRest DEF BatchEnd
<1>10. CASE BatchComplete(t)
  <2>1. TasksStep /\ Quiet
    BY <1>1, <1>3, <1>10, StopForStep DEF BatchComplete, PlainPcs, Pcs, CallPcs
  <2> QED
    BY <1>10, <2>1, Compose, SameCalls, SameRows, SameRest DEF BatchComplete
<1> QED
  BY <1>4, <1>5, <1>6, <1>7, <1>8, <1>9, <1>10

\* A loop that hands its run to the user: the checkpoint first, the row after it.
LEMMA ParkGood ==
  ASSUME Inv, NEW t \in Executors, Park(t) \/ ParkRun(t) \/ Input(t) \/ InputRun(t)
  PROVE  Good
<1>1. t \in Tasks
  BY DEF Tasks
<1>2. task[t].kind # "idle"
  BY DEF Park, ParkRun, Input, InputRun, At
<1>3. /\ task[t] \in Task /\ task[t] # Idle /\ Of(t) = task[t].run /\ task[t].run \in Runs
      /\ task[t].step \in Nat /\ task[t].owed \in SUBSET CallIds
      /\ task[t].call \in CallIds \cup {0}
  BY <1>1, <1>2, Busy
<1>4. CASE Park(t)
  <2>1. TasksStep /\ Quiet
    BY <1>1, <1>3, <1>4, SavedStep DEF Park, PlainPcs, Pcs, CallPcs
  <2>2. CkptStep
    BY <1>1, <1>3, <1>4, SaveStep DEF Park, Phases
  <2> QED
    BY <1>4, <2>1, <2>2, Compose, SameCalls, SameRows, SameRest DEF Park
<1>5. CASE ParkRun(t)
  <2>1. RunStep
    BY <1>3, <1>5, UpdateRunStep, SameRows
    DEF ParkRun, Lifecycle!Successors, Lifecycle!Parked
  <2>2. TasksStep /\ Quiet
    <3>1. CASE task' = [task EXCEPT ![t].pc = "finish", ![t].out = "waiting_approval"]
      BY <1>1, <1>3, <3>1, FinishStep DEF Statuses, Parked, Terminal
    <3>2. CASE StopFor(t, IF run[Of(t)].status = "canceled" THEN "cancel" ELSE "fail", FALSE)
      BY <1>1, <1>3, <3>2, StopForStep DEF PlainPcs, Pcs, CallPcs
    <3> QED
      BY <1>5, <3>1, <3>2 DEF ParkRun
  <2> QED
    BY <1>5, <2>1, <2>2, Compose, SameCalls, SameRows, SameRest DEF ParkRun
<1>6. CASE Input(t)
  <2>1. TasksStep /\ Quiet
    BY <1>1, <1>3, <1>6, SavedStep DEF Input, PlainPcs, Pcs, CallPcs
  <2>2. CkptStep
    BY <1>1, <1>3, <1>6, SaveStep DEF Input, Phases
  <2> QED
    BY <1>6, <2>1, <2>2, Compose, SameCalls, SameRows, SameRest DEF Input
<1>7. CASE InputRun(t)
  <2>1. RunStep
    BY <1>3, <1>7, UpdateRunStep, SameRows
    DEF InputRun, Lifecycle!Successors, Lifecycle!Parked
  <2>2. TasksStep /\ Quiet
    <3>1. CASE task' = [task EXCEPT ![t].pc = "finish", ![t].out = "waiting_input"]
      BY <1>1, <1>3, <3>1, FinishStep DEF Statuses, Parked, Terminal
    <3>2. CASE Goto(t, "exhausted")
      BY <1>1, <1>3, <3>2, GotoStep DEF PlainPcs, Pcs, CallPcs
    <3> QED
      BY <1>7, <3>1, <3>2 DEF InputRun
  <2> QED
    BY <1>7, <2>1, <2>2, Compose, SameCalls, SameRows, SameRest DEF InputRun
<1> QED
  BY <1>4, <1>5, <1>6, <1>7

\* The phase before a completed run is committed.
LEMMA FinalizeGood ==
  ASSUME Inv, NEW t \in Executors, Finalize(t)
  PROVE  Good
<1>1. t \in Tasks
  BY DEF Tasks
<1>2. task[t].kind # "idle"
  BY DEF Finalize, At
<1>3. /\ task[t] \in Task /\ task[t] # Idle /\ Of(t) = task[t].run /\ task[t].run \in Runs
      /\ task[t].rev \in Nat /\ task[t].step \in Nat /\ task[t].owed \in SUBSET CallIds
  BY <1>1, <1>2, Busy
<1>4. task[t].fenced \in BOOLEAN
  BY <1>3 DEF Task
<1>5. CASE StopFor(t, "fail", OpenSession(t)) /\ UNCHANGED ckpt
  <2>1. OpenSession(t) \in BOOLEAN
    BY <1>4 DEF OpenSession
  <2>2. TasksStep /\ Quiet
    BY <1>1, <1>3, <1>5, <2>1, StopForStep DEF PlainPcs, Pcs, CallPcs
  <2> QED
    BY <1>5, <2>2, Compose, SameCalls, SameRows, SameRest DEF Finalize
<1>6. CASE /\ Save(t, "finalizing", task[t].step, 0, task[t].owed, task[t].fenced)
           /\ task' = [task EXCEPT ![t].pc = "commit", ![t].rev = @ + 1, ![t].out = "completed"]
  <2> DEFINE rev == task[t].rev + 1
             y == [task[t] EXCEPT !.pc = "commit", !.rev = rev, !.out = "completed"]
  <2>1. task' = [task EXCEPT ![t] = y]
    BY <1>6 DEF Inv, TypeOK
  <2>2. rev \in Nat /\ "commit" \in Pcs /\ "completed" \in Statuses
    BY <1>3 DEF Pcs, Statuses, Terminal
  <2> HIDE DEF rev
  <2>3. y \in Task /\ y.pc = "commit" /\ y.run = task[t].run /\ y.out = "completed"
    BY <1>3, <2>2 DEF Task
  <2> HIDE DEF y
  <2>4. TasksStep /\ Quiet
    BY <1>1, <1>3, <2>1, <2>3, StepTo DEF FlightPcs, CallPcs, Reports
  <2>5. CkptStep
    BY <1>1, <1>3, <1>4, <1>6, SaveStep DEF Phases
  <2> QED
    BY <2>4, <2>5, Compose, SameCalls, SameRows, SameRest DEF Finalize
<1> QED
  BY <1>5, <1>6 DEF Finalize

\* commitTerminal: the row ends with the outcome reported, or had ended before.
LEMMA TerminateGood ==
  ASSUME Inv, NEW t \in Executors, task[t].kind # "idle",
         NEW to \in {"completed", "failed", "interrupted", "canceled"}, Terminate(t, to)
  PROVE  Good
<1>1. t \in Tasks
  BY DEF Tasks
<1>2. /\ task[t] # Idle /\ Of(t) = task[t].run /\ task[t].run \in Runs
      /\ run[task[t].run] \in Row
  BY <1>1, Busy
<1>3. CASE run[Of(t)].status = "running" /\ SetRun(Of(t), to)
           /\ task' = [task EXCEPT ![t].pc = "finish", ![t].out = to]
  <2>1. to \in Lifecycle!Successors(run[Of(t)].status) /\ to \in Statuses
    BY <1>3 DEF Lifecycle!Successors, Statuses, Terminal
  <2>2. RunStep
    BY <1>2, <1>3, <2>1 DEF RunStep
  <2>3. run'[Of(t)].status = to
    BY <1>2, <1>3, <2>1, MovedRow DEF SetRun, Inv, TypeOK
  <2>4. TasksStep /\ Quiet
    BY <1>1, <1>2, <1>3, <2>1, <2>3, FinishStep
  <2> QED
    BY <2>2, <2>4, Compose, SameCalls, SameRows, SameRest DEF Terminate
<1>4. CASE UNCHANGED run
           /\ task' = [task EXCEPT ![t].pc = "finish", ![t].out = run[Of(t)].status]
  <2>1. run[Of(t)].status \in Statuses
    BY <1>2 DEF Row
  <2>2. TasksStep /\ Quiet
    BY <1>1, <1>2, <1>4, <2>1, FinishStep
  <2> QED
    BY <1>4, <2>2, Compose, SameCalls, SameRows, SameRest DEF Terminate
<1>5. CASE UNCHANGED run /\ Goto(t, "exhausted")
  <2>1. TasksStep /\ Quiet
    BY <1>1, <1>2, <1>5, GotoStep DEF PlainPcs, Pcs, CallPcs
  <2> QED
    BY <1>5, <2>1, Compose, SameCalls, SameRows, SameRest DEF Terminate
<1> QED
  BY <1>3, <1>4, <1>5 DEF Terminate, FenceOpen

\* How a loop ends.
LEMMA EndGood ==
  ASSUME Inv, NEW t \in Executors,
         \/ Commit(t) \/ Cancel(t) \/ Interrupt(t) \/ Fail(t) \/ Exhausted(t) \/ Finish(t)
  PROVE  Good
<1>1. t \in Tasks
  BY DEF Tasks
<1>2. task[t].kind # "idle"
  BY DEF Commit, Cancel, Interrupt, Fail, Exhausted, Finish, At
<1>3. /\ task[t] # Idle /\ Of(t) = task[t].run /\ task[t].run \in Runs
      /\ run[task[t].run].status # "absent" /\ TaskOK(task[t])
  BY <1>1, <1>2, Busy
<1>4. CASE Commit(t)
  <2>1. task[t].out \in {"completed", "failed"}
    BY <1>3, <1>4 DEF Commit, At, TaskOK
  <2> QED
    BY <1>2, <1>4, <2>1, TerminateGood DEF Commit
<1>5. CASE Interrupt(t)
  BY <1>2, <1>5, TerminateGood DEF Interrupt
<1>6. CASE Fail(t)
  BY <1>2, <1>6, TerminateGood DEF Fail
<1>7. CASE Cancel(t)
  <2>1. CASE Terminate(t, "canceled")
    BY <1>2, <2>1, TerminateGood
  <2>2. CASE /\ \/ CancelRun(Of(t))
                \/ UNCHANGED <<run, calls>>
             /\ task' = [task EXCEPT ![t].pc = "finish", ![t].out = "canceled"]
             /\ UNCHANGED <<ckpt, rest>>
    <3>1. TasksStep /\ Quiet
      BY <1>1, <1>3, <2>2, FinishStep DEF Statuses, Terminal
    <3>2. RunStep /\ CallsStep /\ FlightOK'
      BY <1>3, <2>2, <3>1, CancelRunStep, SameRows, SameCalls
    <3> QED
      BY <2>2, <3>1, <3>2, Compose, SameRows, SameRest
  <2> QED
    BY <1>7, <2>1, <2>2 DEF Cancel
<1>8. CASE Exhausted(t)
  <2>1. TasksStep /\ Quiet
    BY <1>1, <1>3, <1>8, FinishStep DEF Exhausted, Statuses, Terminal
  <2>2. RunStep
    BY <1>3, <1>8, UpdateRunStep, SameRows DEF Exhausted, Lifecycle!Successors
  <2> QED
    BY <1>8, <2>1, <2>2, Compose, SameCalls, SameRows, SameRest DEF Exhausted
<1>9. CASE Finish(t)
  <2>1. TasksStep /\ Quiet
    BY <1>1, <1>9, DoneStep DEF Finish
  <2>2. RestStep
    BY <1>9 DEF Finish, RestStep, Inv, TypeOK
  <2> QED
    BY <1>9, <2>1, <2>2, Compose, SameCalls, SameRows DEF Finish
<1> QED
  BY <1>4, <1>5, <1>6, <1>7, <1>8, <1>9

\* The timer of a run.
LEMMA TimeoutGood ==
  ASSUME Inv, NEW t \in Executors, Timeout(t)
  PROVE  Good
<1>1. t \in Tasks
  BY DEF Tasks
<1>2. task[t] # Idle /\ task[t].abort = "none"
  BY <1>1, Busy DEF Timeout
<1>3. task' = [task EXCEPT ![t] = Aborted(t, "timeout")]
  BY <1>2 DEF Timeout, Aborted
<1>4. task \in [Tasks -> Task]
  BY DEF Inv, TypeOK
<1>5. TasksStep /\ Quiet
  BY <1>1, <1>2, <1>3, <1>4, AbortTasks DEF Aborts
<1> QED
  BY <1>5, Compose, SameCalls, SameRows, SameRest DEF Timeout

\* A statement that fails on the database.
LEMMA OutageGood ==
  ASSUME Inv, NEW t \in Tasks, Outage(t)
  PROVE  Good
<1>1. task[t] # Idle /\ task[t] \in Task
  BY DEF Outage, Inv, TypeOK
<1>2. RestStep
  <2>1. /\ outages' = outages + 1
        /\ UNCHANGED <<controller, mode, recon, restarts, requeues, batches>>
    BY DEF Outage
  <2> QED
    BY <2>1, SMTT(30) DEF RestStep, Inv, TypeOK
<1>3. TasksStep /\ Quiet
  <2>1. CASE task[t].kind = "loop" /\ \E fenced \in BOOLEAN :
             \E pc \in {"finish", "exhausted", "fail"} :
               task' = [task EXCEPT ![t].fenced = fenced, ![t].out = "absent", ![t].pc = pc]
    <3>1. PICK fenced \in BOOLEAN, pc \in {"finish", "exhausted", "fail"} :
            task' = [task EXCEPT ![t].fenced = fenced, ![t].out = "absent", ![t].pc = pc]
      BY <2>1
    <3> DEFINE y == [task[t] EXCEPT !.fenced = fenced, !.out = "absent", !.pc = pc]
    <3>2. pc \in Pcs /\ "absent" \in Statuses
      BY DEF Pcs, Statuses
    <3>3. y \in Task /\ y.pc = pc /\ y.out = "absent" /\ y.run = task[t].run
      BY <1>1, <3>2 DEF Task
    <3>4. task' = [task EXCEPT ![t] = y]
      BY <3>1 DEF Inv, TypeOK
    <3> HIDE DEF y
    <3> QED
      BY <1>1, <3>3, <3>4, StepTo DEF FlightPcs, CallPcs, Reports, Terminal
  <2>2. CASE Goto(t, "undo") \/ Goto(t, "release") \/ Done(t)
    BY <1>1, <2>2, GotoStep, DoneStep DEF PlainPcs, Pcs, CallPcs
  <2>3. CASE task[t].kind = "loop" /\ ~(Goto(t, "undo") \/ Goto(t, "release") \/ Done(t))
    <3>1. OpenSession(t) \in BOOLEAN
      BY <1>1, SMTT(30) DEF OpenSession, Task
    <3>2. PICK fenced \in IF task[t].pc = "stream" THEN BOOLEAN ELSE {OpenSession(t)} :
            task' = [task EXCEPT ![t].fenced = fenced, ![t].out = "absent",
                       ![t].pc = CASE task[t].pc = "exhausted" -> "finish"
                                   [] task[t].pc \in EndingPcs -> "exhausted"
                                   [] OTHER -> "fail"]
      BY <2>3 DEF Outage
    <3>3. fenced \in BOOLEAN
      BY <3>1
    <3> QED
      BY <2>1, <2>3, <3>2, <3>3 DEF EndingPcs
  <2> QED
    BY <2>2, <2>3 DEF Outage
<1> QED
  BY <1>2, <1>3, Compose, SameCalls, SameRows DEF Outage

\* Everything a loop does.
LEMMA LoopGood ==
  ASSUME Inv, NEW t \in Executors, LoopStep(t) \/ LoopAnswer(t)
  PROVE  Good
<1>1. t \in Tasks
  BY DEF Tasks
<1> QED
  BY <1>1, TakeGood, ResumeGood, VerifyGood, BranchGood, ModelGood, ParkGood, FinalizeGood,
     EndGood, CheckpointConflictGood DEF LoopStep, LoopAnswer

-----------------------------------------------------------------------------
(* The process.                                                            *)

\* A step that touches neither rows nor tasks.
LEMMA RestOnly ==
  ASSUME Inv, RestStep, UNCHANGED <<run, ckpt, calls, task>>
  PROVE  Good
<1>1. task' = [t \in Tasks |-> task'[t]] /\ \A t \in Tasks : task'[t] = task[t]
  BY DEF Inv, TypeOK
<1> QED
  BY <1>1, AbortTasks, Compose, SameCalls, SameRows

\* Start-up, up to the recoveries, and an orderly end.
LEMMA BootGood ==
  ASSUME Inv, Boot \/ ListRunning \/ ReconcileDone \/ StopEnd
  PROVE  Good
<1>1. ASSUME Boot \/ ReconcileDone \/ StopEnd
      PROVE  Good
  <2>1. NoRecon \in Recon
    BY DEF NoRecon, Recon
  <2>2. RestStep
    BY <1>1, <2>1 DEF Boot, ReconcileDone, StopEnd, Down, RestStep, Inv, TypeOK, Modes
  <2> QED
    BY <1>1, <2>2, RestOnly DEF Boot, ReconcileDone, StopEnd
<1>2. ASSUME ListRunning
      PROVE  Good
  <2> DEFINE rows == {<<r, run[r].version>> : r \in {x \in Runs : run[x].status = "running"}}
  <2>1. \A r \in Runs : run[r].version \in Nat
    BY DEF Inv, TypeOK, Row
  <2>2. rows \in SUBSET (Runs \X Nat)
    BY <2>1
  <2>3. recon' = [listed |-> TRUE, clean |-> TRUE, todo |-> rows]
    BY <1>2 DEF ListRunning
  <2> HIDE DEF rows
  <2>4. recon' \in Recon
    BY <2>2, <2>3 DEF Recon
  <2>5. RestStep
    BY <1>2, <2>4 DEF ListRunning, RestStep, Inv, TypeOK
  <2> QED
    BY <1>2, <2>5, RestOnly DEF ListRunning
<1> QED
  BY <1>1, <1>2

\* The run that a restart puts back in the queue.
LEMMA RequeueGood ==
  ASSUME Inv, NEW r \in Runs, run[r].status = "running", ckpt[r].recoveries < MaxRecoveries,
         SetRun(r, "queued"),
         ckpt' = [ckpt EXCEPT ![r].recoveries = @ + 1, ![r].rev = @ + 1],
         requeues' = [requeues EXCEPT ![r] = @ + 1],
         recon' \in Recon,
         UNCHANGED <<calls, task, controller, mode, restarts, outages, batches>>
  PROVE  Good
<1> DEFINE n == ckpt[r].recoveries + 1
           rev == ckpt[r].rev + 1
           cp == [ckpt[r] EXCEPT !.recoveries = n, !.rev = rev]
<1>1. ckpt[r] \in Checkpoint /\ requeues[r] = ckpt[r].recoveries /\ run[r] \in Row
  BY DEF Inv, TypeOK, RecoveriesOK
<1>2. n \in Nat /\ rev \in Nat /\ n <= MaxRecoveries /\ n = requeues[r] + 1
  BY <1>1, LimitsAssumption DEF Checkpoint
<1>3. ckpt' = [ckpt EXCEPT ![r] = cp]
  BY DEF Inv, TypeOK
<1>4. requeues' = [requeues EXCEPT ![r] = n]
  BY <1>2
<1> HIDE DEF n, rev
<1>5. cp \in Checkpoint /\ cp.recoveries = n
  BY <1>1, <1>2 DEF Checkpoint
<1> HIDE DEF cp
<1>6. "queued" \in Lifecycle!Successors(run[r].status)
  BY DEF Lifecycle!Successors
<1>7. RunStep
  BY <1>6 DEF RunStep
<1>8. /\ run' \in [Runs -> Row]
      /\ \A s \in Runs : run'[s].status = "absent" => run'[s] = run[s]
      /\ \A s \in Runs : run[s].status \in Terminal => run'[s] = run[s]
  BY <1>7, RunStepFacts
<1>9. TypeOK'
  <2>1. ckpt' \in [Runs -> Checkpoint]
    BY <1>3, <1>5 DEF Inv, TypeOK
  <2>2. requeues' \in [Runs -> Nat]
    BY <1>2, <1>4 DEF Inv, TypeOK
  <2> QED
    BY <1>8, <2>1, <2>2 DEF Inv, TypeOK
<1>10. TasksOK' /\ RunsExist' /\ ReportsOK'
  <2>1. \A t \in Tasks : TaskOK(task[t]) /\ (task[t] # Idle => task[t].run \in Runs)
    BY DEF Inv, TasksOK, TaskOK
  <2>2. \A t \in Tasks : Reports(task[t]) => task[t] # Idle /\ task[t].out \in Terminal
    BY IdleOK DEF Reports
  <2>3. TasksOK' /\ RunsExist'
    BY <1>8, <2>1 DEF Inv, TasksOK, RunsExist
  <2>4. ReportsOK'
    BY <1>8, <2>1, <2>2 DEF Inv, ReportsOK
  <2> QED
    BY <2>3, <2>4
<1>11. RowsOK' /\ CallsOK' /\ FlightOK' /\ SettledStay
  BY <1>8 DEF Inv, RowsOK, CallsOK, FlightOK, SettledStay
<1>12. RecoveriesOK'
  BY <1>2, <1>3, <1>4, <1>5 DEF Inv, RecoveriesOK, TypeOK
<1>13. Lifecycle!Recover(r)
  <2>1. requeues[r] < MaxRecoveries
    BY <1>1
  <2> QED
    BY <2>1 DEF Lifecycle!Recover, SetRun, Moved, Lifecycle!Moved
<1> QED
  BY <1>9, <1>10, <1>11, <1>12, <1>13 DEF Good, Inv, Lifecycle!Next

\* The recovery of a listed row.
LEMMA RecoverGood ==
  ASSUME Inv, NEW r \in Runs, NEW v \in Nat, RecoverOne(r, v)
  PROVE  Good
<1>1. recon' \in Recon
  <2>1. recon \in Recon
    BY DEF Inv, TypeOK
  <2>2. recon.todo \ {<<r, v>>} \in SUBSET (Runs \X Nat)
    BY <2>1 DEF Recon
  <2> DEFINE todo == recon.todo \ {<<r, v>>}
  <2>3. recon' = [recon EXCEPT !.todo = todo] \/ recon' = [recon EXCEPT !.todo = todo, !.clean = FALSE]
    BY DEF RecoverOne
  <2> HIDE DEF todo
  <2>4. todo \in SUBSET (Runs \X Nat)
    BY <2>2 DEF todo
  <2> QED
    BY <2>1, <2>3, <2>4 DEF Recon
<1>2. CASE requeues' # requeues \/ ckpt' # ckpt
  BY <1>1, <1>2, RequeueGood DEF RecoverOne
<1>3. CASE requeues' = requeues /\ ckpt' = ckpt
  <2>1. RestStep
    BY <1>1, <1>3 DEF RecoverOne, RestStep, Inv, TypeOK
  <2>2. run[r].status = "running" /\ run' # run => SetRun(r, "interrupted") \/ SetRun(r, "queued")
    BY DEF RecoverOne
  <2>3. run' # run => run[r].status = "running"
    BY DEF RecoverOne
  <2>4. {"queued", "interrupted"} \subseteq Lifecycle!Successors("running")
    BY DEF Lifecycle!Successors
  <2>5. RunStep
    BY <2>2, <2>3, <2>4 DEF RunStep
  <2>6. TasksStep /\ Quiet
    <3>1. task' = [t \in Tasks |-> task'[t]] /\ \A t \in Tasks : task'[t] = task[t]
      BY DEF RecoverOne, Inv, TypeOK
    <3> QED
      BY <3>1, AbortTasks
  <2> QED
    BY <1>3, <2>1, <2>5, <2>6, Compose, SameCalls, SameRows DEF RecoverOne
<1> QED
  BY <1>2, <1>3

\* Start-up.
LEMMA ProcessGood ==
  ASSUME Inv, Process
  PROVE  Good
<1>1. ASSUME NEW row \in recon.todo, RecoverOne(row[1], row[2])
      PROVE  Good
  <2>1. row[1] \in Runs /\ row[2] \in Nat
    BY <1>1 DEF Inv, TypeOK, Recon
  <2> QED
    BY <1>1, <2>1, RecoverGood
<1> QED
  BY <1>1, BootGood DEF Process

\* A shutdown aborts what it reaches.
LEMMA StopBeginGood ==
  ASSUME Inv, StopBegin
  PROVE  Good
<1>1. \A t \in Tasks :
        \/ task'[t] = task[t]
        \/ task[t] # Idle /\ \E reason \in Aborts : task'[t] = Aborted(t, reason)
  BY ReachedBusy DEF StopBegin, Aborts
<1>2. task' = [t \in Tasks |-> task'[t]]
  BY DEF StopBegin
<1>3. TasksStep /\ Quiet
  BY <1>1, <1>2, AbortTasks
<1>4. RestStep
  BY DEF StopBegin, RestStep, Inv, TypeOK, Modes
<1> QED
  BY <1>3, <1>4, Compose, SameCalls, SameRows DEF StopBegin

\* A crash forgets every task.
LEMMA CrashGood ==
  ASSUME Inv, Crash
  PROVE  Good
<1>1. task' = [t \in Tasks |-> task'[t]] /\ \A t \in Tasks : task'[t] = Idle
  BY DEF Crash
<1>2. TasksStep /\ Quiet
  BY <1>1, AbortTasks
<1>3. NoRecon \in Recon
  BY DEF NoRecon, Recon
<1>4. RestStep
  BY <1>3 DEF Crash, Down, RestStep, Inv, TypeOK, Modes
<1> QED
  BY <1>2, <1>4, Compose, SameCalls, SameRows DEF Crash

-----------------------------------------------------------------------------
(* The inductive invariant, and what follows from it.                      *)

\* Empty tables and no task satisfy the invariant.
LEMMA InitInv == Init => Inv
<1> SUFFICES ASSUME Init
             PROVE  Inv
  OBVIOUS
<1>1. /\ NoRow \in Row /\ NoRow.status = "absent"
      /\ NoCheckpoint \in Checkpoint /\ NoCheckpoint.recoveries = 0
      /\ NoCall \in Call /\ CallOK(NoCall)
  BY DEF NoRow, Row, Statuses, RunKindNames, NoCheckpoint, Checkpoint, Phases, NoCall, Call,
         CallStatuses, CallResults, CallOK
<1>2. Idle \in Task /\ TaskOK(Idle) /\ ~Reports(Idle) /\ Idle.pc \notin FlightPcs
  BY IdleOK DEF TaskOK
<1>3. NoRecon \in Recon /\ "serving" \in Modes
  BY DEF NoRecon, Recon, Modes
<1>4. TypeOK
  BY <1>1, <1>2, <1>3 DEF Init, TypeOK
<1>5. TasksOK /\ RunsExist /\ ReportsOK /\ FlightOK
  BY <1>2 DEF Init, TasksOK, RunsExist, ReportsOK, FlightOK
<1>6. RowsOK /\ RecoveriesOK /\ CallsOK
  BY <1>1, LimitsAssumption DEF Init, RowsOK, RecoveriesOK, CallsOK
<1> QED
  BY <1>4, <1>5, <1>6 DEF Inv

\* Every step is good.
LEMMA NextGood == Inv /\ [Next]_vars => Good
<1> SUFFICES ASSUME Inv, [Next]_vars
             PROVE  Good
  OBVIOUS
<1>1. CASE Next
  BY <1>1, AcceptTurnGood, RequestGood, RequestStepGood, TakeGood, LoopGood, TimeoutGood,
     CallStepGood, OutageGood, ProcessGood, StopBeginGood, CrashGood DEF Next
<1>2. CASE UNCHANGED vars
  <2>1. RestStep
    BY <1>2 DEF vars, RestStep, Inv, TypeOK
  <2> QED
    BY <1>2, <2>1, RestOnly DEF vars
<1> QED
  BY <1>1, <1>2

\* The invariant holds in every state, and every step is good: whatever loops,
\* handlers, restarts and failures do, and however many there are of each.
THEOREM Invariance == Spec => []Inv
<1>1. Inv /\ [Next]_vars => Inv'
  BY NextGood DEF Good
<1> QED
  BY InitInv, <1>1, PTL DEF Spec

\* Every variable keeps its type, so that every record a handler builds from a
\* row, a checkpoint or a call is one again.
THEOREM TypeCorrect == Spec => []TypeOK
<1>1. Inv => TypeOK
  BY DEF Inv
<1> QED
  BY <1>1, Invariance, PTL

\* No call reaches the handler of the platform twice, however often loops,
\* approvals and restarts meet on its run.
THEOREM OneEffect == Spec => []EffectAtMostOnce
<1>1. Inv => EffectAtMostOnce
  BY DEF Inv, CallsOK, CallOK, EffectAtMostOnce
<1> QED
  BY <1>1, Invariance, PTL

\* A gated operation takes effect only with the approval of its very call, and
\* a rejected call never.
THEOREM Consent == Spec => []EffectsHaveConsent
<1>1. Inv => EffectsHaveConsent
  BY DEF Inv, CallsOK, CallOK, EffectsHaveConsent, TypeOK, Call
<1> QED
  BY <1>1, Invariance, PTL

\* Start-up puts a run back in the queue at most MaxRecoveries times.
THEOREM Recoveries == Spec => []RecoveriesBounded
<1>1. Inv => RecoveriesBounded
  BY DEF Inv, RecoveriesOK, RecoveriesBounded
<1> QED
  BY <1>1, Invariance, PTL

\* A loop that reports completed, failed or interrupted reports the stored row.
THEOREM OutcomeStored == Spec => []OutcomeIsStored
<1>1. Inv => OutcomeIsStored
  BY DEF Inv, ReportsOK, Reports, OutcomeIsStored, At, Of, Tasks
<1> QED
  BY <1>1, Invariance, PTL

\* What was reported of a settled call is not rewritten.
THEOREM SettleOnce == Spec => CallsSettleOnce
<1>1. Inv /\ [Next]_vars =>
        [\A r \in Runs, c \in CallIds :
           calls[r][c].status \in CallSettled => calls'[r][c].status = calls[r][c].status]_vars
  BY NextGood DEF Good, SettledStay
<1> QED
  BY <1>1, Invariance, PTL DEF Spec, CallsSettleOnce

\* The rows of ai.runs implement the status graph of RunLifecycle.
THEOREM FollowLifecycle == Spec => RunsFollowLifecycle
<1>1. Init => Lifecycle!Init
  BY DEF Init, Lifecycle!Init, NoRow, Lifecycle!NoRow
<1>2. Inv /\ [Next]_vars => [Lifecycle!Next]_(Lifecycle!vars)
  BY NextGood DEF Good, Lifecycle!vars
<1> QED
  BY <1>1, <1>2, Invariance, PTL DEF Spec, RunsFollowLifecycle, Lifecycle!Spec

-----------------------------------------------------------------------------
(* The quota and the budget of steps. What has to be known beyond Inv: that*)
(* a loop never claimed a version the row has not reached, that a model run*)
(* has one worker at a time, and that this worker goes on from the stored  *)
(* checkpoint. The last two fail when approvals meet a restart (NoRivals). *)

\* Where a loop is between the look at its checkpoint and its end, and what only the
\* loop of a model run comes to.
ModelPcs == {"model", "stream", "tools", "batch", "advance", "send", "answer", "park",
             "parkRun", "input", "inputRun", "finalize"}
GoingPcs == ModelPcs \cup {"settle", "branch", "verify", "check"}

\* Where a loop is not counted by Admitted.
AsidePcs == {"register", "admit", "exhausted", "finish"}

\* Who may write a run: its loop, and the request that has set it running to send the
\* call it was waiting for.
Works(x, r) ==
  /\ x.run = r
  /\ \/ x.kind = "loop" /\ x.pc # "finish"
     \/ x.kind = "approve" /\ x.pc # "grant"

\* A run somebody works on is running or over.
Held == {"running"} \cup Terminal

\* Executors run loops.
SlotsOK == \A t \in Executors : task[t] = Idle \/ task[t].kind = "loop"

\* A task never claimed a later version than there is.
VersionsOK == \A t \in Tasks : task[t] # Idle => task[t].ver <= run[task[t].run].version

OneWorker ==
  \A r \in Runs : run[r].kind = "model" =>
    \A t \in Tasks : Works(task[t], r) =>
      /\ run[r].status \in Held
      /\ \A u \in Tasks : Works(task[u], r) => u = t

\* A loop goes on from its checkpoint.
Progress(x, cp) ==
  /\ x.rev = cp.rev /\ cp.step <= x.step /\ x.step <= MaxModelSteps
  /\ x.pc \in {"stream", "tools"} => x.step < MaxModelSteps

LoopOK(x, row, cp) ==
  IF row.kind = "model" THEN x.pc \in GoingPcs => Progress(x, cp) ELSE x.pc \notin ModelPcs

LoopsOK ==
  \A t \in Tasks : task[t].kind = "loop" => LoopOK(task[t], run[task[t].run], ckpt[task[t].run])

KindsOK == \A t \in Tasks : task[t].kind = "direct" => run[task[t].run].kind = "direct"

\* Every batch is in the checkpoint.
BudgetOK(row, cp, n) ==
  IF row.kind = "direct" THEN n = 0
  ELSE n <= cp.step /\ cp.step <= MaxModelSteps /\ (row.status = "absent" => cp.step = 0)
BudgetsOK == \A r \in Runs : BudgetOK(run[r], ckpt[r], batches[r])

\* No loop works while start-up has runs to look at.
StartupOK ==
  /\ mode = "serving" => recon.todo = {}
  /\ mode \in {"down", "reconciling"} \/ recon.todo # {} => \A t \in Tasks : task[t].kind # "loop"
  /\ MaxRestarts = 0 => mode = "serving"
  /\ "approve" \notin RequestKinds => \A t \in Tasks : task[t].kind # "approve"

\* No approval meets a restart.
NoRivals == "approve" \notin RequestKinds \/ MaxRestarts = 0

Steady == OneWorker /\ LoopsOK /\ KindsOK /\ BudgetsOK /\ StartupOK
-----------------------------------------------------------------------------
(* What a step does to the tasks and the rows, as far as this is concerned.*)

\* A task goes on with its run.
Carried(t) ==
  /\ task[t] # Idle
  /\ task'[t].kind = task[t].kind /\ task'[t].run = task[t].run /\ task'[t].ver = task[t].ver
  /\ task'[t].pc # "finish" => task[t].pc # "finish"
  /\ task[t].kind = "approve" /\ task'[t].pc # "grant" => task[t].pc # "grant"

\* A request comes in and has not touched its run yet.
Enters(t) ==
  /\ t \in Requests /\ task[t] = Idle
  /\ task'[t].kind # "loop" /\ task'[t].ver = 0
  /\ task'[t].kind = "approve" => task'[t].pc = "grant" /\ "approve" \in RequestKinds
  /\ task'[t].kind = "direct" => run'[task'[t].run].kind = "direct"

\* A loop or an approval sets a run running that nobody works on.
Takes(t) ==
  /\ \A u \in Tasks \ {t} : task'[u] = task[u]
  /\ run[task'[t].run].status \notin Held /\ run'[task'[t].run].status = "running"
  /\ \/ /\ task'[t].kind = "loop" /\ task'[t].pc = "register" /\ mode = "serving"
        /\ task'[t].ver <= run'[task'[t].run].version
     \/ /\ task[t] # Idle /\ task[t].kind = "approve" /\ task'[t].kind = "approve"
        /\ task'[t].run = task[t].run /\ task'[t].ver = task[t].ver

Tracks(t) == task'[t] = Idle \/ Carried(t) \/ Enters(t) \/ Takes(t)

TasksTrack == \A t \in Tasks : Tracks(t)

\* Nobody is admitted.
NoAdmission ==
  \A t \in Executors : task'[t] # Idle /\ task'[t].pc \notin AsidePcs =>
    task[t].pc \notin AsidePcs

\* A model run that leaves its worker is running, over, or has lost the worker.
RowGoes(r) ==
  \/ run'[r] = run[r] \/ run'[r].status \in Held
  \/ \A t \in Tasks : ~Works(task'[t], r)
  \/ run'[r].kind = "direct"

RowsGo == \A r \in Runs : RowGoes(r)

\* The quota check lets a loop pass.
Admission == UNCHANGED run /\ Cardinality(ActiveRuns) <= UserConcurrentRuns

Kept ==
  /\ TasksTrack /\ (NoAdmission \/ Admission)
  /\ NoRivals /\ Steady => RowsGo /\ LoopsOK' /\ BudgetsOK' /\ StartupOK'

\* A step touches one run at most.
LEMMA OneRow ==
  ASSUME Good
  PROVE  \/ UNCHANGED run
         \/ \E s \in Runs, to \in Statuses : run' = [run EXCEPT ![s] = Moved(run[s], to)]
         \/ \E s \in Runs, row \in Row : run[s] = NoRow /\ run' = [run EXCEPT ![s] = row]
<1>1. ASSUME NEW s \in Runs, Lifecycle!Create(s)
      PROVE  \E row \in Row : run[s] = NoRow /\ run' = [run EXCEPT ![s] = row]
  BY <1>1 DEF Lifecycle!Create, NoRow, Lifecycle!NoRow, Lifecycle!NewRow, Row,
              Lifecycle!RunKindNames, RunKindNames, Statuses
<1>2. ASSUME NEW s \in Runs, Lifecycle!Move(s)
      PROVE  \E to \in Statuses : run' = [run EXCEPT ![s] = Moved(run[s], to)]
  BY <1>2, SuccessorsType DEF Lifecycle!Move, Lifecycle!Moved, Moved
<1>3. ASSUME NEW s \in Runs, Lifecycle!Recover(s)
      PROVE  \E to \in Statuses : run' = [run EXCEPT ![s] = Moved(run[s], to)]
  BY <1>3 DEF Lifecycle!Recover, Lifecycle!Moved, Moved, Statuses
<1> QED
  BY <1>1, <1>2, <1>3 DEF Good, Lifecycle!Next

\* A run keeps its kind, and its version grows when anything about it changes.
LEMMA RowsGrow ==
  ASSUME Inv, Good, NEW r \in Runs, run[r].status # "absent"
  PROVE  /\ run'[r].kind = run[r].kind
         /\ run'[r] = run[r] \/ run'[r].version = run[r].version + 1
<1>1. run \in [Runs -> Row] /\ run[r] \in Row
  BY DEF Inv, TypeOK
<1>2. CASE \E to \in Statuses : run' = [run EXCEPT ![r] = Moved(run[r], to)]
  BY <1>1, <1>2 DEF Moved, Row
<1>3. CASE run'[r] = run[r]
  BY <1>3
<1>4. \/ UNCHANGED run
      \/ \E s \in Runs, to \in Statuses : run' = [run EXCEPT ![s] = Moved(run[s], to)]
      \/ \E s \in Runs, row \in Row : run[s] = NoRow /\ run' = [run EXCEPT ![s] = row]
  BY OneRow
<1>5. ASSUME NEW s \in Runs, s # r, NEW row, run' = [run EXCEPT ![s] = row]
      PROVE  run'[r] = run[r]
  BY <1>1, <1>5
<1> QED
  BY <1>2, <1>3, <1>4, <1>5 DEF NoRow

\* No task claims a version that is yet to come.
LEMMA VersionsStep ==
  ASSUME Inv, Good, TasksTrack, VersionsOK
  PROVE  VersionsOK'
<1> SUFFICES ASSUME NEW t \in Tasks, task'[t] # Idle
             PROVE  task'[t].ver <= run'[task'[t].run].version
  BY DEF VersionsOK
<1>1. task'[t].run \in Runs /\ run'[task'[t].run] \in Row
  BY DEF Good, Inv, TypeOK, TasksOK, TaskOK
<1>2. CASE task[t] # Idle /\ task'[t].run = task[t].run /\ task'[t].ver = task[t].ver
  <2>1. run[task[t].run] \in Row /\ run[task[t].run].status # "absent" /\ task[t].ver \in Nat
    BY <1>1, <1>2 DEF Inv, TypeOK, RunsExist, Task
  <2>2. task[t].ver <= run[task[t].run].version
    BY <1>2 DEF VersionsOK
  <2> QED
    BY <1>1, <1>2, <2>1, <2>2, RowsGrow DEF Row
<1>3. CASE Enters(t)
  BY <1>1, <1>3 DEF Enters, Row
<1> QED
  BY <1>2, <1>3 DEF TasksTrack, Tracks, Carried, Takes

\* Executors go on running loops.
LEMMA SlotsStep ==
  ASSUME TasksTrack, SlotsOK
  PROVE  SlotsOK'
BY TasksAssumption DEF SlotsOK, TasksTrack, Tracks, Carried, Enters, Takes, Tasks

\* Who is counted by the quota was counted before.
LEMMA AdmittedStep ==
  ASSUME Inv, Good, TasksTrack, NoAdmission, VersionsOK
  PROVE  Admitted' \subseteq Admitted
<1> SUFFICES ASSUME NEW r \in Runs, NEW t \in Executors,
                    task'[t].run = r, run'[r].status = "running",
                    run'[r].version = task'[t].ver, task'[t].pc \notin AsidePcs
             PROVE  r \in Admitted
  BY DEF Admitted, Of, FenceOpen, AsidePcs
<1>1. t \in Tasks /\ task'[t] # Idle
  BY TasksAssumption DEF Tasks, Idle
<1>2. task[t].pc \notin AsidePcs
  BY <1>1 DEF NoAdmission
<1>3. CASE task[t] # Idle /\ task'[t].run = task[t].run /\ task'[t].ver = task[t].ver
  <2>1. run[r] \in Row /\ run[r].status # "absent" /\ task[t].ver \in Nat
    BY <1>1, <1>3 DEF Inv, TypeOK, RunsExist, Task
  <2>2. task[t].ver <= run[r].version
    BY <1>1, <1>3 DEF VersionsOK
  <2>3. run'[r] = run[r]
    BY <1>3, <2>1, <2>2, RowsGrow DEF Row
  <2> QED
    BY <1>2, <1>3, <2>3 DEF Admitted, Of, FenceOpen, AsidePcs
<1> QED
  BY <1>1, <1>3, TasksAssumption DEF TasksTrack, Tracks, Carried, Enters, Takes, AsidePcs

\* The sole worker of a model run stays the sole one.
LEMMA SteadyStep ==
  ASSUME Inv, Good, TasksTrack, Steady, RowsGo, LoopsOK', BudgetsOK', StartupOK'
  PROVE  Steady'
<1>1. ASSUME NEW t \in Tasks, task[t] # Idle
      PROVE  /\ task[t].run \in Runs /\ run'[task[t].run].kind = run[task[t].run].kind
  <2>1. task[t].run \in Runs /\ run[task[t].run].status # "absent"
    BY <1>1 DEF Inv, TasksOK, TaskOK, RunsExist
  <2> QED
    BY <2>1, RowsGrow
<1>2. Idle.kind = "idle" /\ \A r \in Runs : ~Works(Idle, r)
  BY DEF Idle, Works
<1>3. KindsOK'
  <2> SUFFICES ASSUME NEW t \in Tasks, task'[t].kind = "direct"
               PROVE  run'[task'[t].run].kind = "direct"
    BY DEF KindsOK
  <2> QED
    BY <1>1, <1>2 DEF TasksTrack, Tracks, Carried, Enters, Takes, Steady, KindsOK
<1>4. OneWorker'
  <2> SUFFICES ASSUME NEW r \in Runs, run'[r].kind = "model",
                      NEW t \in Tasks, Works(task'[t], r)
               PROVE  /\ run'[r].status \in Held
                      /\ \A u \in Tasks : Works(task'[u], r) => u = t
    BY DEF OneWorker, Works
  <2>1. ASSUME NEW u \in Tasks, Works(task'[u], r), ~Takes(u)
        PROVE  Works(task[u], r) /\ run[r].kind = "model"
    BY <1>1, <1>2, <2>1 DEF TasksTrack, Tracks, Carried, Enters, Works
  <2>2. ASSUME NEW u \in Tasks, Works(task[u], r)
        PROVE  run'[r].kind = "model" => run[r].kind = "model" /\ run[r].status \in Held
    <3>1. task[u] # Idle /\ task[u].run = r
      BY <1>2, <2>2 DEF Works
    <3> QED
      BY <1>1, <2>2, <3>1 DEF Steady, OneWorker
  <2>3. CASE \E u \in Tasks : Works(task'[u], r) /\ Takes(u)
    <3>1. PICK u \in Tasks : Works(task'[u], r) /\ Takes(u)
      BY <2>3
    <3>2. /\ run[r].status \notin Held /\ run'[r].status \in Held
          /\ \A w \in Tasks \ {u} : task'[w] = task[w]
      BY <3>1 DEF Takes, Works, Held
    <3>3. \A w \in Tasks \ {u} : ~Works(task'[w], r)
      BY <2>2, <3>2
    <3> QED
      BY <3>2, <3>3
  <2>4. CASE ~\E u \in Tasks : Works(task'[u], r) /\ Takes(u)
    <3>1. \A u \in Tasks : Works(task'[u], r) => Works(task[u], r) /\ run[r].kind = "model"
      BY <2>1, <2>4
    <3>2. \A u \in Tasks : Works(task'[u], r) => u = t
      BY <3>1 DEF Steady, OneWorker
    <3>3. run[r].status \in Held
      BY <3>1 DEF Steady, OneWorker
    <3>4. RowGoes(r)
      BY DEF RowsGo
    <3> QED
      BY <3>2, <3>3, <3>4 DEF RowGoes
  <2> QED
    BY <2>3, <2>4
<1> QED
  BY <1>3, <1>4 DEF Steady

-----------------------------------------------------------------------------
(* A step of one task.                                                     *)

Alone(t) == \A u \in Tasks \ {t} : task'[u] = task[u]

\* A loop comes to no step that needs more than the one it is at.
Still(x, y) ==
  /\ y.pc \in GoingPcs => x.pc \in GoingPcs /\ y.rev = x.rev /\ y.step = x.step
  /\ y.pc \in ModelPcs => x.pc \in ModelPcs
  /\ y.pc \in {"stream", "tools"} => x.pc \in {"stream", "tools"}

\* What a task that goes on keeps, whatever it saves.
SameWork(x, y) ==
  /\ y.kind = x.kind /\ y.run = x.run /\ y.ver = x.ver
  /\ y.pc # "finish" => x.pc # "finish"
  /\ x.kind = "approve" /\ y.pc # "grant" => x.pc # "grant"
  /\ x.kind = "loop" /\ y.pc \notin AsidePcs => x.pc \notin AsidePcs

Goes(x, y) == y = Idle \/ (SameWork(x, y) /\ (x.kind = "loop" => Still(x, y)))

LoopGoes(t) ==
  task'[t].kind = "loop" => LoopOK(task'[t], run'[task'[t].run], ckpt'[task'[t].run])

\* The rows, budgets and the start-up part when neither checkpoints nor the process move.
LEMMA BudgetsSame ==
  ASSUME Inv, Good, BudgetsOK, UNCHANGED <<ckpt, batches>>
  PROVE  BudgetsOK'
<1> SUFFICES ASSUME NEW r \in Runs
             PROVE  BudgetOK(run'[r], ckpt[r], batches[r])
  BY DEF BudgetsOK
<1>1. run[r] \in Row /\ run'[r] \in Row /\ batches[r] \in Nat /\ ckpt[r].step \in Nat
  BY DEF Good, Inv, TypeOK, Checkpoint
<1>2. run'[r].status = "absent" => run[r].status = "absent" /\ run'[r] = run[r]
  <2>1. run'[r].status = "absent" => run'[r].version = 0
    BY DEF Good, Inv, RowsOK, NoRow
  <2>2. run[r].status = "absent" => run[r] = NoRow
    BY DEF Inv, RowsOK
  <2>3. run'[r].status = "absent" => run'[r] = NoRow
    BY DEF Good, Inv, RowsOK
  <2> QED
    BY <1>1, <2>1, <2>2, <2>3, RowsGrow DEF Row
<1>3. CASE run[r].status = "absent"
  BY <1>1, <1>2, <1>3 DEF BudgetsOK, BudgetOK, Inv, RowsOK, NoRow
<1>4. CASE run[r].status # "absent"
  BY <1>1, <1>2, <1>4, RowsGrow DEF BudgetsOK, BudgetOK
<1> QED
  BY <1>3, <1>4

LEMMA StartupSame ==
  ASSUME StartupOK, TasksTrack, UNCHANGED <<mode, recon>>
  PROVE  StartupOK'
<1>1. \A t \in Tasks : task'[t].kind = "loop" =>
        task[t].kind = "loop" \/ (mode = "serving" /\ recon.todo = {})
  BY DEF TasksTrack, Tracks, Carried, Enters, Takes, Idle, StartupOK
<1>2. \A t \in Tasks : task'[t].kind = "approve" =>
        task[t].kind = "approve" \/ "approve" \in RequestKinds
  BY DEF TasksTrack, Tracks, Carried, Enters, Takes, Idle
<1> QED
  BY <1>1, <1>2 DEF StartupOK

\* Nothing about a run changes what its loops go by but its checkpoint.
LEMMA LoopsSame ==
  ASSUME Inv, Good, LoopsOK, NEW t \in Tasks, task[t].kind = "loop", task'[t] = task[t],
         ckpt'[task[t].run] = ckpt[task[t].run]
  PROVE  LoopGoes(t)
<1>1. task[t] # Idle /\ task[t].run \in Runs /\ run[task[t].run].status # "absent"
  BY Busy
<1>2. run'[task[t].run].kind = run[task[t].run].kind
  BY <1>1, RowsGrow
<1> QED
  BY <1>2 DEF LoopsOK, LoopGoes, LoopOK

LEMMA KeptAlone ==
  ASSUME Inv, Good, NEW t \in Tasks, Alone(t), Tracks(t),
         \/ t \in Executors /\ task'[t] # Idle /\ task'[t].pc \notin AsidePcs => task[t].pc \notin AsidePcs
         \/ Admission,
         UNCHANGED <<ckpt, batches, mode, recon>>,
         NoRivals /\ Steady => RowsGo /\ LoopGoes(t)
  PROVE  Kept
<1>1. TasksTrack
  BY DEF TasksTrack, Tracks, Carried, Alone
<1>2. NoAdmission \/ Admission
  BY DEF NoAdmission, Alone, Tasks
<1>3. ASSUME NoRivals, Steady
      PROVE  LoopsOK'
  BY <1>3, LoopsSame DEF LoopsOK, LoopGoes, Alone, Steady
<1> QED
  BY <1>1, <1>2, <1>3, BudgetsSame, StartupSame DEF Kept, Steady

\* A task that goes on without saving.
LEMMA KeptGoing ==
  ASSUME Inv, Good, NEW t \in Tasks, Alone(t), task[t] # Idle, Goes(task[t], task'[t]),
         SlotsOK,
         UNCHANGED <<ckpt, batches, mode, recon>>,
         NoRivals /\ Steady => RowsGo
  PROVE  Kept
<1>1. Tracks(t)
  BY DEF Goes, SameWork, Tracks, Carried
<1>2. ASSUME Steady
      PROVE  LoopGoes(t)
  <2> SUFFICES ASSUME task'[t].kind = "loop"
               PROVE  LoopOK(task'[t], run'[task'[t].run], ckpt'[task'[t].run])
    BY DEF LoopGoes
  <2>1. SameWork(task[t], task'[t]) /\ Still(task[t], task'[t]) /\ task[t].kind = "loop"
    BY DEF Goes, SameWork, Idle
  <2>2. task[t].run \in Runs /\ run[task[t].run].status # "absent"
    BY <2>1, Busy
  <2>3. run'[task[t].run].kind = run[task[t].run].kind
    BY <2>2, RowsGrow
  <2>4. LoopOK(task[t], run[task[t].run], ckpt[task[t].run])
    BY <1>2, <2>1 DEF Steady, LoopsOK
  <2> QED
    BY <2>1, <2>3, <2>4 DEF SameWork, Still, LoopOK, Progress
<1> QED
  BY <1>1, <1>2, KeptAlone DEF Goes, SameWork, SlotsOK

\* A row that is left alone, or moved to where it may be held, is no matter.
LEMMA RowMoves ==
  ASSUME Inv, NEW r \in Runs, NEW to \in Statuses, SetRun(r, to),
         \/ to \in Held \/ run[r].kind = "direct" \/ \A t \in Tasks : ~Works(task'[t], r)
  PROVE  RowsGo
<1>1. run \in [Runs -> Row] /\ run[r] \in Row
  BY DEF Inv, TypeOK
<1>2. Moved(run[r], to).status = to /\ Moved(run[r], to).kind = run[r].kind
  BY <1>1, MovedRow DEF Moved, Row
<1>3. run' = [run EXCEPT ![r] = Moved(run[r], to)]
  BY DEF SetRun
<1> QED
  BY <1>1, <1>2, <1>3 DEF RowsGo, RowGoes

LEMMA RowsSame == UNCHANGED run => RowsGo
BY DEF RowsGo, RowGoes

-----------------------------------------------------------------------------
(* Tool calls.                                                             *)

\* What a task that has a call at hand does with it.
LEMMA ContinueGoes ==
  ASSUME NEW me \in Task, NEW call, NEW next \in Continue(me, call)
  PROVE  /\ next.kind = me.kind /\ next.run = me.run /\ next.ver = me.ver
         /\ next.rev = me.rev /\ next.step = me.step
         /\ me.kind = "loop" => next.pc \in {"park", "batch"}
         /\ next.pc \notin {"finish", "grant"}
BY DEF Continue, Task

LEMMA AfterCallGoes ==
  ASSUME Inv, NEW t \in Tasks, task[t] # Idle, NEW c \in CallIds, NEW call,
         NEW next \in AfterCall(t, c, call), task' = [task EXCEPT ![t] = next],
         task[t].pc \in ModelPcs \/ (task[t].kind = "direct" /\ task[t].pc = "propose")
  PROVE  Alone(t) /\ Goes(task[t], task'[t])
<1> DEFINE me == [task[t] EXCEPT !.call = c]
<1>1. task \in [Tasks -> Task] /\ task[t] \in Task
  BY DEF Inv, TypeOK
<1>2. /\ me \in Task /\ me.kind = task[t].kind /\ me.run = task[t].run /\ me.ver = task[t].ver
      /\ me.rev = task[t].rev /\ me.step = task[t].step
  BY <1>1 DEF Task
<1>3. next \in Continue(me, call)
  BY DEF AfterCall
<1> HIDE DEF me
<1>4. task'[t] = next /\ Alone(t)
  BY <1>1 DEF Alone
<1>5. /\ next.kind = task[t].kind /\ next.run = task[t].run /\ next.ver = task[t].ver
      /\ next.rev = task[t].rev /\ next.step = task[t].step
      /\ task[t].kind = "loop" => next.pc \in {"park", "batch"}
      /\ next.pc \notin {"finish", "grant"}
  BY <1>2, <1>3, ContinueGoes
<1>6. task[t].pc \notin {"finish", "grant"} /\ task[t].pc \notin AsidePcs
  BY DEF ModelPcs, AsidePcs
<1>7. SameWork(task[t], next)
  BY <1>5, <1>6 DEF SameWork
<1>8. task[t].kind = "loop" => Still(task[t], next)
  BY <1>5 DEF Still, GoingPcs, ModelPcs
<1> QED
  BY <1>4, <1>7, <1>8 DEF Goes

\* A task that is about to do something with a run.
LEMMA Works1 ==
  ASSUME Inv, NEW t \in Tasks, task[t].kind # "idle" \/ task[t].pc # "idle"
  PROVE  /\ task \in [Tasks -> Task] /\ task[t] \in Task /\ task[t] # Idle
         /\ Of(t) = task[t].run /\ task[t].run \in Runs
         /\ run[task[t].run] \in Row /\ run[task[t].run].status # "absent"
BY Busy DEF Inv, TypeOK

\* What goto and the ways the catch block is reached leave alone.
SameFields(x, y) ==
  y.kind = x.kind /\ y.run = x.run /\ y.ver = x.ver /\ y.rev = x.rev /\ y.step = x.step

LEMMA GotoFields ==
  ASSUME Inv, NEW t \in Tasks, NEW pc, NEW fenced, Goto(t, pc) \/ StopFor(t, pc, fenced)
  PROVE  Alone(t) /\ task'[t].pc = pc /\ SameFields(task[t], task'[t])
<1>1. task \in [Tasks -> Task] /\ task[t] \in Task
  BY DEF Inv, TypeOK
<1> QED
  BY <1>1 DEF Goto, StopFor, Alone, SameFields, Task

LEMMA DoneGoes ==
  ASSUME Inv, NEW t \in Tasks, Done(t)
  PROVE  Alone(t) /\ task'[t] = Idle /\ Goes(task[t], task'[t])
<1>1. task \in [Tasks -> Task]
  BY DEF Inv, TypeOK
<1> QED
  BY <1>1 DEF Done, Alone, Goes

\* A task that leaves the graph, or moves on between two model steps.
LEMMA MoveGoes ==
  ASSUME NEW x, NEW y, SameFields(x, y), x.kind = "approve" => x.pc # "grant",
         x.pc = "finish" => y.pc = "finish",
         x.kind = "loop" /\ x.pc \in AsidePcs => y.pc \in AsidePcs,
         \/ x.kind # "loop" \/ y.pc \notin GoingPcs
         \/ x.pc \in GoingPcs /\ y.pc \in GoingPcs \ ModelPcs
         \/ x.pc \in {"stream", "tools"} /\ y.pc \in {"stream", "tools"}
         \/ x.pc \in ModelPcs /\ y.pc \in ModelPcs \ {"stream", "tools"}
  PROVE  Goes(x, y)
<1>1. SameWork(x, y)
  BY DEF SameFields, SameWork, AsidePcs
<1>2. x.kind = "loop" => Still(x, y)
  BY DEF SameFields, Still, GoingPcs, ModelPcs
<1> QED
  BY <1>1, <1>2 DEF Goes

\* propose, advance and execute keep whoever works on the run.
LEMMA CallStepKept ==
  ASSUME Inv, Good, SlotsOK, NEW t \in Tasks, CallStep(t)
  PROVE  Kept
<1>1. task[t].kind # "idle" \/ task[t].pc # "idle"
  BY DEF CallStep, Propose, Reuse, NeedInput, Hold, Execute, AdvanceConflict, Send, Receive,
         ReceiveCanceled, At
<1>2. /\ task \in [Tasks -> Task] /\ task[t] \in Task /\ task[t] # Idle
  BY <1>1, Works1
<1>3. /\ UNCHANGED <<run, ckpt, batches, mode, recon>>
      /\ RowsGo
  BY RowsSame DEF CallStep, Propose, Reuse, NeedInput, Hold, Execute, AdvanceConflict, Send, Receive,
         ReceiveCanceled, rest
<1>4. CASE Propose(t)
  <2>1. PICK c \in CallIds : task' = [task EXCEPT ![t].pc = "advance", ![t].call = c]
    BY <1>4 DEF Propose
  <2>2. (task[t].kind = "loop" /\ task[t].pc = "batch") \/ (task[t].kind = "direct" /\ task[t].pc = "propose")
    BY <1>4 DEF Propose, At
  <2>3. Alone(t) /\ Goes(task[t], task'[t])
    BY <1>2, <2>1, <2>2 DEF Alone, Goes, SameWork, Still, GoingPcs, ModelPcs, AsidePcs, Task
  <2> QED
    BY <1>2, <1>3, <2>3, KeptGoing
<1>5. CASE Reuse(t)
  <2>1. PICK c \in CallIds : \E next \in AfterCall(t, c, calls[Of(t)][c]) :
           task' = [task EXCEPT ![t] = next]
    BY <1>5 DEF Reuse, ReusableFor
  <2>2. task[t].pc \in ModelPcs \/ (task[t].kind = "direct" /\ task[t].pc = "propose")
    BY <1>5 DEF Reuse, At, ModelPcs
  <2> QED
    BY <1>2, <1>3, <2>1, <2>2, AfterCallGoes, KeptGoing
<1>6. CASE NeedInput(t)
  <2>1. PICK pc : Goto(t, pc) /\ (pc = "input" \/ (pc = "undo" /\ task[t].kind = "direct"))
    BY <1>6 DEF NeedInput, At
  <2>2. task[t].pc \in {"batch", "propose"} /\ (task[t].kind # "direct" => task[t].pc = "batch")
    BY <1>6 DEF NeedInput, At
  <2>3. Alone(t) /\ Goes(task[t], task'[t])
    BY <1>2, <2>1, <2>2, GotoFields, MoveGoes DEF GoingPcs, ModelPcs, AsidePcs
  <2> QED
    BY <1>2, <1>3, <2>3, KeptGoing
<1>7. CASE Hold(t)
  <2>1. PICK status : \E next \in AfterCall(t, task[t].call, [calls[Of(t)][task[t].call] EXCEPT !.status = status]) :
           task' = [task EXCEPT ![t] = next]
    BY <1>7 DEF Hold
  <2>2. task[t].pc \in ModelPcs
    BY <1>7 DEF Hold, At, ModelPcs
  <2>3. task[t].call \in CallIds
    BY <1>2, <1>7 DEF Hold, At, Inv, TasksOK, TaskOK, CallPcs
  <2> QED
    BY <1>2, <1>3, <2>1, <2>2, <2>3, AfterCallGoes, KeptGoing
<1>8. CASE Execute(t) \/ AdvanceConflict(t)
  <2>1. Alone(t) /\ Goes(task[t], task'[t])
    BY <1>2, <1>8 DEF Execute, AdvanceConflict, Recovery, At, Goto, Alone, Goes, SameWork, Still, GoingPcs, ModelPcs, AsidePcs, Task
  <2> QED
    BY <1>2, <1>3, <2>1, KeptGoing
<1>9. CASE Send(t)
  <2>1. PICK answer : task' = [task EXCEPT ![t].pc = "answer", ![t].answer = answer]
    BY <1>9 DEF Send
  <2>2. task[t].pc = "send"
    BY <1>9 DEF Send, At
  <2>3. Alone(t) /\ Goes(task[t], task'[t])
    BY <1>2, <2>1, <2>2 DEF Alone, Goes, SameWork, Still, GoingPcs, ModelPcs, AsidePcs, Task
  <2> QED
    BY <1>2, <1>3, <2>3, KeptGoing
<1>10. CASE Receive(t)
  <2>1. PICK call : \E next \in AfterCall(t, task[t].call, call) : task' = [task EXCEPT ![t] = next]
    BY <1>10 DEF Receive
  <2>2. task[t].pc \in ModelPcs
    BY <1>10 DEF Receive, ModelPcs, At
  <2>3. task[t].call \in CallIds
    BY <1>2, <1>10 DEF Receive, Inv, TasksOK, TaskOK, CallPcs, At
  <2> QED
    BY <1>2, <1>3, <2>1, <2>2, <2>3, AfterCallGoes, KeptGoing
<1>11. CASE ReceiveCanceled(t)
  <2>1. task[t].pc = "answer" /\ task[t].call \in CallIds
    BY <1>2, <1>11 DEF ReceiveCanceled, Inv, TasksOK, TaskOK, CallPcs, At
  <2>2. CASE Goto(t, Recovery(t))
    <3>1. Recovery(t) \in {"undo", "release", "fail"}
      BY DEF Recovery
    <3>2. Alone(t) /\ Goes(task[t], task'[t])
      BY <1>2, <2>1, <2>2, <3>1, GotoFields, MoveGoes DEF GoingPcs, ModelPcs, AsidePcs
    <3> QED
      BY <1>2, <1>3, <3>2, KeptGoing
  <2>3. CASE \E next \in AfterCall(t, task[t].call, calls[Of(t)][task[t].call]) : task' = [task EXCEPT ![t] = next]
    <3>1. task[t].pc \in ModelPcs
      BY <2>1 DEF ModelPcs
    <3> QED
      BY <1>2, <1>3, <2>1, <2>3, <3>1, AfterCallGoes, KeptGoing
  <2> QED
    BY <1>11, <2>2, <2>3 DEF ReceiveCanceled
<1> QED
  BY <1>4, <1>5, <1>6, <1>7, <1>8, <1>9, <1>10, <1>11 DEF CallStep

-----------------------------------------------------------------------------
(* Requests.                                                               *)

LEMMA CheckpointConflictKept ==
  ASSUME Inv, Good, SlotsOK, NEW t \in Tasks, CheckpointConflict(t)
  PROVE  Kept
<1>1. task[t].kind \in {"loop", "direct"} /\ UNCHANGED <<run, ckpt, batches, mode, recon>> /\ RowsGo
  BY RowsSame DEF CheckpointConflict, rest
<1>2. task[t] # Idle
  BY <1>1, Works1
<1>3. PICK pc, fenced : (Goto(t, pc) \/ StopFor(t, pc, fenced)) /\ pc \in {"exhausted", "fail", "undo"}
  BY DEF CheckpointConflict
<1>4. task[t].pc \in SavingPcs \cup {"saveWait"}
  BY DEF CheckpointConflict, At
<1>5. Alone(t) /\ Goes(task[t], task'[t])
  BY <1>3, <1>4, GotoFields, MoveGoes DEF GoingPcs, ModelPcs, AsidePcs, SavingPcs
<1> QED
  BY <1>1, <1>2, <1>5, KeptGoing

\* The requests that create a run or come in about one.
LEMMA RequestKept ==
  ASSUME Inv, Good, SlotsOK,
         (\E r \in Runs : AcceptTurn(r)) \/ (\E q \in Requests : Request(q))
  PROVE  Kept
<1>1. Idle.kind = "idle" /\ Idle.run \notin Runs /\ Idle.ver = 0 /\ task \in [Tasks -> Task]
  BY TasksAssumption DEF Idle, Inv, TypeOK
<1>2. ASSUME NEW r \in Runs, NEW kind \in RunKindNames, run[r].status = "absent",
             run' = [run EXCEPT ![r] = NewRow(kind)],
             \A u \in Tasks : Works(task'[u], r) => Works(task[u], r)
      PROVE  RowsGo
  <2>1. \A u \in Tasks : ~Works(task[u], r)
    BY <1>1, <1>2 DEF Works, Inv, RunsExist
  <2> QED
    BY <1>2, <2>1 DEF RowsGo, RowGoes, Inv, TypeOK
<1>3. ASSUME NEW r \in Runs, AcceptTurn(r)
      PROVE  Kept
  <2>1. UNCHANGED <<ckpt, batches, mode, recon>>
    BY <1>3 DEF AcceptTurn, rest
  <2>2. TasksTrack /\ NoAdmission
    BY <1>3 DEF AcceptTurn, TasksTrack, Tracks, Carried, NoAdmission
  <2>3. RowsGo
    BY <1>2, <1>3 DEF AcceptTurn, RunKindNames
  <2>4. Steady => LoopsOK'
    BY <1>3, <2>1, LoopsSame DEF AcceptTurn, Steady, LoopsOK, LoopGoes
  <2> QED
    BY <2>1, <2>2, <2>3, <2>4, BudgetsSame, StartupSame DEF Kept, Steady
<1>4. ASSUME NEW q \in Requests, NEW y \in Task, task[q] = Idle, task' = [task EXCEPT ![q] = y],
             y.kind \notin {"loop", "idle"}, y.ver = 0,
             y.kind = "approve" => y.pc = "grant" /\ "approve" \in RequestKinds,
             y.kind = "direct" => run'[y.run].kind = "direct", RowsGo,
             UNCHANGED <<ckpt, rest>>
      PROVE  Kept
  <2>1. q \in Tasks /\ q \notin Executors /\ task'[q] = y /\ Alone(q)
    BY <1>1, <1>4, TasksAssumption DEF Tasks, Alone
  <2>2. Tracks(q) /\ LoopGoes(q)
    BY <1>4, <2>1 DEF Tracks, Enters, LoopGoes
  <2> QED
    BY <1>4, <2>1, <2>2, KeptAlone DEF rest
<1>5. ASSUME NEW q \in Requests, NEW r \in Runs, NEW kind \in Kinds, NEW pc \in Pcs,
             Begin(q, kind, pc, r), kind \in {"direct", "cancel", "input"},
             kind = "direct" => run'[r].kind = "direct", RowsGo,
             UNCHANGED <<ckpt, rest>>
      PROVE  Kept
  <2> DEFINE y == [Idle EXCEPT !.kind = kind, !.pc = pc, !.run = r]
  <2>1. y \in Task /\ y.kind = kind /\ y.ver = 0 /\ y.run = r
    BY IdleOK, <1>1 DEF TaskOK, Task
  <2>2. task[q] = Idle /\ task' = [task EXCEPT ![q] = y]
    BY <1>5 DEF Begin
  <2> HIDE DEF y
  <2> QED
    BY <1>4, <1>5, <2>1, <2>2
<1>6. ASSUME NEW q \in Requests, NEW r \in Runs, AcceptToolAction(q, r)
      PROVE  Kept
  <2>1. Begin(q, "direct", "begin", r) /\ UNCHANGED <<ckpt, rest>>
    BY <1>6 DEF AcceptToolAction
  <2>2. "direct" \in Kinds /\ "begin" \in Pcs
    BY DEF Kinds, Pcs
  <2>3. CASE UNCHANGED run /\ run[r].kind = "direct"
    BY <1>5, <2>2, <2>1, <2>3, RowsSame
  <2>4. CASE run[r].status = "absent" /\ run' = [run EXCEPT ![r] = NewRow("direct")]
    <3>1. run'[r].kind = "direct"
      BY <2>4 DEF Inv, TypeOK, NewRow
    <3>2. \A u \in Tasks : Works(task'[u], r) => Works(task[u], r)
      BY <1>1, <2>1 DEF Begin, Works
    <3>3. RowsGo
      BY <1>2, <2>4, <3>2 DEF RunKindNames
    <3> QED
      BY <1>5, <2>2, <2>1, <3>1, <3>3
  <2> QED
    BY <1>6, <2>3, <2>4 DEF AcceptToolAction
<1>7. ASSUME NEW q \in Requests, NEW r \in Runs, AcceptInput(q, r) \/ AcceptCancel(q, r)
      PROVE  Kept
  <2>1. PICK kind \in {"cancel", "input"}, pc \in {"owned", "inputQueue"} : Begin(q, kind, pc, r)
    BY <1>7 DEF AcceptInput, AcceptCancel
  <2>2. UNCHANGED <<run, ckpt, rest>>
    BY <1>7 DEF AcceptInput, AcceptCancel
  <2>3. kind \in Kinds /\ pc \in Pcs
    BY DEF Kinds, Pcs
  <2> QED
    BY <1>5, <2>1, <2>2, <2>3, RowsSame
<1>8. ASSUME NEW q \in Requests, NEW r \in Runs, NEW c \in CallIds,
             NEW decision \in {"approve", "reject"}, AcceptDecision(q, r, c, decision)
      PROVE  Kept
  <2> DEFINE pc == IF decision = "approve" THEN "grant" ELSE "resolve"
             y == [Idle EXCEPT !.kind = decision, !.run = r, !.call = c, !.pc = pc]
  <2>1. pc \in Pcs /\ decision \in Kinds /\ (decision = "approve" => pc = "grant")
    BY DEF Pcs, Kinds
  <2>2. task[q] = Idle /\ task' = [task EXCEPT ![q] = y] /\ decision \in RequestKinds
      /\ UNCHANGED <<run, ckpt, rest>>
    BY <1>8 DEF AcceptDecision
  <2> HIDE DEF pc
  <2>3. y \in Task /\ y.kind = decision /\ y.ver = 0 /\ y.pc = pc
    BY IdleOK, <1>1, <2>1 DEF TaskOK, Task
  <2> HIDE DEF y
  <2> QED
    BY <1>4, <2>1, <2>2, <2>3, RowsSame
<1> QED
  BY <1>3, <1>6, <1>7, <1>8 DEF Request

\* updateRun of a request that stays or ends without having worked on a model run.
LEMMA UpdateGoes ==
  ASSUME Inv, NEW r \in Runs, NEW from, NEW to \in Statuses,
         UpdateRun(r, from, to) \/ UNCHANGED run,
         \/ to \in Held \/ run[r].kind = "direct"
         \/ UNCHANGED run \/ \A t \in Tasks : ~Works(task'[t], r)
  PROVE  RowsGo
BY RowMoves, RowsSame DEF UpdateRun

\* A tool action only moves a direct run.
LEMMA DirectKept ==
  ASSUME Inv, Good, SlotsOK, NEW q \in Requests,
         \/ DirectBegin(q) \/ DirectWait(q)
         \/ DirectEnd(q) \/ DirectUndo(q) \/ DirectUndoQueued(q)
  PROVE  Kept
<1>1. task[q].kind = "direct" /\ UNCHANGED <<ckpt, batches, mode, recon>> /\ q \in Tasks
  BY DEF DirectBegin, DirectWait, DirectEnd, DirectUndo, DirectUndoQueued, At, rest, Tasks
<1>2. /\ task[q] # Idle /\ Of(q) = task[q].run /\ task[q].run \in Runs
      /\ run[task[q].run].status # "absent"
  BY <1>1, Works1
<1>3. PICK pc : (Goto(q, pc) \/ Done(q)) /\ pc \in {"propose", "undo", "undoQueued"}
  BY DEF DirectBegin, DirectWait, DirectEnd, DirectUndo, DirectUndoQueued
<1>4. task[q].pc \in {"begin", "wait", "end", "undo", "undoQueued"}
  BY DEF DirectBegin, DirectWait, DirectEnd, DirectUndo, DirectUndoQueued, At
<1>5. Alone(q) /\ Goes(task[q], task'[q])
  BY <1>1, <1>3, <1>4, GotoFields, DoneGoes, MoveGoes DEF AsidePcs
<1>6. ASSUME Steady
      PROVE  RowsGo
  <2>1. run[Of(q)].kind = "direct"
    BY <1>1, <1>2, <1>6 DEF Steady, KindsOK
  <2>2. task[q].pc = "end" => task[q].out \in {"queued", "completed", "failed"}
    BY <1>1 DEF Inv, TasksOK, TaskOK
  <2>3. PICK to \in Statuses : SetRun(Of(q), to) \/ UNCHANGED run
    BY <2>2 DEF DirectBegin, DirectWait, DirectEnd, DirectUndo, DirectUndoQueued, UpdateRun, At,
                Statuses, Terminal, Parked
  <2> QED
    BY <1>2, <2>1, <2>3, RowMoves, RowsSame
<1> QED
  BY <1>1, <1>2, <1>5, <1>6, KeptGoing

\* Parking a tool action writes the checkpoint of a direct run.
LEMMA DirectSaveKept ==
  ASSUME Inv, Good, SlotsOK, NEW q \in Requests, DirectSaveWait(q)
  PROVE  Kept
<1>1. task[q].kind = "direct" /\ task[q].pc = "saveWait" /\ q \in Tasks
      /\ UNCHANGED <<run, batches, mode, recon>> /\ Goto(q, "wait")
  BY DEF DirectSaveWait, At, rest, Tasks
<1>2. /\ task[q] # Idle /\ Of(q) = task[q].run /\ task[q].run \in Runs
  BY <1>1, Works1
<1>3. Alone(q) /\ Goes(task[q], task'[q]) /\ task'[q].kind = "direct"
  <2>1. Alone(q) /\ task'[q].pc = "wait" /\ SameFields(task[q], task'[q])
    BY <1>1, GotoFields
  <2>2. task'[q].kind = "direct"
    BY <1>1, <2>1 DEF SameFields
  <2> QED
    BY <1>1, <2>1, <2>2, MoveGoes
<1>4. TasksTrack /\ NoAdmission
  <2>1. q \notin Executors
    BY TasksAssumption
  <2> QED
    BY <1>2, <1>3, <2>1 DEF TasksTrack, Tracks, Carried, Goes, SameWork, Alone, NoAdmission, Tasks
<1>5. \A r \in Runs \ {Of(q)} : ckpt'[r] = ckpt[r]
  BY <1>2 DEF DirectSaveWait, Save, Inv, TypeOK
<1>6. ASSUME Steady
      PROVE  LoopsOK' /\ BudgetsOK'
  <2>1. run[Of(q)].kind = "direct"
    BY <1>1, <1>2, <1>6 DEF Steady, KindsOK
  <2>2. BudgetsOK'
    BY <1>1, <1>2, <1>5, <1>6, <2>1 DEF Steady, BudgetsOK, BudgetOK
  <2>3. ASSUME NEW t \in Tasks, task'[t].kind = "loop"
        PROVE  LoopOK(task'[t], run[task'[t].run], ckpt'[task'[t].run])
    <3>1. task'[t] = task[t] /\ task[t].run \in Runs
      BY <1>3, <2>3, Works1 DEF Alone
    <3>2. LoopOK(task[t], run[task[t].run], ckpt[task[t].run])
      BY <1>6, <2>3, <3>1 DEF Steady, LoopsOK
    <3> QED
      BY <1>5, <2>1, <3>1, <3>2 DEF LoopOK
  <2>4. LoopsOK'
    BY <1>1, <2>3 DEF LoopsOK
  <2> QED
    BY <2>2, <2>4
<1> QED
  BY <1>1, <1>4, <1>6, RowsSame, StartupSame DEF Kept, Steady

\* An approval, a rejection or an input.
LEMMA DecisionKept ==
  ASSUME Inv, Good, SlotsOK, NEW q \in Requests,
         \/ ApproveGrant(q) \/ ApproveResolve(q) \/ ApproveRelease(q)
         \/ RejectResolve(q) \/ RejectQueue(q) \/ InputQueue(q)
  PROVE  Kept
<1>1. /\ task[q].kind \in {"approve", "reject", "input"} /\ q \in Tasks
      /\ UNCHANGED <<ckpt, batches, mode, recon>>
  BY DEF ApproveGrant, ApproveResolve, ApproveRelease, RejectResolve, RejectQueue, InputQueue, At,
         rest, Tasks
<1>2. /\ task[q] # Idle /\ Of(q) = task[q].run /\ task[q].run \in Runs
      /\ run[task[q].run] \in Row /\ run[task[q].run].status # "absent"
  BY <1>1, Works1
<1>3. CASE ApproveGrant(q)
  <2>1. task[q].kind = "approve" /\ task[q].pc = "grant"
    BY <1>3 DEF ApproveGrant, At
  <2>2. CASE UpdateRun(Of(q), "waiting_approval", "running") /\ Goto(q, "resolve")
    <3>1. Alone(q) /\ task'[q].pc = "resolve" /\ SameFields(task[q], task'[q])
      BY <1>1, <2>2, GotoFields
    <3>2. run[Of(q)].status \notin Held /\ run'[Of(q)].status = "running"
      BY <1>2, <2>2, MovedRow DEF UpdateRun, SetRun, Held, Terminal, Statuses, Inv, TypeOK
    <3>3. Tracks(q)
      BY <1>2, <2>1, <3>1, <3>2 DEF Tracks, Takes, Alone, SameFields
    <3>4. RowsGo
      BY <1>2, <2>2, UpdateGoes DEF Held, Statuses
    <3>5. LoopGoes(q) /\ q \notin Executors
      BY <2>1, <3>1, TasksAssumption DEF LoopGoes, SameFields
    <3> QED
      BY <1>1, <3>1, <3>3, <3>4, <3>5, KeptAlone
  <2>3. CASE UNCHANGED run /\ Done(q)
    BY <1>1, <1>2, <2>3, DoneGoes, KeptGoing, RowsSame
  <2> QED
    BY <1>3, <2>2, <2>3 DEF ApproveGrant
<1>4. CASE ApproveResolve(q) \/ RejectResolve(q)
  <2>1. UNCHANGED run /\ task[q].kind # "loop" /\ task[q].pc = "resolve"
    BY <1>4 DEF ApproveResolve, RejectResolve, At
  <2>2. PICK pc : (Goto(q, pc) \/ Done(q)) /\ pc \in {"advance", "release", "requeue"}
    BY <1>4 DEF ApproveResolve, RejectResolve
  <2>3. Alone(q) /\ Goes(task[q], task'[q])
    BY <1>1, <2>1, <2>2, GotoFields, DoneGoes, MoveGoes DEF AsidePcs
  <2> QED
    BY <1>1, <1>2, <2>1, <2>3, KeptGoing, RowsSame
<1>5. CASE ApproveRelease(q) \/ RejectQueue(q) \/ InputQueue(q)
  <2>1. PICK from \in {"running", "waiting_approval", "waiting_input"} :
          /\ UpdateRun(Of(q), from, "queued") \/ UNCHANGED run
          /\ from = "running" => task[q].kind = "approve" /\ task[q].pc = "release"
    <3>1. CASE ApproveRelease(q)
      BY <3>1 DEF ApproveRelease, At
    <3>2. CASE RejectQueue(q)
      BY <3>2 DEF RejectQueue
    <3>3. CASE InputQueue(q)
      BY <3>3 DEF InputQueue
    <3> QED
      BY <1>5, <3>1, <3>2, <3>3
  <2>2. Alone(q) /\ Goes(task[q], task'[q]) /\ task'[q] = Idle
    BY <1>1, <1>5, DoneGoes DEF ApproveRelease, RejectQueue, InputQueue
  <2>3. ASSUME Steady
        PROVE  RowsGo
    <3>1. CASE run[Of(q)].kind = "direct" \/ UNCHANGED run
      BY <1>2, <2>1, <3>1, UpdateGoes DEF Statuses
    <3>2. CASE run[Of(q)].kind = "model" /\ UpdateRun(Of(q), from, "queued")
      <4>1. \A u \in Tasks : Works(task[u], Of(q)) => u = q
        <5>1. CASE from = "running"
          <6>1. Works(task[q], Of(q))
            BY <1>2, <2>1, <5>1 DEF Works
          <6> QED
            BY <1>1, <1>2, <2>3, <3>2, <6>1 DEF Steady, OneWorker
        <5>2. CASE from # "running"
          BY <1>2, <2>3, <3>2, <5>2 DEF Steady, OneWorker, UpdateRun, Held, Terminal
        <5> QED
          BY <5>1, <5>2
      <4>2. \A u \in Tasks : ~Works(task'[u], Of(q))
        BY <2>2, <4>1 DEF Alone, Works, Idle
      <4> QED
        BY <1>2, <3>2, <4>2, UpdateGoes DEF Statuses
    <3> QED
      BY <1>2, <2>1, <3>1, <3>2 DEF Row, RunKindNames
  <2> QED
    BY <1>1, <1>2, <2>2, <2>3, KeptGoing
<1> QED
  BY <1>3, <1>4, <1>5

-----------------------------------------------------------------------------
(* Aborts, and the process.                                                *)

\* Tasks that are told to stop, or are gone.
LEMMA KeptAborts ==
  ASSUME Inv, Good, SlotsOK,
         \A t \in Tasks :
           \/ task'[t] = Idle
           \/ task'[t] = task[t]
           \/ task[t] # Idle /\ \E reason \in Aborts : task'[t] = Aborted(t, reason),
         UNCHANGED <<run, ckpt, batches>>,
         NoRivals /\ Steady /\ TasksTrack => StartupOK'
  PROVE  Kept
<1>1. ASSUME NEW t \in Tasks
      PROVE  \/ task'[t] = Idle
             \/ task'[t] = task[t]
             \/ task[t] # Idle /\ task'[t].pc = task[t].pc /\ SameFields(task[t], task'[t])
  <2>1. task[t] \in Task
    BY DEF Inv, TypeOK
  <2> QED
    BY <2>1 DEF Aborted, SameFields, Task
<1>2. TasksTrack
  BY <1>1 DEF TasksTrack, Tracks, Carried, SameFields
<1>3. NoAdmission
  BY <1>1 DEF NoAdmission, Tasks
<1>4. ASSUME Steady
      PROVE  LoopsOK'
  <2> SUFFICES ASSUME NEW t \in Tasks, task'[t].kind = "loop"
               PROVE  LoopOK(task'[t], run[task'[t].run], ckpt[task'[t].run])
    BY DEF LoopsOK
  <2>1. /\ task'[t].pc = task[t].pc /\ task'[t].run = task[t].run /\ task[t].kind = "loop"
        /\ task'[t].rev = task[t].rev /\ task'[t].step = task[t].step
    BY <1>1 DEF SameFields, Idle
  <2> QED
    BY <1>4, <2>1 DEF Steady, LoopsOK, LoopOK, Progress
<1> QED
  BY <1>2, <1>3, <1>4, RowsSame, BudgetsSame DEF Kept, Steady

\* A cancel aborts the loop, or cancels the row.
LEMMA CancelRequestKept ==
  ASSUME Inv, Good, SlotsOK, NEW q \in Requests, CancelOwned(q) \/ CancelRow(q) \/ CancelSignal(q)
  PROVE  Kept
<1>1. /\ task[q].kind = "cancel" /\ q \in Tasks /\ UNCHANGED <<ckpt, batches, mode, recon>>
      /\ task[q].pc \in {"owned", "cancelRow", "signal"}
  BY DEF CancelOwned, CancelRow, CancelSignal, At, rest, Tasks
<1>2. task[q] # Idle /\ Of(q) = task[q].run /\ task[q].run \in Runs
  BY <1>1, Works1
<1>3. CASE AbortRun(q, Of(q)) /\ UNCHANGED run
  <2>1. \A t \in Tasks :
          \/ task'[t] = Idle
          \/ task'[t] = task[t]
          \/ task[t] # Idle /\ \E reason \in Aborts : task'[t] = Aborted(t, reason)
    BY <1>2, <1>3, ReachedBusy DEF AbortRun, Aborts
  <2> QED
    BY <1>1, <1>3, <2>1, KeptAborts, StartupSame DEF Steady
<1>4. ASSUME NEW pc \in {"cancelRow", "signal"}, Goto(q, pc) \/ Done(q), RowsGo
      PROVE  Kept
  <2>1. Alone(q) /\ Goes(task[q], task'[q])
    BY <1>1, <1>4, GotoFields, DoneGoes, MoveGoes DEF AsidePcs
  <2> QED
    BY <1>1, <1>2, <1>4, <2>1, KeptGoing
<1>5. CASE CancelRow(q)
  <2>1. CASE CancelRun(Of(q))
    BY <1>2, <1>4, <1>5, <2>1, RowMoves DEF CancelRow, CancelRun, Held, Terminal, Statuses
  <2>2. CASE UNCHANGED run
    BY <1>4, <1>5, <2>2, RowsSame DEF CancelRow
  <2> QED
    BY <1>5, <2>1, <2>2 DEF CancelRow
<1> QED
  BY <1>3, <1>4, <1>5, RowsSame DEF CancelOwned, CancelSignal

LEMMA RequestStepKept ==
  ASSUME Inv, Good, SlotsOK, NEW q \in Requests, RequestStep(q)
  PROVE  Kept
<1>1. q \in Tasks
  BY DEF Tasks
<1> QED
  BY <1>1, DirectKept, DirectSaveKept, DecisionKept, CancelRequestKept, CheckpointConflictKept
  DEF RequestStep

\* A run goes back to the queue when nobody works: start-up waits for no loop, and
\* without rivals there is no approval.
LEMMA RecoverKept ==
  ASSUME Inv, Good, SlotsOK, NEW r \in Runs, NEW v, <<r, v>> \in recon.todo, RecoverOne(r, v)
  PROVE  Kept
<1>1. UNCHANGED <<task, mode, batches>> /\ mode \in {"reconciling", "stopping"} /\ mode # "serving"
  BY DEF RecoverOne
<1>2. TasksTrack /\ NoAdmission
  BY <1>1 DEF TasksTrack, Tracks, Carried, NoAdmission
<1>3. recon'.todo \subseteq recon.todo
  <2>1. recon \in Recon
    BY DEF Inv, TypeOK
  <2>2. recon'.todo = recon.todo \ {<<r, v>>}
    BY <2>1 DEF RecoverOne, Recon
  <2> QED
    BY <2>2
<1>4. ASSUME NoRivals, Steady
      PROVE  RowsGo /\ LoopsOK' /\ BudgetsOK' /\ StartupOK'
  <2>1. \A t \in Tasks : task[t].kind \notin {"loop", "approve"}
    BY <1>1, <1>4 DEF NoRivals, Steady, StartupOK
  <2>2. RowsGo /\ LoopsOK'
    BY <1>1, <2>1 DEF RowsGo, RowGoes, Works, LoopsOK
  <2>3. StartupOK'
    BY <1>1, <1>3, <1>4 DEF Steady, StartupOK
  <2>4. BudgetsOK'
    <3>1. \A s \in Runs : ckpt'[s].step = ckpt[s].step
      <4> DEFINE n == ckpt[r].recoveries + 1
                 rev == ckpt[r].rev + 1
                 cp == [ckpt[r] EXCEPT !.recoveries = n, !.rev = rev]
      <4>1. ckpt \in [Runs -> Checkpoint] /\ ckpt[r] \in Checkpoint
        BY DEF Inv, TypeOK
      <4>2. UNCHANGED ckpt \/ ckpt' = [ckpt EXCEPT ![r] = cp]
        BY <4>1 DEF RecoverOne
      <4> HIDE DEF n, rev
      <4>3. cp.step = ckpt[r].step
        BY <4>1 DEF Checkpoint
      <4> HIDE DEF cp
      <4> QED
        BY <4>1, <4>2, <4>3
    <3>2. run \in [Runs -> Row] /\ run[r] \in Row
      BY DEF Inv, TypeOK
    <3>3. \A s \in Runs : run'[s].kind = run[s].kind /\ (run'[s].status = "absent" => run[s].status = "absent")
      <4>1. UNCHANGED run \/ \E to \in {"queued", "interrupted"} : SetRun(r, to)
        BY DEF RecoverOne
      <4>2. ASSUME NEW to \in {"queued", "interrupted"}, SetRun(r, to)
            PROVE  /\ \A s \in Runs \ {r} : run'[s] = run[s]
                   /\ run'[r].kind = run[r].kind /\ run'[r].status = to
        BY <3>2, <4>2 DEF SetRun, Moved, Row
      <4> QED
        BY <4>1, <4>2
    <3> QED
      BY <1>1, <1>4, <3>1, <3>3 DEF Steady, BudgetsOK, BudgetOK
  <2> QED
    BY <2>2, <2>3, <2>4
<1> QED
  BY <1>2, <1>4 DEF Kept

\* Start, shutdown and crash.
LEMMA ProcessKept ==
  ASSUME Inv, Good, SlotsOK, Process \/ StopBegin \/ Crash
  PROVE  Kept
<1>1. ASSUME NEW row \in recon.todo, RecoverOne(row[1], row[2])
      PROVE  Kept
  <2>1. row[1] \in Runs /\ row = <<row[1], row[2]>>
    BY <1>1 DEF Inv, TypeOK, Recon
  <2> QED
    BY <1>1, <2>1, RecoverKept
<1>2. CASE Boot \/ ListRunning \/ ReconcileDone
  <2>1. UNCHANGED <<run, ckpt, batches, task>>
    BY <1>2 DEF Boot, ListRunning, ReconcileDone
  <2>2. Steady => StartupOK'
    BY <1>2 DEF Boot, ListRunning, ReconcileDone, Steady, StartupOK, NoRecon
  <2> QED
    BY <2>1, <2>2, KeptAborts
<1>3. CASE StopEnd \/ Crash
  <2>1. UNCHANGED <<run, ckpt, batches>> /\ \A t \in Tasks : task'[t] = Idle
    BY <1>3 DEF StopEnd, Crash, Down
  <2>2. mode' = "down" /\ recon' = NoRecon
    BY <1>3 DEF StopEnd, Crash, Down
  <2>3. Steady => MaxRestarts # 0
    BY <1>3, LimitsAssumption DEF StopEnd, Crash, Steady, StartupOK, Inv, TypeOK
  <2>4. Steady => StartupOK'
    BY <2>1, <2>2, <2>3 DEF StartupOK, NoRecon, Idle
  <2> QED
    BY <2>1, <2>4, KeptAborts
<1>4. CASE StopBegin
  <2>1. \A t \in Tasks :
          \/ task'[t] = task[t]
          \/ task[t] # Idle /\ \E reason \in Aborts : task'[t] = Aborted(t, reason)
    BY <1>4, ReachedBusy DEF StopBegin, Aborts
  <2>2. UNCHANGED <<run, ckpt, batches, recon>> /\ mode' = "stopping" /\ MaxRestarts # 0
        /\ mode \in {"serving", "reconciling"}
    BY <1>4, LimitsAssumption DEF StopBegin, Inv, TypeOK
  <2>3. ASSUME Steady, TasksTrack
        PROVE  StartupOK'
    <3>1. \A t \in Tasks : task'[t].kind = "idle" \/ task'[t].kind = task[t].kind
      <4>1. \A t \in Tasks : task[t] \in Task
        BY DEF Inv, TypeOK
      <4> QED
        BY <2>1, <4>1 DEF Aborted, Task
    <3> QED
      BY <2>2, <2>3, <3>1 DEF Steady, StartupOK
  <2> QED
    BY <2>1, <2>2, <2>3, KeptAborts
<1> QED
  BY <1>1, <1>2, <1>3, <1>4 DEF Process

-----------------------------------------------------------------------------
(* Loops.                                                                  *)

\* What is known of a loop that is at some step.
LEMMA AtLoop ==
  ASSUME Inv, NEW t \in Executors, task[t].kind = "loop"
  PROVE  /\ t \in Tasks /\ task \in [Tasks -> Task] /\ task[t] \in Task /\ task[t] # Idle
         /\ Of(t) = task[t].run /\ task[t].run \in Runs
         /\ run[task[t].run] \in Row /\ run[task[t].run].status # "absent"
         /\ ckpt[task[t].run] \in Checkpoint /\ task[t].rev \in Nat /\ task[t].step \in Nat
<1>1. t \in Tasks
  BY DEF Tasks
<1> QED
  BY <1>1, Busy DEF Inv, TypeOK

\* A loop that saves a checkpoint saves it over the one it started from.
LEMMA KeptSaving ==
  ASSUME Inv, Good, SlotsOK, NEW t \in Executors, task[t].kind = "loop", task[t].pc \in GoingPcs,
         NEW phase, NEW step \in Nat, NEW pending, NEW owed, NEW final,
         Save(t, phase, step, pending, owed, final),
         Alone(t), SameWork(task[t], task'[t]), UNCHANGED <<run, mode, recon>>,
         task'[t].pc \in GoingPcs => task'[t].rev = task[t].rev + 1 /\ task'[t].step = step,
         task'[t].pc \in {"stream", "tools"} => step < MaxModelSteps,
         task'[t].pc \in ModelPcs => task[t].pc \in ModelPcs,
         \/ step = task[t].step /\ UNCHANGED batches
         \/ /\ step = task[t].step + 1 /\ task[t].pc = "tools"
            /\ batches' = [batches EXCEPT ![Of(t)] = @ + 1]
  PROVE  Kept
<1> DEFINE r == Of(t)
           next == [rev |-> task[t].rev + 1, phase |-> phase, step |-> step,
                    pending |-> pending, owed |-> owed, blocked |-> task[t].blocked,
                    final |-> final, recoveries |-> 0]
<1>1. /\ t \in Tasks /\ task[t] # Idle /\ r = task[t].run /\ r \in Runs
      /\ ckpt[r] \in Checkpoint /\ task[t].rev \in Nat /\ task[t].step \in Nat
      /\ run[r] \in Row /\ run[r].status # "absent"
  BY AtLoop
<1>2. /\ ckpt'[r] = AfterSave(ckpt[r], task[t].rev, next)
      /\ \A s \in Runs \ {r} : ckpt'[s] = ckpt[s]
  BY <1>1 DEF Save, Inv, TypeOK
<1>3. next.rev = task[t].rev + 1 /\ next.step = step
  OBVIOUS
<1> HIDE DEF next
<1>4. TasksTrack /\ NoAdmission
  BY <1>1 DEF TasksTrack, Tracks, Carried, SameWork, Alone, NoAdmission, Tasks
<1>5. ASSUME Steady
      PROVE  LoopsOK' /\ BudgetsOK'
  <2>1. LoopOK(task[t], run[r], ckpt[r]) /\ BudgetOK(run[r], ckpt[r], batches[r])
    BY <1>1, <1>5 DEF Steady, LoopsOK, BudgetsOK
  <2>2. batches[r] \in Nat /\ \A s \in Runs \ {r} : batches'[s] = batches[s]
    BY <1>1 DEF Inv, TypeOK
  <2>3. batches'[r] = batches[r] \/ (batches'[r] = batches[r] + 1 /\ task[t].pc = "tools" /\ step = task[t].step + 1)
    BY <1>1 DEF Inv, TypeOK
  <2>4. CASE run[r].kind = "model"
    <3>1. Progress(task[t], ckpt[r]) /\ batches[r] <= ckpt[r].step /\ ckpt[r].step \in Nat
      BY <1>1, <2>1, <2>4 DEF LoopOK, BudgetOK, Checkpoint
    <3>2. ckpt'[r] = [next EXCEPT !.recoveries = ckpt[r].recoveries]
      BY <1>2, <3>1 DEF AfterSave, SaveStores, Progress
    <3>3. ckpt'[r].rev = task[t].rev + 1 /\ ckpt'[r].step = step
      BY <1>3, <3>2 DEF next
    <3>4. task[t].step <= step /\ step <= MaxModelSteps /\ batches'[r] <= step
      BY <1>1, <2>2, <2>3, <3>1, LimitsAssumption DEF Progress
    <3>5. LoopOK(task'[t], run[r], ckpt'[r])
      BY <1>1, <2>4, <3>3, <3>4 DEF LoopOK, Progress
    <3>6. BudgetsOK'
      <4>1. BudgetOK(run[r], ckpt'[r], batches'[r])
        BY <1>1, <2>4, <3>3, <3>4 DEF BudgetOK
      <4> QED
        BY <1>2, <1>5, <2>2, <4>1 DEF Steady, BudgetsOK
    <3>7. ASSUME NEW u \in Tasks, task'[u].kind = "loop"
          PROVE  LoopOK(task'[u], run[task'[u].run], ckpt'[task'[u].run])
      <4>1. CASE u = t
        BY <1>1, <3>5, <4>1 DEF SameWork
      <4>2. CASE u # t /\ task[u].run # r
        <5>1. task'[u] = task[u] /\ task[u].run \in Runs
          BY <3>7, <4>2, Busy DEF Alone
        <5> QED
          BY <1>2, <1>5, <3>7, <4>2, <5>1 DEF Steady, LoopsOK
      <4>3. CASE u # t /\ task[u].run = r
        <5>1. task'[u] = task[u]
          BY <4>3 DEF Alone
        <5>2. Works(task[t], r) /\ (task[u].pc # "finish" => Works(task[u], r))
          BY <1>1, <3>7, <4>3, <5>1 DEF Works, GoingPcs, ModelPcs
        <5>3. task[u].pc = "finish"
          BY <1>1, <1>5, <2>4, <4>3, <5>2 DEF Steady, OneWorker
        <5> QED
          BY <2>4, <4>3, <5>1, <5>3 DEF LoopOK, GoingPcs, ModelPcs
      <4> QED
        BY <4>1, <4>2, <4>3
    <3> QED
      BY <3>6, <3>7 DEF LoopsOK
  <2>5. CASE run[r].kind = "direct"
    <3>1. task[t].pc \notin ModelPcs /\ task'[t].pc \notin ModelPcs
      BY <2>1, <2>5 DEF LoopOK
    <3>2. batches'[r] = batches[r]
      BY <2>3, <3>1 DEF ModelPcs
    <3>3. BudgetsOK'
      BY <1>2, <1>5, <2>2, <2>5, <3>2 DEF Steady, BudgetsOK, BudgetOK
    <3>4. ASSUME NEW u \in Tasks, task'[u].kind = "loop"
          PROVE  LoopOK(task'[u], run[task'[u].run], ckpt'[task'[u].run])
      <4>1. CASE u = t
        BY <1>1, <2>5, <3>1, <4>1 DEF SameWork, LoopOK
      <4>2. CASE u # t
        <5>1. task'[u] = task[u] /\ task[u].run \in Runs
          BY <3>4, <4>2, Busy DEF Alone
        <5>2. LoopOK(task[u], run[task[u].run], ckpt[task[u].run])
          BY <1>5, <3>4, <5>1 DEF Steady, LoopsOK
        <5> QED
          BY <1>2, <2>5, <5>1, <5>2 DEF LoopOK
      <4> QED
        BY <4>1, <4>2
    <3> QED
      BY <3>3, <3>4 DEF LoopsOK
  <2> QED
    BY <1>1, <2>4, <2>5 DEF Row, RunKindNames
<1> QED
  BY <1>4, <1>5, RowsSame, StartupSame DEF Kept, Steady

\* A loop that has saved and goes on at pc, with a session or without.
LEMMA SavedFields ==
  ASSUME Inv, NEW t \in Tasks, NEW y, task' = [task EXCEPT ![t] = y]
  PROVE  Alone(t) /\ task'[t] = y
<1>1. task \in [Tasks -> Task]
  BY DEF Inv, TypeOK
<1> QED
  BY <1>1 DEF Alone

\* claimNextQueuedRun takes a run nobody works on.
LEMMA ClaimKept ==
  ASSUME Inv, Good, SlotsOK, NEW t \in Executors, NEW r \in Runs, Claim(t, r)
  PROVE  Kept
<1> DEFINE ver == run[r].version + 1
           y == [Idle EXCEPT !.kind = "loop", !.pc = "register", !.run = r, !.ver = ver]
<1>1. t \in Tasks /\ task \in [Tasks -> Task] /\ run \in [Runs -> Row] /\ run[r] \in Row
  BY DEF Tasks, Inv, TypeOK
<1>2. task' = [task EXCEPT ![t] = y]
  BY DEF Claim
<1>3. run[r].status = "queued" /\ run'[r] = Moved(run[r], "running")
  BY <1>1 DEF Claim, UpdateRun, SetRun
<1>4. run'[r].status = "running" /\ run'[r].version = ver /\ ver \in Nat
  BY <1>1, <1>3 DEF Moved, Row
<1> HIDE DEF ver
<1>5. y.kind = "loop" /\ y.pc = "register" /\ y.run = r /\ y.ver = ver
  BY DEF Idle
<1> HIDE DEF y
<1>6. Alone(t) /\ task'[t] = y
  BY <1>1, <1>2, SavedFields
<1>7. Tracks(t)
  <2>1. task'[t].kind = "loop" /\ task'[t].pc = "register" /\ task'[t].run = r /\ task'[t].ver = ver
    BY <1>5, <1>6
  <2>2. "queued" \notin Held /\ ver <= ver /\ mode = "serving"
    BY <1>4 DEF Held, Terminal, Claim
  <2> QED
    BY <1>3, <1>4, <1>6, <2>1, <2>2 DEF Tracks, Takes, Alone
<1>8. RowsGo
  BY <1>1, RowMoves DEF Claim, UpdateRun, Held, Statuses
<1>9. LoopGoes(t)
  BY <1>5, <1>6 DEF LoopGoes, LoopOK, GoingPcs, ModelPcs
<1>10. UNCHANGED <<ckpt, batches, mode, recon>>
  BY DEF Claim, rest
<1> QED
  BY <1>1, <1>5, <1>6, <1>7, <1>8, <1>9, <1>10, KeptAlone DEF AsidePcs

\* A loop that goes on without saving a checkpoint.
LEMMA LoopMoves ==
  ASSUME Inv, Good, SlotsOK, NEW t \in Executors, task[t].kind = "loop", NEW y,
         task' = [task EXCEPT ![t] = y], SameFields(task[t], y),
         task[t].pc = "finish" => y.pc = "finish",
         task[t].pc \in AsidePcs => y.pc \in AsidePcs,
         \/ y.pc \notin GoingPcs
         \/ task[t].pc \in GoingPcs /\ y.pc \in GoingPcs \ ModelPcs
         \/ task[t].pc \in {"stream", "tools"} /\ y.pc \in {"stream", "tools"}
         \/ task[t].pc \in ModelPcs /\ y.pc \in ModelPcs \ {"stream", "tools"},
         UNCHANGED <<ckpt, batches, mode, recon>>,
         Steady => RowsGo
  PROVE  Kept
<1>1. t \in Tasks /\ task[t] # Idle
  BY AtLoop
<1>2. Alone(t) /\ task'[t] = y
  BY <1>1, SavedFields
<1>3. Goes(task[t], task'[t])
  BY <1>2, MoveGoes
<1> QED
  BY <1>1, <1>2, <1>3, KeptGoing

\* A loop that goes to another step with goto or the catch block.
LEMMA LoopStops ==
  ASSUME Inv, Good, SlotsOK, NEW t \in Executors, task[t].kind = "loop", NEW pc, NEW fenced,
         Goto(t, pc) \/ StopFor(t, pc, fenced),
         task[t].pc = "finish" => pc = "finish",
         task[t].pc \in AsidePcs => pc \in AsidePcs,
         \/ pc \notin GoingPcs
         \/ task[t].pc \in GoingPcs /\ pc \in GoingPcs \ ModelPcs
         \/ task[t].pc \in {"stream", "tools"} /\ pc \in {"stream", "tools"}
         \/ task[t].pc \in ModelPcs /\ pc \in ModelPcs \ {"stream", "tools"},
         UNCHANGED <<ckpt, batches, mode, recon>>,
         Steady => RowsGo
  PROVE  Kept
<1>1. t \in Tasks /\ task[t] # Idle
  BY AtLoop
<1>2. Alone(t) /\ task'[t].pc = pc /\ SameFields(task[t], task'[t])
  BY <1>1, GotoFields
<1>3. Goes(task[t], task'[t])
  BY <1>2, MoveGoes
<1> QED
  BY <1>1, <1>2, <1>3, KeptGoing

\* The quota check, with the row as it is or failed.
LEMMA AdmitKept ==
  ASSUME Inv, Good, SlotsOK, NEW t \in Executors, Admit(t)
  PROVE  Kept
<1>1. task[t].kind = "loop" /\ task[t].pc = "admit" /\ UNCHANGED <<ckpt, batches, mode, recon>>
  BY DEF Admit, At, rest
<1>2. /\ t \in Tasks /\ task \in [Tasks -> Task] /\ task[t] \in Task /\ task[t] # Idle
      /\ Of(t) = task[t].run /\ task[t].run \in Runs
  BY <1>1, AtLoop
<1>3. CASE Cardinality(ActiveRuns) <= UserConcurrentRuns /\ UNCHANGED run /\ Goto(t, "start")
  <2>1. Alone(t) /\ task'[t].pc = "start" /\ SameFields(task[t], task'[t])
    BY <1>2, <1>3, GotoFields
  <2>2. Tracks(t) /\ Admission /\ LoopGoes(t)
    BY <1>1, <1>2, <1>3, <2>1
    DEF Tracks, Carried, SameFields, Admission, LoopGoes, LoopOK, GoingPcs, ModelPcs
  <2> QED
    BY <1>1, <1>2, <1>3, <2>1, <2>2, RowsSame, KeptAlone
<1>4. CASE /\ UpdateRun(Of(t), "running", "failed") \/ UNCHANGED run
           /\ \/ Goto(t, "exhausted")
              \/ task' = [task EXCEPT ![t].pc = "finish", ![t].out = "failed"]
  <2>1. RowsGo
    BY <1>2, <1>4, UpdateGoes DEF Held, Terminal, Statuses
  <2>2. CASE Goto(t, "exhausted")
    BY <1>1, <1>2, <2>1, <2>2, GotoFields, MoveGoes, KeptGoing DEF GoingPcs, ModelPcs, AsidePcs
  <2>3. CASE task' = [task EXCEPT ![t].pc = "finish", ![t].out = "failed"]
    <3> DEFINE y == [task[t] EXCEPT !.pc = "finish", !.out = "failed"]
    <3>1. task' = [task EXCEPT ![t] = y] /\ y.pc = "finish" /\ SameFields(task[t], y)
      BY <1>2, <2>3 DEF SameFields, Task
    <3> QED
      BY <1>1, <2>1, <3>1, LoopMoves DEF GoingPcs, ModelPcs, AsidePcs
  <2> QED
    BY <1>4, <2>2, <2>3
<1> QED
  BY <1>3, <1>4 DEF Admit

\* Registration, the look at the checkpoint and at the calls of a batch cut short.
LEMMA ResumeKept ==
  ASSUME Inv, Good, SlotsOK, NEW t \in Executors, Register(t) \/ Start(t) \/ Settle(t)
  PROVE  Kept
<1>1. task[t].kind = "loop" /\ UNCHANGED <<run, ckpt, batches, mode, recon>>
  BY DEF Register, Start, Settle, At, rest
<1>2. /\ t \in Tasks /\ task \in [Tasks -> Task] /\ task[t] \in Task /\ task[t] # Idle
      /\ Of(t) = task[t].run /\ task[t].run \in Runs /\ ckpt[task[t].run] \in Checkpoint
      /\ run[task[t].run] \in Row /\ run[task[t].run].status # "absent"
  BY <1>1, AtLoop
<1>3. CASE Register(t)
  <2>1. task[t].pc = "register" /\ Goto(t, "admit")
    BY <1>3 DEF Register, At
  <2>2. "admit" \in AsidePcs /\ "admit" \notin GoingPcs
    BY DEF GoingPcs, ModelPcs, AsidePcs
  <2> QED
    BY <1>1, <2>1, <2>2, LoopStops, RowsSame
<1>4. CASE Start(t)
  <2> DEFINE cp == ckpt[task[t].run]
             rev == cp.rev
             step == cp.step
             owed == cp.owed
             blocked == cp.blocked
  <2>1. rev \in Nat /\ step \in Nat
    BY <1>2 DEF Checkpoint
  <2>2. PICK plan, call, fenced, pc :
          /\ pc \in {"settle", "verify", "branch"}
          /\ task' = [task EXCEPT ![t].rev = rev, ![t].step = step,
                ![t].owed = owed, ![t].blocked = blocked,
                ![t].plan = plan, ![t].call = call, ![t].fenced = fenced, ![t].pc = pc]
    BY <1>2, <1>4 DEF Start
  <2>3. step \in Nat /\ rev = cp.rev /\ step = cp.step
    BY <2>1
  <2> HIDE DEF rev, step, owed, blocked
  <2> DEFINE y == [task[t] EXCEPT !.rev = rev, !.step = step, !.owed = owed, !.blocked = blocked,
                                  !.plan = plan, !.call = call, !.fenced = fenced, !.pc = pc]
  <2>4. task' = [task EXCEPT ![t] = y]
    BY <1>2, <2>2
  <2>5. /\ y.kind = task[t].kind /\ y.run = task[t].run /\ y.ver = task[t].ver
        /\ y.pc = pc /\ y.rev = rev /\ y.step = step
    BY <1>2 DEF Task
  <2> HIDE DEF y
  <2>6. Alone(t) /\ task'[t] = y
    BY <1>2, <2>4, SavedFields
  <2>7. task[t].pc = "start" /\ task[t].pc \notin AsidePcs /\ pc \notin ModelPcs
    BY <1>4, <2>2 DEF Start, At, AsidePcs, ModelPcs
  <2>8. Tracks(t)
    BY <1>1, <1>2, <2>5, <2>6, <2>7 DEF Tracks, Carried
  <2>9. ASSUME Steady
        PROVE  LoopGoes(t)
    <3>1. CASE run[task[t].run].kind = "model"
      <4>1. step <= MaxModelSteps
        BY <1>2, <2>3, <2>9, <3>1 DEF Steady, BudgetsOK, BudgetOK
      <4>2. pc \notin {"stream", "tools"}
        BY <2>7 DEF ModelPcs
      <4>3. LoopOK(y, run[task[t].run], cp)
        BY <2>3, <2>5, <3>1, <4>1, <4>2 DEF LoopOK, Progress
      <4> QED
        BY <1>1, <2>5, <2>6, <4>3 DEF LoopGoes
    <3>2. CASE run[task[t].run].kind # "model"
      BY <1>1, <2>5, <2>6, <2>7, <3>2 DEF LoopGoes, LoopOK
    <3> QED
      BY <3>1, <3>2
  <2> QED
    BY <1>1, <1>2, <2>6, <2>7, <2>8, <2>9, RowsSame, KeptAlone
<1>5. CASE Settle(t)
  <2>1. task[t].pc = "settle"
    BY <1>5 DEF Settle, At
  <2>2. CASE Goto(t, "fail")
    <3>1. "fail" \notin GoingPcs /\ task[t].pc \notin AsidePcs
      BY <2>1 DEF GoingPcs, ModelPcs, AsidePcs
    <3> QED
      BY <1>1, <2>1, <2>2, <3>1, LoopStops, RowsSame
  <2>3. CASE ~Goto(t, "fail")
    <3> DEFINE owed == task[t].owed \cup OwedBy(Of(t))
               blocked == BlockedBy(Of(t), task[t].blocked)
               pc == IF owed = {} THEN "branch" ELSE "verify"
    <3>1. PICK call :
            task' = [task EXCEPT ![t].owed = owed, ![t].call = call,
                                 ![t].blocked = BlockedBy(Of(t), @), ![t].pc = pc]
      BY <1>5, <2>3 DEF Settle
    <3>2. pc \in {"verify", "branch"}
      OBVIOUS
    <3> HIDE DEF owed, pc
    <3> DEFINE y == [task[t] EXCEPT !.owed = owed, !.call = call, !.blocked = blocked, !.pc = pc]
    <3>3. task' = [task EXCEPT ![t] = y]
      BY <1>2, <3>1 DEF Task
    <3> HIDE DEF blocked
    <3>4. y.pc = pc /\ SameFields(task[t], y)
      BY <1>2 DEF SameFields, Task
    <3> HIDE DEF y
    <3>5. y.pc \in GoingPcs \ ModelPcs /\ task[t].pc \in GoingPcs /\ task[t].pc \notin AsidePcs
          /\ task[t].pc # "finish"
      BY <2>1, <3>2, <3>4 DEF GoingPcs, ModelPcs, AsidePcs
    <3> QED
      BY <1>1, <3>3, <3>4, <3>5, LoopMoves, RowsSame
  <2> QED
    BY <2>2, <2>3
<1> QED
  BY <1>3, <1>4, <1>5

\* A loop that saves: what its step has to be.
LEMMA LoopSaves ==
  ASSUME Inv, Good, SlotsOK, NEW t \in Executors, task[t].kind = "loop", task[t].pc \in GoingPcs,
         NEW phase, NEW pending, NEW owed, NEW final,
         Save(t, phase, task[t].step, pending, owed, final), NEW y,
         task' = [task EXCEPT ![t] = y],
         y.kind = "loop", y.run = task[t].run, y.ver = task[t].ver,
         y.rev = task[t].rev + 1, y.step = task[t].step,
         UNCHANGED <<run, batches, mode, recon>>,
         y.pc \in {"stream", "tools"} => task[t].step < MaxModelSteps,
         y.pc \in ModelPcs => task[t].pc \in ModelPcs
  PROVE  Kept
<1>1. t \in Tasks /\ task[t].step \in Nat
  BY AtLoop
<1>2. Alone(t) /\ task'[t] = y
  BY <1>1, SavedFields
<1>3. SameWork(task[t], y)
  BY DEF SameWork, GoingPcs, ModelPcs, AsidePcs
<1> QED
  BY <1>1, <1>2, <1>3, KeptSaving

LEMMA AbortPcs == ASSUME NEW t PROVE AbortPc(t) \in {"cancel", "interrupt", "fail"}
BY DEF AbortPc

\* Reading accepted writes back.
LEMMA VerifyKept ==
  ASSUME Inv, Good, SlotsOK, NEW t \in Executors,
         Verify(t) \/ CheckVerified(t) \/ CheckPending(t) \/ CheckFailed(t)
  PROVE  Kept
<1>1. /\ task[t].kind = "loop" /\ task[t].pc \in {"verify", "check"}
      /\ UNCHANGED <<run, batches, mode, recon>>
  BY DEF Verify, CheckVerified, CheckPending, CheckFailed, At, rest
<1>2. /\ t \in Tasks /\ task \in [Tasks -> Task] /\ task[t] \in Task /\ task[t] # Idle
      /\ task[t].rev \in Nat
  BY <1>1, AtLoop
<1>3. task[t].pc \in GoingPcs /\ task[t].pc \notin AsidePcs /\ task[t].pc # "finish"
  BY <1>1 DEF GoingPcs, AsidePcs
<1>4. ASSUME NEW pc \in {"branch", "fail"}, Goto(t, pc), UNCHANGED ckpt
      PROVE  Kept
  <2>1. pc \in GoingPcs \ ModelPcs \/ pc \notin GoingPcs
    BY <1>4 DEF GoingPcs, ModelPcs
  <2> QED
    BY <1>1, <1>3, <1>4, <2>1, LoopStops, RowsSame
<1>5. CASE CheckVerified(t)
  <2>1. PICK owed, blocked : task' = [task EXCEPT ![t].pc = "verify", ![t].owed = owed, ![t].blocked = blocked]
    <3>1. PICK c \in task[t].owed :
            task' = [task EXCEPT ![t].pc = "verify", ![t].owed = @ \ {c},
                                 ![t].blocked = @ \ {calls[Of(t)][c].key}]
      BY <1>5 DEF CheckVerified
    <3> DEFINE owed == task[t].owed \ {c}
               blocked == task[t].blocked \ {calls[Of(t)][c].key}
    <3>2. task' = [task EXCEPT ![t].pc = "verify", ![t].owed = owed, ![t].blocked = blocked]
      BY <1>2, <3>1 DEF Task
    <3> QED
      BY <3>2
  <2> DEFINE y == [task[t] EXCEPT !.pc = "verify", !.owed = owed, !.blocked = blocked]
  <2>2. task' = [task EXCEPT ![t] = y]
    BY <1>2, <2>1
  <2>3. y.pc = "verify" /\ SameFields(task[t], y)
    BY <1>2 DEF SameFields, Task
  <2> HIDE DEF y
  <2>4. y.pc \in GoingPcs \ ModelPcs
    BY <2>3 DEF GoingPcs, ModelPcs
  <2> QED
    BY <1>1, <1>3, <1>5, <2>2, <2>3, <2>4, LoopMoves, RowsSame DEF CheckVerified
<1>6. ASSUME NEW phase, NEW pc \in {"check", "verify", "cancel", "interrupt", "fail"},
             Save(t, phase, task[t].step, 0, task[t].owed, FALSE),
             task' = [task EXCEPT ![t].pc = pc, ![t].rev = @ + 1]
      PROVE  Kept
  <2> DEFINE rev == task[t].rev + 1
             y == [task[t] EXCEPT !.pc = pc, !.rev = rev]
  <2>1. task' = [task EXCEPT ![t] = y]
    BY <1>2, <1>6
  <2>2. y.pc = pc /\ y.rev = rev /\ y.kind = "loop" /\ y.run = task[t].run /\ y.ver = task[t].ver
        /\ y.step = task[t].step
    BY <1>1, <1>2 DEF Task
  <2> HIDE DEF y
  <2> QED
    BY <1>1, <1>3, <1>6, <2>1, <2>2, LoopSaves DEF ModelPcs
<1>7. CASE Verify(t)
  <2>1. CASE Goto(t, "branch") /\ UNCHANGED ckpt
    BY <1>4, <2>1
  <2>2. CASE /\ Save(t, "verification", task[t].step, 0, task[t].owed, FALSE)
             /\ task' = [task EXCEPT ![t].pc = IF task[t].abort = "none" THEN "check" ELSE AbortPc(t),
                                    ![t].rev = @ + 1]
    BY <1>6, <2>2, AbortPcs
  <2> QED
    BY <1>7, <2>1, <2>2 DEF Verify
<1>8. CASE CheckPending(t)
  BY <1>6, <1>8 DEF CheckPending
<1>9. CASE CheckFailed(t)
  BY <1>4, <1>9 DEF CheckFailed
<1> QED
  BY <1>5, <1>7, <1>8, <1>9

\* After the reconciliation of what is owed: a tool action's loop, a model's loop.
LEMMA BranchKept ==
  ASSUME Inv, Good, SlotsOK, NEW t \in Executors, Branch(t)
  PROVE  Kept
<1>1. /\ task[t].kind = "loop" /\ task[t].pc = "branch"
      /\ UNCHANGED <<run, batches, mode, recon>>
  BY DEF Branch, At, rest
<1>2. /\ t \in Tasks /\ task \in [Tasks -> Task] /\ task[t] \in Task /\ task[t] # Idle
      /\ Of(t) = task[t].run /\ task[t].run \in Runs /\ task[t].rev \in Nat
      /\ run[task[t].run] \in Row /\ run[task[t].run].status # "absent"
  BY <1>1, AtLoop
<1>3. task[t].pc \in GoingPcs /\ task[t].pc \notin AsidePcs
  BY <1>1 DEF GoingPcs, AsidePcs
<1>4. ASSUME NEW pc, NEW fenced, Goto(t, pc) \/ StopFor(t, pc, fenced), UNCHANGED ckpt, pc = "fail"
      PROVE  Kept
  <2>1. pc \notin GoingPcs
    BY <1>4 DEF GoingPcs, ModelPcs
  <2> QED
    BY <1>1, <1>3, <1>4, <2>1, LoopStops, RowsSame
<1>5. ASSUME NEW blocked, UNCHANGED ckpt,
             task' = [task EXCEPT ![t].owed = {1}, ![t].rechecked = TRUE,
                                  ![t].blocked = blocked, ![t].pc = "verify"]
      PROVE  Kept
  <2> DEFINE y == [task[t] EXCEPT !.owed = {1}, !.rechecked = TRUE, !.blocked = blocked, !.pc = "verify"]
  <2>1. task' = [task EXCEPT ![t] = y]
    BY <1>2, <1>5
  <2>2. y.pc = "verify" /\ SameFields(task[t], y)
    BY <1>2 DEF SameFields, Task
  <2> HIDE DEF y
  <2>3. y.pc \in GoingPcs \ ModelPcs
    BY <2>2 DEF GoingPcs, ModelPcs
  <2> QED
    BY <1>1, <1>3, <1>5, <2>1, <2>2, <2>3, LoopMoves, RowsSame
<1>6. ASSUME NEW blocked, NEW out,
             Save(t, "finalizing", task[t].step, 0, task[t].owed, FALSE),
             task' = [task EXCEPT ![t].pc = "commit", ![t].rev = @ + 1,
                ![t].blocked = blocked, ![t].fenced = FALSE, ![t].out = out]
      PROVE  Kept
  <2> DEFINE rev == task[t].rev + 1
             y == [task[t] EXCEPT !.pc = "commit", !.rev = rev, !.blocked = blocked,
                                  !.fenced = FALSE, !.out = out]
  <2>1. task' = [task EXCEPT ![t] = y]
    BY <1>2, <1>6
  <2>2. /\ y.pc = "commit" /\ y.rev = rev /\ y.kind = "loop" /\ y.run = task[t].run
        /\ y.ver = task[t].ver /\ y.step = task[t].step
    BY <1>1, <1>2 DEF Task
  <2> HIDE DEF y
  <2>3. y.pc \notin ModelPcs /\ y.pc \notin {"stream", "tools"}
    BY <2>2 DEF ModelPcs
  <2> QED
    BY <1>1, <1>3, <1>6, <2>1, <2>2, <2>3, LoopSaves
<1>7. CASE BranchDirect(t)
  <2> DEFINE call == IF MaxToolCalls = 0 THEN NoCall ELSE calls[Of(t)][1]
             blocked == Tracked(task[t].blocked, call)
             out == IF call.status = "canceled" THEN "failed" ELSE "completed"
  <2>1. \/ StopFor(t, "fail", FALSE) /\ UNCHANGED ckpt
        \/ /\ UNCHANGED ckpt
           /\ task' = [task EXCEPT ![t].owed = {1}, ![t].rechecked = TRUE,
                                   ![t].blocked = blocked, ![t].pc = "verify"]
        \/ /\ Save(t, "finalizing", task[t].step, 0, task[t].owed, FALSE)
           /\ task' = [task EXCEPT ![t].pc = "commit", ![t].rev = @ + 1,
                ![t].blocked = blocked, ![t].fenced = FALSE, ![t].out = out]
    BY <1>7 DEF BranchDirect
  <2> HIDE DEF blocked, out
  <2> QED
    BY <1>4, <1>5, <1>6, <2>1
<1>8. ASSUME NEW y, SameFields(task[t], y), task' = [task EXCEPT ![t] = y], UNCHANGED ckpt,
             y.pc \in {"park", "finalize", "model"}, run[task[t].run].kind = "model"
      PROVE  Kept
  <2>1. Alone(t) /\ task'[t] = y
    BY <1>2, <1>8, SavedFields
  <2>2. Tracks(t)
    BY <1>1, <1>2, <1>8, <2>1 DEF Tracks, Carried, SameFields
  <2>3. y.pc \in GoingPcs /\ y.pc \notin {"stream", "tools"}
    BY <1>8 DEF GoingPcs, ModelPcs
  <2>4. ASSUME Steady
        PROVE  LoopGoes(t)
    <3>1. Progress(task[t], ckpt[task[t].run])
      BY <1>1, <1>2, <1>3, <1>8, <2>4 DEF Steady, LoopsOK, LoopOK
    <3>2. Progress(y, ckpt[task[t].run])
      BY <1>8, <2>3, <3>1 DEF Progress, SameFields
    <3> QED
      BY <1>1, <1>8, <2>1, <3>2 DEF LoopGoes, LoopOK, SameFields
  <2> QED
    BY <1>1, <1>2, <1>3, <1>8, <2>1, <2>2, <2>4, RowsSame, KeptAlone
<1>9. CASE BranchModel(t)
  <2>1. UNCHANGED ckpt /\ run[task[t].run].kind = "model"
    BY <1>2, <1>9 DEF BranchModel
  <2>2. CASE StopFor(t, "fail", FALSE)
    BY <1>4, <2>1, <2>2
  <2>3. CASE Goto(t, "park")
    <3> DEFINE y == [task[t] EXCEPT !.pc = "park"]
    <3>1. task' = [task EXCEPT ![t] = y]
      BY <1>2, <2>3 DEF Goto
    <3>2. y.pc = "park" /\ SameFields(task[t], y)
      BY <1>2 DEF SameFields, Task
    <3> HIDE DEF y
    <3> QED
      BY <1>8, <2>1, <3>1, <3>2
  <2>4. ASSUME NEW pc \in {"finalize", "model"}, task' = [task EXCEPT ![t].call = 0, ![t].pc = pc]
        PROVE  Kept
    <3> DEFINE y == [task[t] EXCEPT !.call = 0, !.pc = pc]
    <3>1. task' = [task EXCEPT ![t] = y] /\ y.pc = pc /\ SameFields(task[t], y)
      BY <1>2, <2>4 DEF SameFields, Task
    <3> HIDE DEF y
    <3> QED
      BY <1>8, <2>1, <3>1
  <2>5. CASE task' = [task EXCEPT ![t].call = 0,
                         ![t].pc = IF task[t].plan = "finalize" THEN "finalize" ELSE "model"]
    BY <2>4, <2>5
  <2>6. \/ StopFor(t, "fail", FALSE) \/ Goto(t, "park")
        \/ task' = [task EXCEPT ![t].call = 0,
                         ![t].pc = IF task[t].plan = "finalize" THEN "finalize" ELSE "model"]
    BY <1>9 DEF BranchModel
  <2> QED
    BY <2>2, <2>3, <2>5, <2>6
<1> QED
  BY <1>7, <1>9 DEF Branch

\* A request to the model, its answer, and a batch of calls.
LEMMA ModelKept ==
  ASSUME Inv, Good, SlotsOK, NEW t \in Executors,
         \/ Model(t) \/ Decide(t) \/ StreamError(t) \/ AbortSeen(t)
         \/ Tools(t) \/ BatchEnd(t) \/ BatchComplete(t)
  PROVE  Kept
<1>1. /\ task[t].kind = "loop" /\ task[t].pc \in {"model", "stream", "check", "tools", "batch"}
      /\ UNCHANGED <<run, mode, recon>>
  BY DEF Model, Decide, StreamError, AbortSeen, Tools, BatchEnd, BatchComplete, At, rest
<1>2. /\ t \in Tasks /\ task \in [Tasks -> Task] /\ task[t] \in Task /\ task[t] # Idle
      /\ Of(t) = task[t].run /\ task[t].run \in Runs /\ task[t].rev \in Nat /\ task[t].step \in Nat
      /\ run[task[t].run] \in Row /\ run[task[t].run].status # "absent"
  BY <1>1, AtLoop
<1>3. /\ task[t].pc \in GoingPcs /\ task[t].pc \notin AsidePcs
      /\ task[t].pc # "check" => task[t].pc \in ModelPcs
  BY <1>1 DEF GoingPcs, ModelPcs, AsidePcs
<1>4. ASSUME NEW pc \in {"fail", "cancel", "interrupt"}, NEW fenced, StopFor(t, pc, fenced),
             UNCHANGED <<ckpt, batches>>
      PROVE  Kept
  <2>1. pc \notin GoingPcs
    BY <1>4 DEF GoingPcs, ModelPcs
  <2> QED
    BY <1>1, <1>3, <1>4, <2>1, LoopStops, RowsSame
<1>5. CASE Model(t)
  <2>1. UNCHANGED batches /\ task[t].pc = "model"
    BY <1>5 DEF Model, At, rest
  <2>2. CASE StopFor(t, "fail", FALSE) /\ UNCHANGED ckpt
    BY <1>4, <2>1, <2>2
  <2>3. CASE /\ task[t].step < MaxModelSteps
             /\ Save(t, "model", task[t].step, 0, task[t].owed, FALSE)
             /\ task' = [task EXCEPT ![t].rev = @ + 1,
                      ![t].pc = IF task[t].abort = "none" THEN "stream" ELSE AbortPc(t),
                      ![t].fenced = (task[t].abort # "none")]
    <3> DEFINE rev == task[t].rev + 1
               pc == IF task[t].abort = "none" THEN "stream" ELSE AbortPc(t)
               fenced == (task[t].abort # "none")
               y == [task[t] EXCEPT !.rev = rev, !.pc = pc, !.fenced = fenced]
    <3>1. task' = [task EXCEPT ![t] = y]
      BY <1>2, <2>3
    <3> HIDE DEF pc, fenced
    <3>2. /\ y.rev = rev /\ y.kind = "loop" /\ y.run = task[t].run
          /\ y.ver = task[t].ver /\ y.step = task[t].step
      BY <1>1, <1>2 DEF Task
    <3> HIDE DEF y
    <3> QED
      BY <1>1, <1>3, <2>1, <2>3, <3>1, <3>2, LoopSaves
  <2> QED
    BY <1>5, <2>2, <2>3 DEF Model
<1>6. CASE Decide(t)
  <2>1. UNCHANGED <<ckpt, batches>> /\ task[t].pc = "stream"
    BY <1>6 DEF Decide, At, rest
  <2>2. CASE Goto(t, "tools")
    <3>1. "tools" \notin AsidePcs
      BY DEF AsidePcs
    <3> QED
      BY <1>1, <1>3, <2>1, <2>2, <3>1, LoopStops, RowsSame
  <2>3. CASE task' = [task EXCEPT ![t].pc = "model", ![t].step = @ + 1]
    <3> DEFINE step == task[t].step + 1
               y == [task[t] EXCEPT !.pc = "model", !.step = step]
    <3>1. task' = [task EXCEPT ![t] = y]
      BY <1>2, <2>3
    <3>2. /\ y.rev = task[t].rev /\ y.kind = "loop" /\ y.run = task[t].run
          /\ y.ver = task[t].ver /\ y.step = task[t].step + 1 /\ y.pc = "model"
      BY <1>1, <1>2 DEF Task
    <3> HIDE DEF y
    <3>3. Alone(t) /\ task'[t] = y
      BY <1>2, <3>1, SavedFields
    <3>4. Tracks(t)
      BY <1>1, <1>2, <2>1, <3>2, <3>3 DEF Tracks, Carried
    <3>5. ASSUME Steady
          PROVE  LoopGoes(t)
      <4>1. LoopOK(task[t], run[task[t].run], ckpt[task[t].run])
        BY <1>1, <1>2, <3>5 DEF Steady, LoopsOK
      <4>2. LoopOK(y, run[task[t].run], ckpt[task[t].run])
        <5>1. run[task[t].run].kind = "model" /\ Progress(task[t], ckpt[task[t].run])
          BY <1>3, <2>1, <4>1 DEF LoopOK
        <5>2. ckpt[task[t].run].step \in Nat
          BY <1>2 DEF Inv, TypeOK, Checkpoint
        <5>3. Progress(y, ckpt[task[t].run])
          BY <1>2, <2>1, <3>2, <5>1, <5>2, LimitsAssumption DEF Progress
        <5> QED
          BY <5>1, <5>3 DEF LoopOK
      <4> QED
        BY <1>1, <2>1, <3>2, <3>3, <4>2 DEF LoopGoes
    <3> QED
      BY <1>1, <1>2, <1>3, <2>1, <3>3, <3>4, <3>5, RowsSame, KeptAlone
  <2>4. CASE StopFor(t, "fail", FALSE)
    BY <1>4, <2>1, <2>4
  <2>5. CASE task' = [task EXCEPT ![t].pc = "finalize", ![t].fenced = TRUE]
    <3>1. StopFor(t, "finalize", TRUE)
      BY <2>5 DEF StopFor
    <3>2. "finalize" \in ModelPcs \ {"stream", "tools"} /\ "finalize" \notin AsidePcs
      BY DEF ModelPcs, AsidePcs
    <3> QED
      BY <1>1, <1>3, <2>1, <3>1, <3>2, LoopStops, RowsSame
  <2> QED
    BY <1>6, <2>2, <2>3, <2>4, <2>5 DEF Decide
<1>7. CASE StreamError(t)
  BY <1>4, <1>7 DEF StreamError, rest
<1>8. CASE AbortSeen(t)
  BY <1>4, <1>8, AbortPcs DEF AbortSeen, rest
<1>9. CASE Tools(t)
  <2> DEFINE rev == task[t].rev + 1
             step == task[t].step + 1
             y == [task[t] EXCEPT !.pc = "batch", !.rev = rev, !.step = step, !.call = 0]
  <2>1. task[t].pc = "tools" /\ Save(t, "tool_execution", step, 0, task[t].owed, FALSE)
        /\ batches' = [batches EXCEPT ![Of(t)] = @ + 1]
    BY <1>9 DEF Tools, At
  <2>2. task' = [task EXCEPT ![t] = y]
    BY <1>2, <1>9 DEF Tools
  <2>3. /\ y.rev = rev /\ y.kind = "loop" /\ y.run = task[t].run
        /\ y.ver = task[t].ver /\ y.step = step /\ y.pc = "batch"
    BY <1>1, <1>2 DEF Task
  <2> HIDE DEF y
  <2>4. Alone(t) /\ task'[t] = y
    BY <1>2, <2>2, SavedFields
  <2>5. SameWork(task[t], y)
    BY <1>1, <1>3, <2>1, <2>3 DEF SameWork
  <2>6. step \in Nat
    BY <1>2
  <2> HIDE DEF step
  <2>7. step = task[t].step + 1
    BY DEF step
  <2> QED
    BY <1>1, <1>3, <2>1, <2>3, <2>4, <2>5, <2>6, <2>7, KeptSaving
<1>10. CASE BatchEnd(t)
  <2> DEFINE pc == IF task[t].owed = {} THEN "model" ELSE "verify"
             y == [task[t] EXCEPT !.call = 0, !.pc = pc]
  <2>1. task' = [task EXCEPT ![t] = y] /\ task[t].pc = "batch" /\ UNCHANGED <<ckpt, batches>>
    BY <1>2, <1>10 DEF BatchEnd, At, rest
  <2>2. pc \in {"model", "verify"}
    OBVIOUS
  <2> HIDE DEF pc
  <2>3. y.pc = pc /\ SameFields(task[t], y)
    BY <1>2 DEF SameFields, Task
  <2> HIDE DEF y
  <2>4. y.pc \in GoingPcs \ ModelPcs \/ y.pc \in ModelPcs \ {"stream", "tools"}
    BY <2>2, <2>3 DEF GoingPcs, ModelPcs
  <2> QED
    BY <1>1, <1>3, <2>1, <2>3, <2>4, LoopMoves, RowsSame
<1>11. CASE BatchComplete(t)
  <2>1. "finalize" \in ModelPcs \ {"stream", "tools"} /\ "finalize" \notin AsidePcs
    BY DEF ModelPcs, AsidePcs
  <2>2. StopFor(t, "finalize", FALSE) /\ UNCHANGED <<ckpt, batches>> /\ task[t].pc = "batch"
    BY <1>11 DEF BatchComplete, At, rest
  <2> QED
    BY <1>1, <1>3, <2>1, <2>2, LoopStops, RowsSame
<1> QED
  BY <1>5, <1>6, <1>7, <1>8, <1>9, <1>10, <1>11

\* A loop waits for the user, or is about to complete its run.
LEMMA ParkKept ==
  ASSUME Inv, Good, SlotsOK, NEW t \in Executors,
         Park(t) \/ ParkRun(t) \/ Input(t) \/ InputRun(t) \/ Finalize(t)
  PROVE  Kept
<1>1. /\ task[t].kind = "loop" /\ task[t].pc \in {"park", "parkRun", "input", "inputRun", "finalize"}
      /\ UNCHANGED <<batches, mode, recon>>
  BY DEF Park, ParkRun, Input, InputRun, Finalize, At, rest
<1>2. /\ t \in Tasks /\ task \in [Tasks -> Task] /\ task[t] \in Task /\ task[t] # Idle
      /\ Of(t) = task[t].run /\ task[t].run \in Runs /\ task[t].rev \in Nat
      /\ run[task[t].run] \in Row /\ run[task[t].run].status # "absent"
  BY <1>1, AtLoop
<1>3. task[t].pc \in GoingPcs /\ task[t].pc \notin AsidePcs /\ task[t].pc \in ModelPcs
  BY <1>1 DEF GoingPcs, ModelPcs, AsidePcs
<1>4. ASSUME NEW phase, NEW pending, NEW final, NEW pc \in Pcs \ {"stream", "tools"}, NEW out,
             Save(t, phase, task[t].step, pending, task[t].owed, final), UNCHANGED run,
             task' = [task EXCEPT ![t].pc = pc, ![t].rev = @ + 1, ![t].out = out]
      PROVE  Kept
  <2> DEFINE rev == task[t].rev + 1
             y == [task[t] EXCEPT !.pc = pc, !.rev = rev, !.out = out]
  <2>1. task' = [task EXCEPT ![t] = y]
    BY <1>2, <1>4
  <2>2. /\ y.pc = pc /\ y.rev = rev /\ y.kind = "loop" /\ y.run = task[t].run
        /\ y.ver = task[t].ver /\ y.step = task[t].step
    BY <1>1, <1>2 DEF Task
  <2> HIDE DEF y
  <2> QED
    BY <1>1, <1>3, <1>4, <2>1, <2>2, LoopSaves
<1>5. ASSUME NEW pc \in Pcs, task' = [task EXCEPT ![t].pc = pc, ![t].rev = @ + 1]
      PROVE  task' = [task EXCEPT ![t].pc = pc, ![t].rev = @ + 1, ![t].out = task[t].out]
  BY <1>2, <1>5 DEF Task
<1>6. CASE Park(t) \/ Input(t)
  <2>1. UNCHANGED run
    BY <1>6 DEF Park, Input
  <2>2. {"parkRun", "inputRun"} \subseteq Pcs \ {"stream", "tools"}
    BY DEF Pcs
  <2>3. ASSUME NEW phase, NEW pending, NEW pc \in {"parkRun", "inputRun"},
               Save(t, phase, task[t].step, pending, task[t].owed, FALSE),
               task' = [task EXCEPT ![t].pc = pc, ![t].rev = @ + 1]
        PROVE  Kept
    <3>1. pc \in Pcs /\ pc \in Pcs \ {"stream", "tools"}
      BY <2>2
    <3>2. task' = [task EXCEPT ![t].pc = pc, ![t].rev = @ + 1, ![t].out = task[t].out]
      BY <1>5, <2>3, <3>1
    <3> QED
      BY <1>4, <2>1, <2>3, <3>1, <3>2
  <2> QED
    BY <1>6, <2>3 DEF Park, Input
<1>7. CASE Finalize(t)
  <2>1. UNCHANGED run
    BY <1>7 DEF Finalize
  <2>2. CASE StopFor(t, "fail", OpenSession(t)) /\ UNCHANGED ckpt
    <3>1. "fail" \notin GoingPcs
      BY DEF GoingPcs, ModelPcs
    <3> QED
      BY <1>1, <1>3, <2>1, <2>2, <3>1, LoopStops, RowsSame
  <2>3. CASE /\ Save(t, "finalizing", task[t].step, 0, task[t].owed, task[t].fenced)
             /\ task' = [task EXCEPT ![t].pc = "commit", ![t].rev = @ + 1, ![t].out = "completed"]
    <3>1. "commit" \in Pcs \ {"stream", "tools"}
      BY DEF Pcs
    <3> QED
      BY <1>4, <2>1, <2>3, <3>1
  <2> QED
    BY <1>7, <2>2, <2>3 DEF Finalize
<1>8. CASE ParkRun(t) \/ InputRun(t)
  <2>1. UNCHANGED ckpt
    BY <1>8 DEF ParkRun, InputRun
  <2>2. ASSUME NEW pc \in {"cancel", "fail", "exhausted"}, Goto(t, pc) \/ StopFor(t, pc, FALSE),
               UNCHANGED run
        PROVE  Kept
    <3>1. pc \notin GoingPcs
      BY <2>2 DEF GoingPcs, ModelPcs
    <3> QED
      BY <1>1, <1>3, <2>1, <2>2, <3>1, LoopStops, RowsSame
  <2>3. ASSUME NEW to \in {"waiting_approval", "waiting_input"}, SetRun(Of(t), to),
               task' = [task EXCEPT ![t].pc = "finish", ![t].out = to]
        PROVE  Kept
    <3> DEFINE y == [task[t] EXCEPT !.pc = "finish", !.out = to]
    <3>1. task' = [task EXCEPT ![t] = y]
      BY <1>2, <2>3
    <3>2. y.pc = "finish" /\ y.kind = "loop" /\ SameFields(task[t], y)
      BY <1>1, <1>2 DEF SameFields, Task
    <3> HIDE DEF y
    <3>3. Alone(t) /\ task'[t] = y
      BY <1>2, <3>1, SavedFields
    <3>4. ASSUME Steady
          PROVE  RowsGo
      <4>1. CASE run[task[t].run].kind = "model"
        <5>1. Works(task[t], task[t].run)
          BY <1>1 DEF Works
        <5>2. \A u \in Tasks : Works(task[u], task[t].run) => u = t
          BY <1>2, <3>4, <4>1, <5>1 DEF Steady, OneWorker
        <5>3. \A u \in Tasks : ~Works(task'[u], task[t].run)
          BY <3>2, <3>3, <5>2 DEF Alone, Works
        <5> QED
          BY <1>2, <2>3, <5>3, RowMoves DEF Statuses, Parked
      <4>2. CASE run[task[t].run].kind = "direct"
        BY <1>2, <2>3, <4>2, RowMoves DEF Statuses, Parked
      <4> QED
        BY <1>2, <4>1, <4>2 DEF Row, RunKindNames
    <3>5. "finish" \notin GoingPcs
      BY DEF GoingPcs, ModelPcs
    <3> QED
      BY <1>1, <1>3, <2>1, <3>1, <3>2, <3>4, <3>5, LoopMoves
  <2> QED
    BY <1>8, <2>2, <2>3 DEF ParkRun, InputRun, UpdateRun
<1> QED
  BY <1>6, <1>7, <1>8

\* A loop leaves the graph with an outcome.
LEMMA EndGoes ==
  ASSUME Inv, Good, SlotsOK, NEW t \in Executors, task[t].kind = "loop",
         NEW pc \in {"finish", "exhausted"}, NEW out,
         task' = [task EXCEPT ![t].pc = pc, ![t].out = out],
         task[t].pc = "finish" => pc = "finish",
         UNCHANGED <<ckpt, batches, mode, recon>>,
         Steady => RowsGo
  PROVE  Kept
<1> DEFINE y == [task[t] EXCEPT !.pc = pc, !.out = out]
<1>1. t \in Tasks /\ task \in [Tasks -> Task] /\ task[t] \in Task
  BY AtLoop
<1>2. task' = [task EXCEPT ![t] = y]
  BY <1>1
<1>3. y.pc = pc /\ SameFields(task[t], y)
  BY <1>1 DEF SameFields, Task
<1> HIDE DEF y
<1>4. pc \in AsidePcs /\ pc \notin GoingPcs
  BY DEF GoingPcs, ModelPcs, AsidePcs
<1> QED
  BY <1>2, <1>3, <1>4, LoopMoves

LEMMA TerminateKept ==
  ASSUME Inv, Good, SlotsOK, NEW t \in Executors, task[t].kind = "loop",
         task[t].pc \in {"commit", "cancel", "interrupt", "fail"},
         NEW to \in {"completed", "failed", "canceled", "interrupted"}, Terminate(t, to)
  PROVE  Kept
<1>1. /\ t \in Tasks /\ task \in [Tasks -> Task] /\ task[t] \in Task
      /\ Of(t) = task[t].run /\ task[t].run \in Runs
  BY AtLoop
<1>2. UNCHANGED <<ckpt, batches, mode, recon>>
  BY DEF Terminate, rest
<1>3. RowsGo
  BY <1>1, RowMoves, RowsSame DEF Terminate, Held, Statuses, Terminal
<1>4. CASE Goto(t, "exhausted")
  <2>1. "exhausted" \notin GoingPcs /\ "exhausted" \in AsidePcs
    BY DEF GoingPcs, ModelPcs, AsidePcs
  <2> QED
    BY <1>2, <1>3, <1>4, <2>1, LoopStops
<1>5. ASSUME NEW out, task' = [task EXCEPT ![t].pc = "finish", ![t].out = out]
      PROVE  Kept
  BY <1>2, <1>3, <1>5, EndGoes
<1> QED
  BY <1>4, <1>5 DEF Terminate

\* The ways a loop ends.
LEMMA EndKept ==
  ASSUME Inv, Good, SlotsOK, NEW t \in Executors,
         Commit(t) \/ Cancel(t) \/ Interrupt(t) \/ Fail(t) \/ Exhausted(t) \/ Finish(t)
  PROVE  Kept
<1>1. task[t].kind = "loop" /\ UNCHANGED <<ckpt, batches, mode, recon>>
  BY DEF Commit, Cancel, Interrupt, Fail, Exhausted, Finish, Terminate, At, rest
<1>2. /\ t \in Tasks /\ task[t] # Idle /\ Of(t) = task[t].run /\ task[t].run \in Runs
  BY <1>1, AtLoop
<1>3. CASE Commit(t)
  <2>1. task[t].out \in {"completed", "failed"} /\ task[t].pc = "commit"
    BY <1>1, <1>2, <1>3 DEF Commit, At, Inv, TasksOK, TaskOK
  <2> QED
    BY <1>1, <1>3, <2>1, TerminateKept DEF Commit
<1>4. CASE Interrupt(t) \/ Fail(t)
  BY <1>1, <1>4, TerminateKept DEF Interrupt, Fail, At
<1>5. CASE Cancel(t)
  <2>1. task[t].pc = "cancel"
    BY <1>5 DEF Cancel, At
  <2>2. CASE Terminate(t, "canceled")
    BY <1>1, <2>1, <2>2, TerminateKept
  <2>3. CASE /\ CancelRun(Of(t)) \/ UNCHANGED run
             /\ task' = [task EXCEPT ![t].pc = "finish", ![t].out = "canceled"]
    <3>1. RowsGo
      BY <1>2, <2>3, RowMoves, RowsSame DEF CancelRun, Held, Statuses, Terminal
    <3> QED
      BY <1>1, <2>1, <2>3, <3>1, EndGoes
  <2> QED
    BY <1>5, <2>2, <2>3 DEF Cancel
<1>6. CASE Exhausted(t)
  <2>1. RowsGo
    BY <1>2, <1>6, UpdateGoes DEF Exhausted, Held, Statuses, Terminal
  <2> QED
    BY <1>1, <1>6, <2>1, EndGoes DEF Exhausted, At
<1>7. CASE Finish(t)
  <2>1. Alone(t) /\ Goes(task[t], task'[t])
    BY <1>2, <1>7, DoneGoes DEF Finish
  <2> QED
    BY <1>1, <1>2, <1>7, <2>1, KeptGoing, RowsSame DEF Finish
<1> QED
  BY <1>3, <1>4, <1>5, <1>6, <1>7

\* The timer of a run.
LEMMA TimeoutKept ==
  ASSUME Inv, Good, SlotsOK, NEW t \in Executors, Timeout(t)
  PROVE  Kept
<1> DEFINE y == [task[t] EXCEPT !.abort = "timeout"]
<1>1. /\ task[t].kind = "loop" /\ task[t].pc \in {"send", "answer", "stream", "check"}
      /\ UNCHANGED <<run, ckpt, batches, mode, recon>>
  BY DEF Timeout, rest
<1>2. t \in Tasks /\ task \in [Tasks -> Task] /\ task[t] \in Task
  BY <1>1, AtLoop
<1>3. task' = [task EXCEPT ![t] = y]
  BY <1>2 DEF Timeout
<1>4. y.pc = task[t].pc /\ SameFields(task[t], y)
  BY <1>2 DEF SameFields, Task
<1> HIDE DEF y
<1>5. \/ y.pc = "stream"
      \/ task[t].pc \in GoingPcs /\ y.pc \in GoingPcs \ ModelPcs
      \/ task[t].pc \in ModelPcs /\ y.pc \in ModelPcs \ {"stream", "tools"}
  BY <1>1, <1>4 DEF GoingPcs, ModelPcs
<1> QED
  BY <1>1, <1>3, <1>4, <1>5, LoopMoves, RowsSame

\* A statement that fails on the database.
LEMMA OutageKept ==
  ASSUME Inv, Good, SlotsOK, NEW t \in Tasks, Outage(t)
  PROVE  Kept
<1>1. task[t] # Idle /\ UNCHANGED <<run, ckpt, batches, mode, recon>>
      /\ task[t].pc \notin {"register", "finish", "send"}
  BY DEF Outage
<1>2. task \in [Tasks -> Task] /\ task[t] \in Task
  BY DEF Inv, TypeOK
<1>3. CASE Done(t)
  BY <1>1, <1>3, DoneGoes, KeptGoing, RowsSame
<1>4. CASE task[t].kind = "direct" /\ Goto(t, "undo")
  <2>1. Alone(t) /\ Goes(task[t], task'[t])
    BY <1>1, <1>4, GotoFields, MoveGoes
  <2> QED
    BY <1>1, <2>1, KeptGoing, RowsSame
<1>5. CASE task[t].kind = "approve" /\ task[t].pc # "grant" /\ Goto(t, "release")
  <2>1. Alone(t) /\ Goes(task[t], task'[t])
    BY <1>1, <1>5, GotoFields, MoveGoes
  <2> QED
    BY <1>1, <2>1, KeptGoing, RowsSame
<1>6. ASSUME NEW fenced, task[t].kind = "loop",
             task' = [task EXCEPT ![t].fenced = fenced, ![t].out = "absent",
                        ![t].pc = CASE task[t].pc = "exhausted" -> "finish"
                                    [] task[t].pc \in EndingPcs -> "exhausted"
                                    [] OTHER -> "fail"]
      PROVE  Kept
  <2> DEFINE pc == CASE task[t].pc = "exhausted" -> "finish"
                     [] task[t].pc \in EndingPcs -> "exhausted"
                     [] OTHER -> "fail"
  <2>1. task' = [task EXCEPT ![t].fenced = fenced, ![t].out = "absent", ![t].pc = pc]
    BY <1>6
  <2>2. /\ pc \in {"finish", "exhausted", "fail"}
        /\ task[t].pc \in {"admit", "exhausted"} => pc \in {"exhausted", "finish"}
    <3>1. CASE task[t].pc = "exhausted"
      BY <3>1
    <3>2. CASE task[t].pc # "exhausted" /\ task[t].pc \in EndingPcs
      BY <3>2
    <3>3. CASE task[t].pc # "exhausted" /\ task[t].pc \notin EndingPcs
      BY <3>3 DEF EndingPcs
    <3> QED
      BY <3>1, <3>2, <3>3
  <2> HIDE DEF pc
  <2> DEFINE y == [task[t] EXCEPT !.fenced = fenced, !.out = "absent", !.pc = pc]
  <2>3. task' = [task EXCEPT ![t] = y]
    BY <1>2, <2>1
  <2>4. y.pc = pc /\ SameFields(task[t], y)
    BY <1>2 DEF SameFields, Task
  <2> HIDE DEF y
  <2>5. y.pc \notin GoingPcs /\ (task[t].pc \in AsidePcs => y.pc \in AsidePcs)
    BY <1>1, <2>2, <2>4 DEF GoingPcs, ModelPcs, AsidePcs
  <2>6. Alone(t) /\ Goes(task[t], task'[t])
    <3>1. Alone(t) /\ task'[t] = y
      BY <2>3, SavedFields
    <3>2. Goes(task[t], y)
      BY <1>1, <1>6, <2>4, <2>5, MoveGoes
    <3> QED
      BY <3>1, <3>2
  <2> QED
    BY <1>1, <2>6, KeptGoing, RowsSame
<1>7. \/ Done(t)
      \/ task[t].kind = "direct" /\ Goto(t, "undo")
      \/ task[t].kind = "approve" /\ task[t].pc # "grant" /\ Goto(t, "release")
      \/ /\ task[t].kind = "loop"
         /\ \E fenced \in IF task[t].pc = "stream" THEN BOOLEAN ELSE {OpenSession(t)} :
              task' = [task EXCEPT ![t].fenced = fenced, ![t].out = "absent",
                        ![t].pc = CASE task[t].pc = "exhausted" -> "finish"
                                    [] task[t].pc \in EndingPcs -> "exhausted"
                                    [] OTHER -> "fail"]
  BY DEF Outage
<1> QED
  BY <1>3, <1>4, <1>5, <1>6, <1>7

\* Every step of a loop.
LEMMA LoopKept ==
  ASSUME Inv, Good, SlotsOK, NEW t \in Executors, LoopStep(t) \/ LoopAnswer(t)
  PROVE  Kept
<1>1. t \in Tasks
  BY DEF Tasks
<1> QED
  BY <1>1, AdmitKept, ResumeKept, VerifyKept, BranchKept, ModelKept, ParkKept, EndKept,
     CheckpointConflictKept DEF LoopStep, LoopAnswer

\* Every step tracks the tasks, and admits nobody or passes the quota.
LEMMA NextKept == Inv /\ SlotsOK /\ [Next]_vars => Good /\ Kept
<1> SUFFICES ASSUME Inv, SlotsOK, [Next]_vars
             PROVE  Good /\ Kept
  OBVIOUS
<1>1. Good
  BY NextGood
<1>2. CASE Next
  <2>1. ASSUME NEW t \in Tasks, CallStep(t)
        PROVE  Kept
    BY <1>1, <2>1, CallStepKept
  <2>2. ASSUME NEW t \in Tasks, Outage(t)
        PROVE  Kept
    BY <1>1, <2>2, OutageKept
  <2> QED
    BY <1>1, <1>2, <2>1, <2>2, RequestKept, RequestStepKept, ClaimKept, LoopKept, TimeoutKept,
       ProcessKept DEF Next
<1>3. CASE UNCHANGED vars
  BY <1>1, <1>3, KeptAborts, StartupSame DEF vars, Steady
<1> QED
  BY <1>1, <1>2, <1>3

-----------------------------------------------------------------------------
(* The quota.                                                              *)

ActiveFinite == IsFiniteSet(ActiveRuns)

QuotaInv == Inv /\ SlotsOK /\ VersionsOK /\ ActiveFinite /\ UserQuotaHolds

\* A run that passes the fence is active.
LEMMA AdmittedActive == Admitted \subseteq ActiveRuns
BY DEF Admitted, ActiveRuns, FenceOpen, Of, IsActive

\* One run at a time becomes active.
LEMMA ActiveStep ==
  ASSUME Inv, Good, ActiveFinite
  PROVE  ActiveFinite'
<1>1. \E r : \A s \in Runs \ {r} : run'[s] = run[s]
  BY OneRow DEF Inv, TypeOK
<1>2. PICK r : \A s \in Runs \ {r} : run'[s] = run[s]
  BY <1>1
<1>3. ActiveRuns' \subseteq ActiveRuns \cup {r}
  BY <1>2 DEF ActiveRuns, IsActive
<1>4. IsFiniteSet(ActiveRuns \cup {r})
  BY FS_AddElement DEF ActiveFinite
<1> QED
  BY <1>3, <1>4, FS_Subset DEF ActiveFinite

LEMMA InitQuota == Init => QuotaInv
<1> SUFFICES ASSUME Init
             PROVE  QuotaInv
  OBVIOUS
<1>1. ActiveRuns = {} /\ Admitted = {}
  <2>1. ActiveRuns = {}
    BY DEF Init, ActiveRuns, IsActive, NoRow
  <2> QED
    BY <2>1, AdmittedActive
<1>2. SlotsOK /\ VersionsOK
  BY DEF Init, SlotsOK, VersionsOK, Tasks
<1> QED
  BY <1>1, <1>2, InitInv, FS_EmptySet, LimitsAssumption DEF QuotaInv, ActiveFinite, UserQuotaHolds

LEMMA QuotaStep == QuotaInv /\ [Next]_vars => QuotaInv'
<1> SUFFICES ASSUME QuotaInv, [Next]_vars
             PROVE  QuotaInv'
  OBVIOUS
<1>1. Good /\ Kept
  BY NextKept DEF QuotaInv
<1>2. SlotsOK' /\ VersionsOK' /\ ActiveFinite' /\ Inv'
  BY <1>1, SlotsStep, VersionsStep, ActiveStep DEF QuotaInv, Kept, Good
<1>3. IsFiniteSet(ActiveRuns) /\ Cardinality(ActiveRuns) \in Nat
  BY FS_CardinalityType DEF QuotaInv, ActiveFinite
<1>4. CASE NoAdmission
  <2>1. Admitted' \subseteq Admitted
    BY <1>1, <1>4, AdmittedStep DEF QuotaInv, Kept
  <2>2. IsFiniteSet(Admitted)
    BY <1>3, AdmittedActive, FS_Subset
  <2>3. Cardinality(Admitted') <= Cardinality(Admitted)
    BY <2>1, <2>2, FS_Subset
  <2>4. Cardinality(Admitted') \in Nat /\ Cardinality(Admitted) \in Nat
    BY <2>1, <2>2, FS_Subset, FS_CardinalityType
  <2>5. UserQuotaHolds'
    BY <2>3, <2>4, LimitsAssumption DEF QuotaInv, UserQuotaHolds
  <2> QED
    BY <1>2, <2>5 DEF QuotaInv
<1>5. CASE Admission
  <2>1. Admitted' \subseteq ActiveRuns
    BY <1>5 DEF Admission, Admitted, ActiveRuns, FenceOpen, Of, IsActive
  <2>2. Cardinality(Admitted') <= Cardinality(ActiveRuns) /\ Cardinality(Admitted') \in Nat
    BY <1>3, <2>1, FS_Subset, FS_CardinalityType
  <2>3. UserQuotaHolds'
    BY <1>3, <1>5, <2>2, LimitsAssumption DEF Admission, UserQuotaHolds
  <2> QED
    BY <1>2, <2>3 DEF QuotaInv
<1> QED
  BY <1>1, <1>4, <1>5 DEF Kept

\* However many loops claim, register and check the quota at once, the runs they
\* carry on with are never more than the user's quota: a claimed run is counted
\* as active before its loop counts.
THEOREM QuotaKept == Spec => []UserQuotaHolds
<1>1. QuotaInv => UserQuotaHolds
  BY DEF QuotaInv
<1> QED
  BY <1>1, InitQuota, QuotaStep, PTL DEF Spec

-----------------------------------------------------------------------------
(* The budget of steps.                                                    *)

SteadyInv == Inv /\ SlotsOK /\ Steady

LEMMA InitSteady == Init => SteadyInv
<1> SUFFICES ASSUME Init
             PROVE  SteadyInv
  OBVIOUS
<1>1. SlotsOK /\ OneWorker /\ LoopsOK /\ KindsOK
  BY DEF Init, SlotsOK, OneWorker, LoopsOK, KindsOK, Works, Idle, Tasks
<1>2. BudgetsOK
  BY LimitsAssumption DEF Init, BudgetsOK, BudgetOK, NoRow, NoCheckpoint
<1>3. StartupOK
  BY DEF Init, StartupOK, NoRecon, Idle
<1> QED
  BY <1>1, <1>2, <1>3, InitInv DEF SteadyInv, Steady

LEMMA SteadyInvStep == NoRivals /\ SteadyInv /\ [Next]_vars => SteadyInv'
<1> SUFFICES ASSUME NoRivals, SteadyInv, [Next]_vars
             PROVE  SteadyInv'
  OBVIOUS
<1>1. Good /\ Kept
  BY NextKept DEF SteadyInv
<1>2. TasksTrack /\ RowsGo /\ LoopsOK' /\ BudgetsOK' /\ StartupOK'
  BY <1>1 DEF Kept, SteadyInv
<1>3. Steady'
  BY <1>1, <1>2, SteadyStep DEF SteadyInv
<1> QED
  BY <1>1, <1>2, <1>3, SlotsStep DEF SteadyInv, Good

\* A run begins at most maxModelSteps batches of tool calls in its life, over all
\* the loops that take it up again after a crash or an approval, unless
\* approvals meet a restart, where the executor may get a rival.
THEOREM BudgetKept == ASSUME NoRivals PROVE Spec => []BatchBudget
<1>1. SteadyInv => BatchBudget
  <2> SUFFICES ASSUME SteadyInv, NEW r \in Runs
               PROVE  batches[r] <= MaxModelSteps
    BY DEF BatchBudget
  <2>1. BudgetOK(run[r], ckpt[r], batches[r])
    BY DEF SteadyInv, Steady, BudgetsOK
  <2>2. batches[r] \in Nat /\ ckpt[r].step \in Nat
    BY DEF SteadyInv, Inv, TypeOK, Checkpoint
  <2> QED
    BY <2>1, <2>2, LimitsAssumption DEF BudgetOK
<1>2. NoRivals
  OBVIOUS
<1> QED
  BY <1>1, <1>2, InitSteady, SteadyInvStep, PTL DEF Spec

-----------------------------------------------------------------------------
(* What a completed run leaves behind. Between two checkpoints the loop has*)
(* to know every write it still has to read back, and a checkpoint that a  *)
(* resumed loop does not compare with the stored calls has to name them    *)
(* all. Batches that an approval cuts short, and approvals themselves, only*)
(* happen under a checkpoint that is compared.                             *)

\* The loop that resumes here looks at the stored calls first.
Recounts(cp) == ResumePlan(cp) \in {"settle", "await"}

\* The calls under way, and the accepted writes that were not read back.
SentCalls(cs) == {c \in CallIds : cs[c].status = "running"}
Unread(cs) ==
  {c \in CallIds : cs[c].status = "succeeded" /\ cs[c].result = "verify" /\ ~cs[c].verified}

CheckpointKnows(cp, cs) == Recounts(cp) \/ (SentCalls(cs) = {} /\ Unread(cs) \subseteq cp.owed)

\* Where a loop has read everything back, and where it knows what it has not.
ClearPcs == {"branch", "model", "stream", "tools", "finalize", "commit"}
KnowingPcs == ClearPcs \cup {"verify", "check", "batch", "advance", "input"}
AwarePcs == KnowingPcs \cup FlightPcs \cup {"parkRun"}

LoopKnows(x, cp, cs) ==
  /\ x.pc \in {"batch", "advance", "send", "answer", "parkRun"} => Recounts(cp)
  /\ x.pc \in KnowingPcs => SentCalls(cs) = {} /\ Unread(cs) \subseteq x.owed
  /\ x.pc \in FlightPcs => SentCalls(cs) \subseteq {x.call} /\ Unread(cs) \subseteq x.owed
  /\ x.pc \in ClearPcs => x.owed = {}

\* An approval that has set the run running.
Approves(x, r) == x.run = r /\ x.kind = "approve" /\ x.pc # "grant"

RunSettled(r) ==
  /\ CheckpointKnows(ckpt[r], calls[r])
  /\ run[r].status = "waiting_approval" => Recounts(ckpt[r])
  /\ run[r].status = "completed" =>
       /\ SentCalls(calls[r]) = {} /\ Unread(calls[r]) = {}
       /\ \A t \in Tasks : ~Works(task[t], r)
  /\ \A t \in Tasks :
       /\ Approves(task[t], r) => Recounts(ckpt[r])
       /\ task[t].run = r /\ task[t].kind = "loop" => LoopKnows(task[t], ckpt[r], calls[r])

Settling == \A r \in Runs : run[r].kind = "model" => RunSettled(r)

\* What is known of a step.
Ready == NoRivals /\ Inv /\ SlotsOK /\ Steady /\ Settling /\ Good /\ Kept

\* A step that takes nothing from what is known of a run.
SameAwareness(x, y) ==
  y.kind = x.kind /\ y.run = x.run /\ y.pc = x.pc /\ y.owed = x.owed /\ y.call = x.call

TaskKeeps(u) ==
  /\ \A s \in Runs : Approves(task'[u], s) =>
       Approves(task[u], s) \/ run[s].status = "waiting_approval"
  /\ task'[u].kind = "loop" /\ task'[u].pc \in AwarePcs => SameAwareness(task[u], task'[u])

RowKeeps(s) ==
  run'[s].status \in {"waiting_approval", "completed"} => run'[s].status = run[s].status

CheckpointKeeps(s) ==
  /\ Recounts(ckpt[s]) => Recounts(ckpt'[s])
  /\ ckpt'[s].owed = ckpt[s].owed

CallsKeep(s) ==
  /\ SentCalls(calls'[s]) \subseteq SentCalls(calls[s])
  /\ Unread(calls'[s]) \subseteq Unread(calls[s])

\* A run is a model run for good.
LEMMA ModelBefore ==
  ASSUME Inv, Good, NEW r \in Runs, run'[r].kind = "model"
  PROVE  run[r].kind = "model"
<1>1. CASE run[r].status = "absent"
  BY <1>1 DEF Inv, RowsOK, NoRow
<1>2. CASE run[r].status # "absent"
  BY <1>2, RowsGrow
<1> QED
  BY <1>1, <1>2

LEMMA RunKeeps ==
  ASSUME Ready, NEW r \in Runs, run'[r].kind = "model", RowKeeps(r), CheckpointKeeps(r),
         CallsKeep(r), \A u \in Tasks : TaskKeeps(u)
  PROVE  RunSettled(r)'
<1>1. RunSettled(r)
  BY ModelBefore DEF Ready, Settling
<1>2. CheckpointKnows(ckpt'[r], calls'[r])
  BY <1>1 DEF RunSettled, CheckpointKnows, CheckpointKeeps, CallsKeep
<1>3. run'[r].status = "waiting_approval" => Recounts(ckpt'[r])
  BY <1>1 DEF RunSettled, RowKeeps, CheckpointKeeps
<1>4. run'[r].status = "completed" =>
        /\ SentCalls(calls'[r]) = {} /\ Unread(calls'[r]) = {}
        /\ \A t \in Tasks : ~Works(task'[t], r)
  <2> SUFFICES ASSUME run'[r].status = "completed"
               PROVE  /\ SentCalls(calls'[r]) = {} /\ Unread(calls'[r]) = {}
                      /\ \A t \in Tasks : ~Works(task'[t], r)
    OBVIOUS
  <2>1. run[r].status = "completed"
    BY DEF RowKeeps
  <2>2. SentCalls(calls'[r]) = {} /\ Unread(calls'[r]) = {}
    BY <1>1, <2>1 DEF RunSettled, CallsKeep
  <2>3. ASSUME NEW t \in Tasks, Works(task'[t], r)
        PROVE  FALSE
    <3>1. ~Works(task[t], r)
      BY <1>1, <2>1 DEF RunSettled
    <3>2. Tracks(t)
      BY DEF Ready, Kept, TasksTrack
    <3>3. task'[t] # Idle
      BY <2>3 DEF Works, Idle
    <3>4. ~Carried(t)
      BY <2>3, <3>1 DEF Carried, Works
    <3>5. ~Enters(t)
      BY <2>3 DEF Enters, Works
    <3>6. ~Takes(t)
      BY <2>3, <2>1 DEF Takes, Works, Held, Terminal
    <3> QED
      BY <3>2, <3>3, <3>4, <3>5, <3>6 DEF Tracks
  <2> QED
    BY <2>2, <2>3
<1>5. ASSUME NEW t \in Tasks
      PROVE  /\ Approves(task'[t], r) => Recounts(ckpt'[r])
             /\ task'[t].run = r /\ task'[t].kind = "loop" => LoopKnows(task'[t], ckpt'[r], calls'[r])
  <2>1. Approves(task'[t], r) => Recounts(ckpt'[r])
    BY <1>1 DEF RunSettled, TaskKeeps, CheckpointKeeps
  <2>2. CASE task'[t].run = r /\ task'[t].kind = "loop" /\ task'[t].pc \in AwarePcs
    <3>1. SameAwareness(task[t], task'[t])
      BY <2>2 DEF TaskKeeps
    <3>2. LoopKnows(task[t], ckpt[r], calls[r])
      BY <1>1, <2>2, <3>1 DEF RunSettled, SameAwareness
    <3> QED
      BY <2>1, <3>1, <3>2 DEF LoopKnows, SameAwareness, CheckpointKeeps, CallsKeep
  <2>3. CASE task'[t].pc \notin AwarePcs
    BY <2>1, <2>3 DEF LoopKnows, AwarePcs, KnowingPcs, FlightPcs
  <2> QED
    BY <2>1, <2>2, <2>3
<1> QED
  BY <1>2, <1>3, <1>4, <1>5 DEF RunSettled

\* A step that takes nothing from what is known of any run.
LEMMA AllKeep ==
  ASSUME Ready, \A u \in Tasks : TaskKeeps(u),
         \A s \in Runs : run'[s].kind = "model" =>
           RowKeeps(s) /\ CheckpointKeeps(s) /\ CallsKeep(s)
  PROVE  Settling'
BY RunKeeps DEF Settling

LEMMA SameTask ==
  ASSUME NEW u \in Tasks, task'[u] = task[u]
  PROVE  TaskKeeps(u)
BY DEF TaskKeeps, SameAwareness

LEMMA SameRun ==
  ASSUME NEW s \in Runs
  PROVE  /\ run'[s] = run[s] => RowKeeps(s)
         /\ ckpt'[s] = ckpt[s] => CheckpointKeeps(s)
         /\ calls'[s] = calls[s] => CallsKeep(s)
BY DEF RowKeeps, CheckpointKeeps, CallsKeep

\* A step of one task on one run.
LEMMA OneRun ==
  ASSUME Ready, NEW t \in Tasks, Alone(t), NEW r,
         task'[t] = Idle \/ task'[t].run = r,
         \A s \in Runs \ {r} : run'[s] = run[s] /\ ckpt'[s] = ckpt[s] /\ calls'[s] = calls[s],
         r \in Runs /\ run'[r].kind = "model" => RunSettled(r)'
  PROVE  Settling'
<1> SUFFICES ASSUME NEW s \in Runs, run'[s].kind = "model"
             PROVE  RunSettled(s)'
  BY DEF Settling
<1>1. CASE s = r
  BY <1>1
<1>2. CASE s # r
  <2>1. RunSettled(s)
    BY ModelBefore DEF Ready, Settling
  <2>2. ASSUME NEW u \in Tasks
        PROVE  /\ Works(task'[u], s) => Works(task[u], s)
               /\ Approves(task'[u], s) => Approves(task[u], s)
               /\ task'[u].run = s /\ task'[u].kind = "loop" => task'[u] = task[u]
    <3>1. CASE u = t
      BY <1>2, <3>1 DEF Works, Approves, Idle
    <3>2. CASE u # t
      BY <3>2 DEF Alone
    <3> QED
      BY <3>1, <3>2
  <2>3. run'[s] = run[s] /\ ckpt'[s] = ckpt[s] /\ calls'[s] = calls[s]
    BY <1>2
  <2> QED
    BY <2>1, <2>2, <2>3 DEF RunSettled
<1> QED
  BY <1>1, <1>2

\* What is known of the run a task works on.
LEMMA WorkerFacts ==
  ASSUME Ready, NEW t \in Tasks, NEW r \in Runs, Works(task[t], r), run[r].kind = "model"
  PROVE  /\ run[r].status \notin {"waiting_approval", "completed"}
         /\ CheckpointKnows(ckpt[r], calls[r])
         /\ task[t].kind = "loop" => LoopKnows(task[t], ckpt[r], calls[r])
         /\ task[t].kind = "approve" => Recounts(ckpt[r])
         /\ \A u \in Tasks \ {t} : ~Works(task[u], r)
<1>1. RunSettled(r)
  BY DEF Ready, Settling
<1>2. run[r].status \in Held /\ \A u \in Tasks : Works(task[u], r) => u = t
  BY DEF Ready, Steady, OneWorker
<1> QED
  BY <1>1, <1>2 DEF RunSettled, Held, Terminal, Works, Approves

\* A step of the worker of a run.
LEMMA WorkerSettles ==
  ASSUME Ready, NEW t \in Tasks, Alone(t), NEW r \in Runs, Works(task[t], r),
         task'[t].run = r, task'[t].kind = task[t].kind,
         \A s \in Runs \ {r} : run'[s] = run[s] /\ ckpt'[s] = ckpt[s] /\ calls'[s] = calls[s],
         run[r].kind = "model" =>
           /\ CheckpointKnows(ckpt'[r], calls'[r])
           /\ task[t].kind = "loop" => LoopKnows(task'[t], ckpt'[r], calls'[r])
           /\ task[t].kind = "approve" => Recounts(ckpt'[r])
           /\ \/ run'[r] = run[r]
              \/ /\ run'[r].status = "waiting_approval" => Recounts(ckpt'[r])
                 /\ run'[r].status = "completed" =>
                      /\ SentCalls(calls'[r]) = {} /\ Unread(calls'[r]) = {}
                      /\ task'[t].pc = "finish" /\ task[t].kind = "loop"
  PROVE  Settling'
<1> SUFFICES ASSUME run'[r].kind = "model"
             PROVE  RunSettled(r)'
  BY OneRun
<1>1. run[r].kind = "model"
  BY ModelBefore DEF Ready
<1>2. run[r].status \notin {"waiting_approval", "completed"} /\ \A u \in Tasks \ {t} : ~Works(task[u], r)
  BY <1>1, WorkerFacts
<1>3. \A u \in Tasks \ {t} : ~Works(task'[u], r)
  BY <1>2 DEF Alone
<1>4. run'[r].status = "waiting_approval" => Recounts(ckpt'[r])
  BY <1>1, <1>2
<1>5. run'[r].status = "completed" =>
        /\ SentCalls(calls'[r]) = {} /\ Unread(calls'[r]) = {}
        /\ \A u \in Tasks : ~Works(task'[u], r)
  BY <1>1, <1>2, <1>3 DEF Works
<1>6. ASSUME NEW u \in Tasks
      PROVE  /\ Approves(task'[u], r) => Recounts(ckpt'[r])
             /\ task'[u].run = r /\ task'[u].kind = "loop" => LoopKnows(task'[u], ckpt'[r], calls'[r])
  <2>1. CASE u = t
    BY <1>1, <2>1 DEF Approves
  <2>2. CASE u # t
    <3>1. ~Works(task'[u], r)
      BY <1>3, <2>2
    <3>2. "finish" \notin KnowingPcs \cup FlightPcs \cup ClearPcs
      BY DEF KnowingPcs, FlightPcs, ClearPcs
    <3> QED
      BY <3>1, <3>2 DEF Works, Approves, LoopKnows
  <2> QED
    BY <2>1, <2>2
<1> QED
  BY <1>1, <1>4, <1>5, <1>6 DEF RunSettled

-----------------------------------------------------------------------------
(* Steps that take nothing from what is known of a run.                    *)

\* The phases after which the stored calls are looked at first.
LEMMA RecountingPhases ==
  ASSUME NEW cp, cp.phase \in Phases
  PROVE  Recounts(cp) <=> cp.rev # 0 /\ cp.phase \in {"tool_execution", "awaiting_approval"}
<1>1. CASE cp.rev = 0
  BY <1>1 DEF Recounts, ResumePlan
<1>2. CASE cp.rev # 0
  <2>1. cp.phase = "tool_execution" => ResumePlan(cp) = "settle"
    BY <1>2 DEF ResumePlan
  <2>2. cp.phase = "awaiting_approval" => ResumePlan(cp) \in {"settle", "await"}
    BY <1>2 DEF ResumePlan
  <2>3. cp.phase \in {"model", "awaiting_input"} => ResumePlan(cp) = "model"
    BY <1>2 DEF ResumePlan
  <2>4. cp.phase \in {"verification", "waiting_external"} => ResumePlan(cp) = "verify"
    BY <1>2 DEF ResumePlan
  <2>5. cp.phase = "finalizing" => ResumePlan(cp) = "finalize"
    BY <1>2 DEF ResumePlan
  <2> QED
    BY <1>2, <2>1, <2>2, <2>3, <2>4, <2>5 DEF Recounts, Phases
<1> QED
  BY <1>1, <1>2

Moves == \A s \in Runs : run'[s].kind = "model" => RowKeeps(s)

\* A row that is left alone, or moved elsewhere than to wait or to complete.
LEMMA MovesTo ==
  ASSUME Inv, NEW r \in Runs, NEW to \in Statuses, SetRun(r, to) \/ UNCHANGED run,
         to \notin {"waiting_approval", "completed"} \/ run[r].kind = "direct"
  PROVE  Moves
<1>1. CASE UNCHANGED run
  BY <1>1, SameRun DEF Moves
<1>2. CASE SetRun(r, to)
  <2>1. run \in [Runs -> Row] /\ run[r] \in Row
    BY DEF Inv, TypeOK
  <2>2. Moved(run[r], to).status = to /\ Moved(run[r], to).kind = run[r].kind
    BY <2>1, MovedRow DEF Moved, Row
  <2>3. run' = [run EXCEPT ![r] = Moved(run[r], to)]
    BY <1>2 DEF SetRun
  <2>4. ASSUME NEW s \in Runs, run'[s].kind = "model"
        PROVE  RowKeeps(s)
    <3>1. CASE s = r
      BY <2>1, <2>2, <2>3, <2>4, <3>1 DEF RowKeeps
    <3>2. CASE s # r
      BY <2>1, <2>3, <3>2, SameRun
    <3> QED
      BY <3>1, <3>2
  <2> QED
    BY <2>4 DEF Moves
<1> QED
  BY <1>1, <1>2

\* A call that does not come under way and does not leave a write to be read back.
LEMMA OneCallKeeps ==
  ASSUME Inv, NEW r \in Runs, NEW c \in CallIds, NEW e, calls' = [calls EXCEPT ![r][c] = e],
         e.status = "running" => calls[r][c].status = "running",
         e.status = "succeeded" /\ e.result = "verify" /\ ~e.verified => c \in Unread(calls[r])
  PROVE  \A s \in Runs : CallsKeep(s)
<1> SUFFICES ASSUME NEW s \in Runs
             PROVE  CallsKeep(s)
  OBVIOUS
<1>1. calls \in [Runs -> [CallIds -> Call]]
  BY DEF Inv, TypeOK
<1>2. CASE s # r
  BY <1>1, <1>2, SameRun
<1>3. CASE s = r
  <2>1. \A d \in CallIds : calls'[s][d] = IF d = c THEN e ELSE calls[s][d]
    BY <1>1, <1>3
  <2> QED
    BY <1>3, <2>1 DEF CallsKeep, SentCalls, Unread
<1> QED
  BY <1>2, <1>3

\* The cancel of a run leaves no call under way.
LEMMA CancelRunKeeps ==
  ASSUME Inv, NEW r \in Runs, CancelRun(r)
  PROVE  Moves /\ \A s \in Runs : CallsKeep(s)
<1>1. Moves
  BY MovesTo DEF CancelRun, Statuses, Terminal
<1>2. ASSUME NEW s \in Runs
      PROVE  CallsKeep(s)
  <2>1. calls \in [Runs -> [CallIds -> Call]]
    BY DEF Inv, TypeOK
  <2>2. CASE s # r
    BY <2>1, <2>2, SameRun DEF CancelRun
  <2>3. CASE s = r
    <3>1. ASSUME NEW c \in CallIds
          PROVE  calls'[s][c] = calls[s][c] \/ calls'[s][c].status = "canceled"
      <4>1. calls[r][c] \in Call
        BY <2>1
      <4>2. calls'[r][c] = IF calls[r][c].status \in CallSettled \cup {"absent"} THEN calls[r][c]
                           ELSE [calls[r][c] EXCEPT !.status = "canceled"]
        BY <2>1 DEF CancelRun
      <4>3. [calls[r][c] EXCEPT !.status = "canceled"].status = "canceled"
        BY <4>1 DEF Call
      <4> QED
        BY <2>3, <4>2, <4>3
    <3> QED
      BY <2>3, <3>1 DEF CallsKeep, SentCalls, Unread
  <2> QED
    BY <2>2, <2>3
<1> QED
  BY <1>1, <1>2

\* A task that is not aware of anything afterwards.
Unaware(t) ==
  /\ task'[t].kind = "loop" => task'[t].pc \notin AwarePcs
  /\ \A s \in Runs : Approves(task'[t], s) =>
       Approves(task[t], s) \/ run[s].status = "waiting_approval"

LEMMA UnawareSettles ==
  ASSUME Ready, NEW t \in Tasks, Alone(t), Unaware(t) \/ TaskKeeps(t),
         UNCHANGED ckpt, Moves, \A s \in Runs : CallsKeep(s)
  PROVE  Settling'
<1>1. \A u \in Tasks : TaskKeeps(u)
  BY SameTask DEF Alone, Unaware, TaskKeeps
<1> QED
  BY <1>1, AllKeep, SameRun DEF Moves

\* A task that comes to its end, or goes on where it is aware of nothing.
LEMMA LeavesSettled ==
  ASSUME Ready, NEW t \in Tasks, NEW pc, NEW fenced,
         \/ Done(t)
         \/ /\ Goto(t, pc) \/ StopFor(t, pc, fenced)
            /\ task[t].kind = "loop" => pc \notin AwarePcs
            /\ task[t].kind = "approve" => task[t].pc # "grant" \/ pc = "grant",
         UNCHANGED ckpt, Moves, \A s \in Runs : CallsKeep(s)
  PROVE  Settling'
<1>1. Inv
  BY DEF Ready
<1>2. CASE Done(t)
  <2>1. Alone(t) /\ task'[t] = Idle
    BY <1>1, <1>2, DoneGoes
  <2>2. Unaware(t)
    BY <2>1 DEF Unaware, Approves, Idle
  <2> QED
    BY <2>1, <2>2, UnawareSettles
<1>3. CASE /\ Goto(t, pc) \/ StopFor(t, pc, fenced)
           /\ task[t].kind = "loop" => pc \notin AwarePcs
           /\ task[t].kind = "approve" => task[t].pc # "grant" \/ pc = "grant"
  <2>1. Alone(t) /\ task'[t].pc = pc /\ SameFields(task[t], task'[t])
    BY <1>1, <1>3, GotoFields
  <2>2. Unaware(t)
    BY <1>3, <2>1 DEF Unaware, Approves, SameFields
  <2> QED
    BY <2>1, <2>2, UnawareSettles
<1> QED
  BY <1>2, <1>3

LEMMA CallsSame ==
  ASSUME UNCHANGED calls
  PROVE  \A s \in Runs : CallsKeep(s)
BY DEF CallsKeep

-----------------------------------------------------------------------------
(* Requests.                                                               *)

\* The requests that create a run or come in about one.
LEMMA RequestSettles ==
  ASSUME Ready, (\E r \in Runs : AcceptTurn(r)) \/ (\E q \in Requests : Request(q))
  PROVE  Settling'
<1>1. Inv /\ run \in [Runs -> Row] /\ task \in [Tasks -> Task]
  BY DEF Ready, Inv, TypeOK
<1>2. UNCHANGED <<ckpt, calls>>
  BY DEF Request, AcceptTurn, AcceptToolAction, AcceptDecision, AcceptInput, AcceptCancel
<1>3. ASSUME NEW r \in Runs, NEW kind, run' = [run EXCEPT ![r] = NewRow(kind)]
      PROVE  Moves
  BY <1>1, <1>3 DEF Moves, RowKeeps, NewRow
<1>4. CASE \E r \in Runs : AcceptTurn(r)
  <2>1. Moves /\ UNCHANGED task
    BY <1>3, <1>4 DEF AcceptTurn
  <2> QED
    BY <1>2, <2>1, AllKeep, SameTask, SameRun DEF Moves
<1>5. ASSUME NEW q \in Requests, NEW y, task' = [task EXCEPT ![q] = y],
             \/ y.kind \in {"direct", "input", "cancel", "reject"}
             \/ y.pc = "grant" /\ y.kind = "approve",
             Moves
      PROVE  Settling'
  <2>1. q \in Tasks
    BY DEF Tasks
  <2>2. Alone(q) /\ task'[q] = y
    BY <1>1, <1>5, <2>1, SavedFields
  <2>3. Unaware(q)
    BY <1>5, <2>2 DEF Unaware, Approves
  <2> QED
    BY <1>2, <1>5, <2>1, <2>2, <2>3, UnawareSettles, CallsSame
<1>6. ASSUME NEW q \in Requests, NEW r \in Runs, NEW kind \in {"direct", "input", "cancel"}, NEW pc,
             Begin(q, kind, pc, r), Moves
      PROVE  Settling'
  <2> DEFINE y == [Idle EXCEPT !.kind = kind, !.pc = pc, !.run = r]
  <2>1. y.kind = kind /\ task' = [task EXCEPT ![q] = y]
    BY <1>6 DEF Begin, Idle
  <2> HIDE DEF y
  <2> QED
    BY <1>5, <1>6, <2>1
<1>7. UNCHANGED run => Moves
  BY SameRun DEF Moves
<1>8. ASSUME NEW q \in Requests, NEW r \in Runs, AcceptToolAction(q, r)
      PROVE  Settling'
  <2>1. Moves /\ Begin(q, "direct", "begin", r)
    BY <1>3, <1>7, <1>8 DEF AcceptToolAction
  <2> QED
    BY <1>6, <2>1
<1>9. ASSUME NEW q \in Requests, NEW r \in Runs, AcceptInput(q, r)
      PROVE  Settling'
  BY <1>6, <1>7, <1>9 DEF AcceptInput
<1>10. ASSUME NEW q \in Requests, NEW r \in Runs, AcceptCancel(q, r)
      PROVE  Settling'
  BY <1>6, <1>7, <1>10 DEF AcceptCancel
<1>11. ASSUME NEW q \in Requests, NEW r \in Runs, NEW c \in CallIds,
              NEW decision \in {"approve", "reject"}, AcceptDecision(q, r, c, decision)
      PROVE  Settling'
  <2> DEFINE pc == IF decision = "approve" THEN "grant" ELSE "resolve"
             y == [Idle EXCEPT !.kind = decision, !.run = r, !.call = c, !.pc = pc]
  <2>1. y.kind = decision /\ y.pc = pc
    BY DEF Idle
  <2>2. task' = [task EXCEPT ![q] = y] /\ UNCHANGED run
    BY <1>11 DEF AcceptDecision
  <2> HIDE DEF y
  <2> QED
    BY <1>5, <1>7, <2>1, <2>2
<1> QED
  BY <1>4, <1>8, <1>9, <1>10, <1>11 DEF Request

\* A tool action moves direct runs only.
LEMMA DirectSettles ==
  ASSUME Ready, NEW q \in Requests,
         \/ DirectBegin(q) \/ DirectSaveWait(q) \/ DirectWait(q)
         \/ DirectEnd(q) \/ DirectUndo(q) \/ DirectUndoQueued(q)
  PROVE  Settling'
<1>1. task[q].kind = "direct" /\ q \in Tasks /\ UNCHANGED calls
  BY DEF DirectBegin, DirectSaveWait, DirectWait, DirectEnd, DirectUndo, DirectUndoQueued, At, Tasks
<1>2. Inv /\ task[q] # Idle /\ Of(q) = task[q].run /\ task[q].run \in Runs
  BY <1>1, Works1 DEF Ready
<1>3. run[Of(q)].kind = "direct"
  BY <1>1, <1>2 DEF Ready, Steady, KindsOK
<1>4. CASE DirectSaveWait(q)
  <2>1. UNCHANGED run /\ Goto(q, "wait")
    BY <1>4 DEF DirectSaveWait
  <2>2. Alone(q) /\ SameFields(task[q], task'[q])
    BY <1>1, <1>2, <2>1, GotoFields
  <2>3. \A s \in Runs \ {Of(q)} : ckpt'[s] = ckpt[s]
    BY <1>2, <1>4 DEF DirectSaveWait, Save, Inv, TypeOK
  <2> QED
    BY <1>1, <1>2, <1>3, <2>1, <2>2, <2>3, OneRun DEF SameFields
<1>5. CASE ~DirectSaveWait(q)
  <2>1. PICK pc : (Goto(q, pc) \/ Done(q)) /\ UNCHANGED ckpt
    BY <1>5 DEF DirectBegin, DirectWait, DirectEnd, DirectUndo, DirectUndoQueued
  <2>2. task[q].pc = "end" => task[q].out \in {"queued", "completed", "failed"}
    BY <1>1, <1>2 DEF Inv, TasksOK, TaskOK
  <2>3. PICK to \in Statuses : SetRun(Of(q), to) \/ UNCHANGED run
    BY <1>5, <2>2 DEF DirectBegin, DirectWait, DirectEnd, DirectUndo, DirectUndoQueued, UpdateRun, At,
                Statuses, Terminal, Parked
  <2>4. Moves
    BY <1>2, <1>3, <2>3, MovesTo
  <2> QED
    BY <1>1, <2>1, <2>4, LeavesSettled, CallsSame
<1> QED
  BY <1>4, <1>5

\* An approval, a rejection or an input.
LEMMA DecisionSettles ==
  ASSUME Ready, NEW q \in Requests,
         \/ ApproveGrant(q) \/ ApproveResolve(q) \/ ApproveRelease(q)
         \/ RejectResolve(q) \/ RejectQueue(q) \/ InputQueue(q)
  PROVE  Settling'
<1>1. /\ task[q].kind \in {"approve", "reject", "input"} /\ q \in Tasks /\ UNCHANGED ckpt
      /\ task[q].pc \in {"grant", "resolve", "release", "requeue", "inputQueue"}
  BY DEF ApproveGrant, ApproveResolve, ApproveRelease, RejectResolve, RejectQueue, InputQueue, At, Tasks
<1>2. /\ Inv /\ task[q] # Idle /\ Of(q) = task[q].run /\ task[q].run \in Runs
      /\ task[q].pc \in CallPcs => task[q].call \in CallIds
  BY <1>1, Works1 DEF Ready, Inv, TasksOK, TaskOK
<1>3. PICK to \in Statuses \ {"waiting_approval", "completed"} : SetRun(Of(q), to) \/ UNCHANGED run
  BY DEF ApproveGrant, ApproveResolve, ApproveRelease, RejectResolve, RejectQueue, InputQueue, UpdateRun,
         Statuses, Terminal, Parked
<1>4. Moves
  BY <1>2, <1>3, MovesTo
<1>5. \A s \in Runs : CallsKeep(s)
  <2>1. CASE UNCHANGED calls
    BY <2>1, CallsSame
  <2>2. CASE ~UNCHANGED calls
    <3> DEFINE c == task[q].call
               r == Of(q)
               e1 == [calls[r][c] EXCEPT !.approved = TRUE]
               e2 == [calls[r][c] EXCEPT !.status = "rejected"]
    <3>1. /\ ApproveResolve(q) \/ RejectResolve(q)
          /\ calls[r][c].status = "awaiting_approval"
          /\ \/ calls' = [calls EXCEPT ![r][c].approved = TRUE]
             \/ calls' = [calls EXCEPT ![r][c].status = "rejected"]
      BY <2>2 DEF ApproveGrant, ApproveResolve, ApproveRelease, RejectResolve, RejectQueue, InputQueue
    <3>2. c \in CallIds /\ r \in Runs
      BY <1>2, <3>1 DEF ApproveResolve, RejectResolve, At, CallPcs
    <3>3. calls \in [Runs -> [CallIds -> Call]] /\ calls[r][c] \in Call
      BY <1>2, <3>2 DEF Inv, TypeOK
    <3>4. calls' = [calls EXCEPT ![r][c] = e1] \/ calls' = [calls EXCEPT ![r][c] = e2]
      BY <3>1, <3>2, <3>3
    <3>5. e1.status = "awaiting_approval" /\ e2.status = "rejected"
      BY <3>1, <3>3 DEF Call
    <3> HIDE DEF e1, e2, c, r
    <3> QED
      BY <1>2, <3>2, <3>4, <3>5, OneCallKeeps
  <2> QED
    BY <2>1, <2>2
<1>6. CASE ApproveGrant(q) /\ ~Done(q)
  <2>1. UpdateRun(Of(q), "waiting_approval", "running") /\ Goto(q, "resolve")
    BY <1>6 DEF ApproveGrant
  <2>2. Alone(q) /\ task'[q].pc = "resolve" /\ SameFields(task[q], task'[q])
    BY <1>1, <1>2, <2>1, GotoFields
  <2>3. Unaware(q)
    BY <1>2, <1>6, <2>1, <2>2 DEF Unaware, Approves, SameFields, ApproveGrant, At, UpdateRun
  <2> QED
    BY <1>1, <1>4, <1>5, <2>2, <2>3, UnawareSettles
<1>7. CASE ~ApproveGrant(q) \/ Done(q)
  <2>1. PICK pc : (Goto(q, pc) /\ task[q].pc # "grant") \/ Done(q)
    BY <1>7 DEF ApproveGrant, ApproveResolve, ApproveRelease, RejectResolve, RejectQueue, InputQueue, At
  <2> QED
    BY <1>1, <1>4, <1>5, <2>1, LeavesSettled
<1> QED
  BY <1>6, <1>7

\* Tasks that are told to stop keep what they know.
LEMMA AbortKeeps ==
  ASSUME Inv, NEW t \in Tasks,
         \/ task'[t] = Idle \/ task'[t] = task[t]
         \/ task[t] # Idle /\ \E reason \in Aborts : task'[t] = Aborted(t, reason)
  PROVE  TaskKeeps(t)
<1>1. task[t] \in Task
  BY DEF Inv, TypeOK
<1>2. CASE task'[t] = Idle
  BY <1>2 DEF TaskKeeps, Approves, Idle
<1>3. CASE task'[t] = task[t]
  BY <1>3, SameTask
<1>4. CASE \E reason \in Aborts : task'[t] = Aborted(t, reason)
  BY <1>1, <1>4 DEF TaskKeeps, Approves, SameAwareness, Aborted, Task
<1> QED
  BY <1>2, <1>3, <1>4

\* A cancel aborts the loop, or cancels the row.
LEMMA CancelRequestSettles ==
  ASSUME Ready, NEW q \in Requests, CancelOwned(q) \/ CancelRow(q) \/ CancelSignal(q)
  PROVE  Settling'
<1>1. task[q].kind = "cancel" /\ q \in Tasks /\ UNCHANGED ckpt
  BY DEF CancelOwned, CancelRow, CancelSignal, At, Tasks
<1>2. Inv /\ task[q] # Idle /\ Of(q) = task[q].run /\ task[q].run \in Runs
  BY <1>1, Works1 DEF Ready
<1>3. CASE AbortRun(q, Of(q)) /\ UNCHANGED <<run, calls>>
  <2>1. \A t \in Tasks :
          \/ task'[t] = Idle
          \/ task'[t] = task[t]
          \/ task[t] # Idle /\ \E reason \in Aborts : task'[t] = Aborted(t, reason)
    BY <1>2, <1>3, ReachedBusy DEF AbortRun, Aborts
  <2>2. \A t \in Tasks : TaskKeeps(t)
    BY <1>2, <2>1, AbortKeeps
  <2> QED
    BY <1>1, <1>3, <2>2, AllKeep, SameRun
<1>4. CASE UNCHANGED <<run, calls>> /\ ~AbortRun(q, Of(q))
  <2>1. Moves /\ \A s \in Runs : CallsKeep(s)
    BY <1>4, SameRun DEF Moves
  <2>2. PICK pc : Goto(q, pc) \/ Done(q)
    BY <1>4 DEF CancelOwned, CancelRow, CancelSignal
  <2> QED
    BY <1>1, <2>1, <2>2, LeavesSettled
<1>5. CASE CancelRun(Of(q)) /\ Goto(q, "signal")
  BY <1>1, <1>2, <1>5, CancelRunKeeps, LeavesSettled
<1> QED
  BY <1>3, <1>4, <1>5 DEF CancelOwned, CancelRow, CancelSignal

\* A save that meets somebody else's checkpoint.
LEMMA ConflictSettles ==
  ASSUME Ready, NEW t \in Tasks, CheckpointConflict(t)
  PROVE  Settling'
<1>1. PICK pc, fenced : (Goto(t, pc) \/ StopFor(t, pc, fenced)) /\ pc \in {"exhausted", "fail", "undo"}
  BY DEF CheckpointConflict
<1>2. pc \notin AwarePcs
  BY <1>1 DEF AwarePcs, KnowingPcs, ClearPcs, FlightPcs
<1>3. UNCHANGED <<run, ckpt, calls>> /\ task[t].kind # "approve"
  BY DEF CheckpointConflict
<1>4. Moves /\ \A s \in Runs : CallsKeep(s)
  BY <1>3, SameRun DEF Moves
<1> QED
  BY <1>1, <1>2, <1>3, <1>4, LeavesSettled

LEMMA RequestStepSettles ==
  ASSUME Ready, NEW q \in Requests, RequestStep(q)
  PROVE  Settling'
<1>1. q \in Tasks
  BY DEF Tasks
<1> QED
  BY <1>1, DirectSettles, DecisionSettles, CancelRequestSettles, ConflictSettles DEF RequestStep

-----------------------------------------------------------------------------
(* The process.                                                            *)

\* A run that goes back to the queue keeps its checkpoint but for the revision.
LEMMA RecoverSettles ==
  ASSUME Ready, NEW r \in Runs, NEW v, RecoverOne(r, v)
  PROVE  Settling'
<1>1. Inv /\ UNCHANGED <<task, calls>>
  BY DEF Ready, RecoverOne
<1>2. PICK to \in {"queued", "interrupted"} : SetRun(r, to) \/ UNCHANGED run
  BY DEF RecoverOne
<1>3. Moves
  BY <1>1, <1>2, MovesTo DEF Statuses, Terminal
<1>4. \A s \in Runs : CheckpointKeeps(s)
  <2> DEFINE n == ckpt[r].recoveries + 1
             rev == ckpt[r].rev + 1
             cp == [ckpt[r] EXCEPT !.recoveries = n, !.rev = rev]
  <2>1. ckpt \in [Runs -> Checkpoint] /\ ckpt[r] \in Checkpoint
    BY <1>1 DEF Inv, TypeOK
  <2>2. UNCHANGED ckpt \/ (ckpt' = [ckpt EXCEPT ![r] = cp] /\ ckpt[r].rev > 0)
    BY <2>1 DEF RecoverOne
  <2>3. rev # 0 /\ ckpt[r].rev \in Nat
    BY <2>1 DEF Checkpoint
  <2> HIDE DEF n, rev
  <2>4. /\ cp.owed = ckpt[r].owed /\ cp.phase = ckpt[r].phase /\ cp.pending = ckpt[r].pending
        /\ cp.rev = rev
    BY <2>1 DEF Checkpoint
  <2>5. ckpt[r].phase \in Phases
    BY <2>1 DEF Checkpoint
  <2> HIDE DEF cp
  <2>6. ckpt[r].rev > 0 => (Recounts(cp) <=> Recounts(ckpt[r]))
    BY <2>3, <2>4, <2>5, RecountingPhases
  <2> QED
    BY <2>1, <2>2, <2>4, <2>6 DEF CheckpointKeeps
<1> QED
  BY <1>1, <1>3, <1>4, AllKeep, SameTask, SameRun DEF Moves

\* Start, shutdown and crash.
LEMMA ProcessSettles ==
  ASSUME Ready, Process \/ StopBegin \/ Crash
  PROVE  Settling'
<1>1. ASSUME NEW row \in recon.todo, RecoverOne(row[1], row[2])
      PROVE  Settling'
  <2>1. row[1] \in Runs
    BY DEF Ready, Inv, TypeOK, Recon
  <2> QED
    BY <1>1, <2>1, RecoverSettles
<1>2. CASE Boot \/ ListRunning \/ ReconcileDone \/ StopEnd \/ Crash \/ StopBegin
  <2>1. UNCHANGED <<run, ckpt, calls>>
    BY <1>2 DEF Boot, ListRunning, ReconcileDone, StopEnd, Crash, StopBegin
  <2>2. \A t \in Tasks :
          \/ task'[t] = Idle
          \/ task'[t] = task[t]
          \/ task[t] # Idle /\ \E reason \in Aborts : task'[t] = Aborted(t, reason)
    BY <1>2, ReachedBusy
    DEF Boot, ListRunning, ReconcileDone, StopEnd, Crash, StopBegin, Aborts, Ready
  <2>3. \A t \in Tasks : TaskKeeps(t)
    BY <2>2, AbortKeeps DEF Ready
  <2> QED
    BY <2>1, <2>3, AllKeep, SameRun
<1> QED
  BY <1>1, <1>2 DEF Process

-----------------------------------------------------------------------------
(* A step of a loop.                                                       *)

\* What is known of a loop that has not come to its end.
LEMMA KnownLoop ==
  ASSUME Ready, NEW t \in Tasks, task[t].kind = "loop", task[t].pc # "finish"
  PROVE  /\ Inv /\ task \in [Tasks -> Task] /\ task[t] \in Task /\ task[t] # Idle
         /\ Of(t) = task[t].run /\ Of(t) \in Runs /\ Works(task[t], Of(t))
         /\ run[Of(t)].kind = "model" =>
              /\ CheckpointKnows(ckpt[Of(t)], calls[Of(t)])
              /\ LoopKnows(task[t], ckpt[Of(t)], calls[Of(t)])
<1>1. /\ Inv /\ task \in [Tasks -> Task] /\ task[t] \in Task /\ task[t] # Idle
      /\ Of(t) = task[t].run /\ Of(t) \in Runs
  BY Works1 DEF Ready
<1>2. Works(task[t], Of(t))
  BY <1>1 DEF Works
<1> QED
  BY <1>1, <1>2, WorkerFacts

\* A loop that leaves the rows alone.
LEMMA LoopSettles ==
  ASSUME Ready, NEW t \in Tasks, task[t].kind = "loop", task[t].pc # "finish", NEW y,
         task' = [task EXCEPT ![t] = y], y.kind = "loop", y.run = task[t].run, UNCHANGED run,
         \A s \in Runs \ {Of(t)} : ckpt'[s] = ckpt[s] /\ calls'[s] = calls[s],
         run[Of(t)].kind = "model" =>
           /\ CheckpointKnows(ckpt'[Of(t)], calls'[Of(t)])
           /\ LoopKnows(y, ckpt'[Of(t)], calls'[Of(t)])
  PROVE  Settling'
<1>1. Inv /\ Of(t) = task[t].run /\ Of(t) \in Runs /\ Works(task[t], Of(t))
  BY KnownLoop
<1>2. Alone(t) /\ task'[t] = y
  BY <1>1, SavedFields
<1> QED
  BY <1>1, <1>2, WorkerSettles

\* A loop that stores nothing.
LEMMA LoopGoesOn ==
  ASSUME Ready, NEW t \in Tasks, task[t].kind = "loop", task[t].pc # "finish", NEW y,
         task' = [task EXCEPT ![t] = y], y.kind = "loop", y.run = task[t].run,
         UNCHANGED <<run, ckpt, calls>>,
         run[Of(t)].kind = "model" => LoopKnows(y, ckpt[Of(t)], calls[Of(t)])
  PROVE  Settling'
BY KnownLoop, LoopSettles

\* A loop that goes elsewhere and keeps what it knows.
LEMMA LoopJumps ==
  ASSUME Ready, NEW t \in Tasks, task[t].kind = "loop", task[t].pc # "finish", NEW pc, NEW fenced,
         Goto(t, pc) \/ StopFor(t, pc, fenced), UNCHANGED <<run, ckpt, calls>>,
         \/ pc \notin AwarePcs
         \/ task[t].pc \in ClearPcs /\ pc \in ClearPcs
         \/ task[t].pc = "batch" /\ pc \in {"advance", "input"}
         \/ task[t].pc \in KnowingPcs /\ task[t].owed = {} /\ pc \in ClearPcs
  PROVE  Settling'
<1> DEFINE z == [task[t] EXCEPT !.pc = pc]
           w == [task[t] EXCEPT !.pc = pc, !.fenced = fenced]
<1>1. /\ task \in [Tasks -> Task] /\ task[t] \in Task
      /\ run[Of(t)].kind = "model" => LoopKnows(task[t], ckpt[Of(t)], calls[Of(t)])
  BY KnownLoop
<1>2. PICK y : y \in {z, w} /\ task' = [task EXCEPT ![t] = y]
  BY <1>1 DEF Goto, StopFor
<1>3. /\ y.kind = "loop" /\ y.run = task[t].run /\ y.pc = pc /\ y.owed = task[t].owed
      /\ y.call = task[t].call
  BY <1>1, <1>2 DEF Task
<1> HIDE DEF z, w
<1>4. run[Of(t)].kind = "model" => LoopKnows(y, ckpt[Of(t)], calls[Of(t)])
  BY <1>1, <1>3 DEF LoopKnows, AwarePcs, KnowingPcs, ClearPcs, FlightPcs
<1> QED
  BY <1>2, <1>3, <1>4, LoopGoesOn

\* The checkpoint of a model run after its loop has saved.
LEMMA SavedCheckpoint ==
  ASSUME Ready, NEW t \in Tasks, task[t].kind = "loop", task[t].pc \in GoingPcs,
         NEW phase \in Phases, NEW step, NEW pending, NEW owed, NEW final,
         Save(t, phase, step, pending, owed, final)
  PROVE  /\ \A s \in Runs \ {Of(t)} : ckpt'[s] = ckpt[s]
         /\ run[Of(t)].kind = "model" =>
              /\ ckpt'[Of(t)].owed = owed
              /\ Recounts(ckpt'[Of(t)]) <=> phase \in {"tool_execution", "awaiting_approval"}
<1> DEFINE rev == task[t].rev + 1
           next == [rev |-> rev, phase |-> phase, step |-> step,
                    pending |-> pending, owed |-> owed, blocked |-> task[t].blocked,
                    final |-> final, recoveries |-> 0]
<1>1. task[t].pc # "finish"
  BY DEF GoingPcs, ModelPcs
<1>2. Inv /\ task[t] \in Task /\ Of(t) = task[t].run /\ Of(t) \in Runs
  BY <1>1, KnownLoop
<1>3. ckpt \in [Runs -> Checkpoint] /\ task[t].rev \in Nat
  BY <1>2 DEF Inv, TypeOK, Task
<1>4. ckpt' = [ckpt EXCEPT ![Of(t)] = AfterSave(@, task[t].rev, next)]
  BY DEF Save
<1>5. next.rev = rev /\ next.phase = phase /\ next.owed = owed /\ rev # 0
  BY <1>3
<1> DEFINE cp == [next EXCEPT !.recoveries = ckpt[Of(t)].recoveries]
<1>6. cp.rev = rev /\ cp.phase = phase /\ cp.owed = owed
  OBVIOUS
<1> HIDE DEF rev
<1>7. ASSUME run[Of(t)].kind = "model"
      PROVE  ckpt'[Of(t)] = cp
  <2>1. task[t].rev = ckpt[Of(t)].rev
    BY <1>2, <1>7 DEF Ready, Steady, LoopsOK, LoopOK, Progress
  <2> HIDE DEF next
  <2>2. AfterSave(ckpt[Of(t)], task[t].rev, next) = cp
    BY <2>1 DEF AfterSave, SaveStores
  <2> HIDE DEF cp
  <2> QED
    BY <1>2, <1>3, <1>4, <2>2
<1> HIDE DEF cp, next
<1>8. Recounts(cp) <=> phase \in {"tool_execution", "awaiting_approval"}
  BY <1>5, <1>6, RecountingPhases
<1> QED
  BY <1>2, <1>3, <1>4, <1>6, <1>7, <1>8

\* A loop that saves its checkpoint.
LEMMA LoopSavesOn ==
  ASSUME Ready, NEW t \in Tasks, task[t].kind = "loop", task[t].pc \in GoingPcs,
         NEW phase \in Phases, NEW step, NEW pending, NEW final,
         Save(t, phase, step, pending, task[t].owed, final), UNCHANGED <<run, calls>>,
         NEW y, task' = [task EXCEPT ![t] = y],
         y.kind = "loop", y.run = task[t].run, y.owed = task[t].owed,
         y.pc \notin AwarePcs \/ y.pc \in {"check", "verify", "stream", "batch", "parkRun", "commit"},
         y.pc \in {"batch", "parkRun"} => phase \in {"tool_execution", "awaiting_approval"},
         y.pc \in {"stream", "commit", "batch"} => task[t].pc \in ClearPcs,
         phase = "awaiting_approval" \/ task[t].pc \in KnowingPcs,
         phase = "awaiting_approval" => y.pc = "parkRun"
  PROVE  Settling'
<1>1. task[t].pc # "finish"
  BY DEF GoingPcs, ModelPcs
<1>2. run[Of(t)].kind = "model" => LoopKnows(task[t], ckpt[Of(t)], calls[Of(t)])
  BY <1>1, KnownLoop
<1>3. \A s \in Runs \ {Of(t)} : ckpt'[s] = ckpt[s] /\ calls'[s] = calls[s]
  BY SavedCheckpoint
<1>4. ASSUME run[Of(t)].kind = "model"
      PROVE  /\ CheckpointKnows(ckpt'[Of(t)], calls'[Of(t)])
             /\ LoopKnows(y, ckpt'[Of(t)], calls'[Of(t)])
  <2>1. /\ ckpt'[Of(t)].owed = task[t].owed
        /\ Recounts(ckpt'[Of(t)]) <=> phase \in {"tool_execution", "awaiting_approval"}
    BY <1>4, SavedCheckpoint
  <2>2. /\ task[t].pc \in KnowingPcs =>
             SentCalls(calls[Of(t)]) = {} /\ Unread(calls[Of(t)]) \subseteq task[t].owed
        /\ task[t].pc \in ClearPcs => task[t].owed = {}
    BY <1>2, <1>4 DEF LoopKnows
  <2>3. CheckpointKnows(ckpt'[Of(t)], calls'[Of(t)])
    BY <2>1, <2>2 DEF CheckpointKnows
  <2>4. LoopKnows(y, ckpt'[Of(t)], calls'[Of(t)])
    <3>1. y.pc \in KnowingPcs => SentCalls(calls'[Of(t)]) = {} /\ Unread(calls'[Of(t)]) \subseteq y.owed
      BY <2>2 DEF KnowingPcs, ClearPcs
    <3>2. y.pc \in {"batch", "advance", "send", "answer", "parkRun"} => Recounts(ckpt'[Of(t)])
      BY <2>1 DEF AwarePcs, KnowingPcs, ClearPcs, FlightPcs
    <3>3. y.pc \notin FlightPcs
      BY DEF AwarePcs, FlightPcs
    <3>4. y.pc \in ClearPcs => y.owed = {}
      BY <2>2 DEF AwarePcs, KnowingPcs, ClearPcs
    <3> QED
      BY <3>1, <3>2, <3>3, <3>4 DEF LoopKnows
  <2> QED
    BY <2>3, <2>4
<1> QED
  BY <1>1, <1>3, <1>4, LoopSettles

\* claimNextQueuedRun: the loop does not know anything yet.
LEMMA ClaimSettles ==
  ASSUME Ready, NEW t \in Executors, NEW r \in Runs, Claim(t, r)
  PROVE  Settling'
<1> DEFINE ver == run[r].version + 1
           y == [Idle EXCEPT !.kind = "loop", !.pc = "register", !.run = r, !.ver = ver]
<1>1. Inv /\ t \in Tasks /\ UNCHANGED <<ckpt, calls>>
  BY DEF Ready, Tasks, Claim
<1>2. task' = [task EXCEPT ![t] = y]
  BY DEF Claim
<1> HIDE DEF ver
<1>3. y.kind = "loop" /\ y.pc = "register"
  BY DEF Idle
<1> HIDE DEF y
<1>4. Alone(t) /\ task'[t] = y
  BY <1>1, <1>2, SavedFields
<1>5. Unaware(t)
  BY <1>3, <1>4 DEF Unaware, Approves, AwarePcs, KnowingPcs, ClearPcs, FlightPcs
<1>6. Moves
  BY <1>1, MovesTo DEF Claim, UpdateRun, Statuses
<1> QED
  BY <1>1, <1>4, <1>5, <1>6, UnawareSettles, CallsSame

\* A loop that comes to its end with an outcome, whatever it does to the row.
LEMMA EndSettles ==
  ASSUME Ready, NEW t \in Executors, task[t].kind = "loop", NEW out,
         task' = [task EXCEPT ![t].pc = "finish", ![t].out = out],
         UNCHANGED ckpt, Moves, \A s \in Runs : CallsKeep(s)
  PROVE  Settling'
<1> DEFINE y == [task[t] EXCEPT !.pc = "finish", !.out = out]
<1>1. t \in Tasks /\ task[t] \in Task
  BY AtLoop DEF Ready
<1>2. task' = [task EXCEPT ![t] = y] /\ y.pc = "finish" /\ y.kind = "loop"
  BY <1>1 DEF Task
<1> HIDE DEF y
<1>3. Alone(t) /\ task'[t] = y
  BY <1>1, <1>2, SavedFields DEF Ready
<1>4. Unaware(t)
  BY <1>2, <1>3 DEF Unaware, Approves, AwarePcs, KnowingPcs, ClearPcs, FlightPcs
<1> QED
  BY <1>1, <1>3, <1>4, UnawareSettles

\* The quota check.
LEMMA AdmitSettles ==
  ASSUME Ready, NEW t \in Executors, Admit(t)
  PROVE  Settling'
<1>1. task[t].kind = "loop" /\ UNCHANGED <<ckpt, calls>>
  BY DEF Admit, At
<1>2. Inv /\ t \in Tasks /\ Of(t) \in Runs
  BY <1>1, AtLoop DEF Ready
<1>3. Moves /\ \A s \in Runs : CallsKeep(s)
  BY <1>1, <1>2, MovesTo, CallsSame DEF Admit, UpdateRun, Statuses, Terminal
<1>4. CASE \E pc \in {"start", "exhausted"} : Goto(t, pc)
  BY <1>1, <1>2, <1>3, <1>4, LeavesSettled DEF AwarePcs, KnowingPcs, ClearPcs, FlightPcs
<1>5. CASE task' = [task EXCEPT ![t].pc = "finish", ![t].out = "failed"]
  BY <1>1, <1>3, <1>5, EndSettles
<1> QED
  BY <1>4, <1>5 DEF Admit

\* Registration, the look at the checkpoint, and at the calls of a batch cut short.
LEMMA ResumeSettles ==
  ASSUME Ready, NEW t \in Executors, Register(t) \/ Start(t) \/ Settle(t)
  PROVE  Settling'
<1>1. /\ task[t].kind = "loop" /\ task[t].pc \in {"register", "start", "settle"} /\ t \in Tasks
      /\ UNCHANGED <<run, ckpt, calls>>
  BY DEF Register, Start, Settle, At, Tasks
<1>2. /\ Inv /\ task[t] \in Task /\ Of(t) \in Runs /\ Of(t) = task[t].run
      /\ run[Of(t)].kind = "model" => CheckpointKnows(ckpt[Of(t)], calls[Of(t)])
  BY <1>1, KnownLoop
<1>3. ASSUME NEW pc \in {"admit", "fail"}, Goto(t, pc)
      PROVE  Settling'
  <2>1. pc \notin AwarePcs
    BY <1>3 DEF AwarePcs, KnowingPcs, ClearPcs, FlightPcs
  <2> QED
    BY <1>1, <1>3, <2>1, LoopJumps
<1>4. CASE Start(t)
  <2> DEFINE cp == ckpt[Of(t)]
             rev == cp.rev
             step == cp.step
             owed == cp.owed
             blocked == cp.blocked
             plan == ResumePlan(cp)
             call == IF plan = "await" THEN cp.pending ELSE 0
             fenced == (plan = "finalize" /\ cp.final)
             pc == IF plan \in {"settle", "await"} THEN "settle"
                   ELSE IF plan = "verify" \/ owed # {} THEN "verify" ELSE "branch"
             y == [task[t] EXCEPT !.rev = rev, !.step = step, !.owed = owed, !.blocked = blocked,
                                  !.plan = plan, !.call = call, !.fenced = fenced, !.pc = pc]
  <2>1. task' = [task EXCEPT ![t] = y]
    BY <1>4 DEF Start
  <2>2. /\ pc \in {"settle", "verify", "branch"} /\ (pc = "settle" \/ ~Recounts(cp))
        /\ pc = "branch" => owed = {}
    BY DEF Recounts
  <2>3. owed = ckpt[Of(t)].owed
    OBVIOUS
  <2> HIDE DEF rev, step, owed, blocked, plan, call, fenced, pc
  <2>4. y.kind = "loop" /\ y.run = task[t].run /\ y.pc = pc /\ y.owed = owed
    BY <1>1, <1>2 DEF Task
  <2> HIDE DEF y
  <2>5. run[Of(t)].kind = "model" => LoopKnows(y, ckpt[Of(t)], calls[Of(t)])
    BY <1>2, <2>2, <2>3, <2>4
    DEF LoopKnows, CheckpointKnows, AwarePcs, KnowingPcs, ClearPcs, FlightPcs
  <2> QED
    BY <1>1, <2>1, <2>4, <2>5, LoopGoesOn
<1>5. CASE Settle(t) /\ ~Goto(t, "fail")
  <2> DEFINE owed == task[t].owed \cup OwedBy(Of(t))
             blocked == BlockedBy(Of(t), task[t].blocked)
             pc == IF owed = {} THEN "branch" ELSE "verify"
  <2>1. PICK call :
          task' = [task EXCEPT ![t].owed = owed, ![t].call = call,
                               ![t].blocked = BlockedBy(Of(t), @), ![t].pc = pc]
    BY <1>5 DEF Settle
  <2>2. SentCalls(calls[Of(t)]) = {}
    BY <1>5 DEF Settle, SentCalls
  <2>3. Unread(calls[Of(t)]) \subseteq owed
    BY DEF Unread, OwedBy
  <2>4. pc \in {"verify", "branch"} /\ (pc = "branch" => owed = {})
    OBVIOUS
  <2> HIDE DEF owed, pc
  <2> DEFINE y == [task[t] EXCEPT !.owed = owed, !.call = call, !.blocked = blocked, !.pc = pc]
  <2>5. task' = [task EXCEPT ![t] = y]
    BY <1>2, <2>1 DEF Task
  <2> HIDE DEF blocked
  <2>6. y.kind = "loop" /\ y.run = task[t].run /\ y.pc = pc /\ y.owed = owed
    BY <1>1, <1>2 DEF Task
  <2> HIDE DEF y
  <2>7. LoopKnows(y, ckpt[Of(t)], calls[Of(t)])
    BY <2>2, <2>3, <2>4, <2>6 DEF LoopKnows, AwarePcs, KnowingPcs, ClearPcs, FlightPcs
  <2> QED
    BY <1>1, <2>5, <2>6, <2>7, LoopGoesOn
<1> QED
  BY <1>3, <1>4, <1>5 DEF Register, Settle

\* A write that was read back.
LEMMA VerifiedSettles ==
  ASSUME Ready, NEW t \in Executors, CheckVerified(t)
  PROVE  Settling'
<1>1. task[t].kind = "loop" /\ task[t].pc = "check" /\ t \in Tasks /\ UNCHANGED <<run, ckpt>>
  BY DEF CheckVerified, At, Tasks
<1>2. /\ Inv /\ task[t] \in Task /\ Of(t) \in Runs /\ Of(t) = task[t].run
      /\ run[Of(t)].kind = "model" =>
           /\ CheckpointKnows(ckpt[Of(t)], calls[Of(t)])
           /\ LoopKnows(task[t], ckpt[Of(t)], calls[Of(t)])
  BY <1>1, KnownLoop
<1>3. PICK c \in task[t].owed :
        /\ calls' = [calls EXCEPT ![Of(t)][c].verified = TRUE]
        /\ task' = [task EXCEPT ![t].pc = "verify", ![t].owed = @ \ {c},
                                ![t].blocked = @ \ {calls[Of(t)][c].key}]
  BY DEF CheckVerified
<1>4. c \in CallIds /\ calls \in [Runs -> [CallIds -> Call]] /\ calls[Of(t)][c] \in Call
  BY <1>2 DEF Task, Inv, TypeOK
<1> DEFINE owed == task[t].owed \ {c}
           blocked == task[t].blocked \ {calls[Of(t)][c].key}
           y == [task[t] EXCEPT !.pc = "verify", !.owed = owed, !.blocked = blocked]
           e == [calls[Of(t)][c] EXCEPT !.verified = TRUE]
<1>5. task' = [task EXCEPT ![t] = y]
  BY <1>2, <1>3 DEF Task
<1> HIDE DEF blocked
<1>6. y.kind = "loop" /\ y.run = task[t].run /\ y.pc = "verify" /\ y.owed = owed
  BY <1>1, <1>2 DEF Task
<1> HIDE DEF y
<1>7. calls' = [calls EXCEPT ![Of(t)][c] = e] /\ e.verified /\ e.status = calls[Of(t)][c].status
  BY <1>3, <1>4 DEF Call
<1> HIDE DEF e
<1>8. /\ \A s \in Runs \ {Of(t)} : calls'[s] = calls[s]
      /\ \A d \in CallIds : calls'[Of(t)][d] = IF d = c THEN e ELSE calls[Of(t)][d]
  BY <1>2, <1>4, <1>7
<1>9. /\ SentCalls(calls'[Of(t)]) \subseteq SentCalls(calls[Of(t)])
      /\ Unread(calls'[Of(t)]) \subseteq Unread(calls[Of(t)]) \ {c}
  BY <1>7, <1>8 DEF SentCalls, Unread
<1>10. ASSUME run[Of(t)].kind = "model"
       PROVE  /\ CheckpointKnows(ckpt[Of(t)], calls'[Of(t)])
              /\ LoopKnows(y, ckpt[Of(t)], calls'[Of(t)])
  <2>1. SentCalls(calls[Of(t)]) = {} /\ Unread(calls[Of(t)]) \subseteq task[t].owed
    BY <1>1, <1>2, <1>10 DEF LoopKnows, KnowingPcs
  <2>2. CheckpointKnows(ckpt[Of(t)], calls'[Of(t)])
    BY <1>2, <1>9, <1>10 DEF CheckpointKnows
  <2>3. "verify" \notin ClearPcs \cup FlightPcs
    BY DEF ClearPcs, FlightPcs
  <2> QED
    BY <1>6, <1>9, <2>1, <2>2, <2>3 DEF LoopKnows
<1> QED
  BY <1>1, <1>5, <1>6, <1>8, <1>10, LoopSettles

\* Reading accepted writes back.
LEMMA VerifySettles ==
  ASSUME Ready, NEW t \in Executors,
         Verify(t) \/ CheckVerified(t) \/ CheckPending(t) \/ CheckFailed(t)
  PROVE  Settling'
<1>1. /\ task[t].kind = "loop" /\ task[t].pc \in {"verify", "check"} /\ t \in Tasks
      /\ UNCHANGED run
  BY DEF Verify, CheckVerified, CheckPending, CheckFailed, At, Tasks
<1>2. task[t].pc \in KnowingPcs /\ task[t].pc \in GoingPcs
  BY <1>1 DEF KnowingPcs, GoingPcs
<1>3. task[t] \in Task
  BY <1>1, KnownLoop
<1>4. CASE CheckVerified(t)
  BY <1>4, VerifiedSettles
<1>5. CASE CheckFailed(t)
  <2>1. "fail" \notin AwarePcs /\ Goto(t, "fail") /\ UNCHANGED <<ckpt, calls>>
    BY <1>5 DEF AwarePcs, KnowingPcs, ClearPcs, FlightPcs, CheckFailed
  <2> QED
    BY <1>1, <2>1, LoopJumps
<1>6. ASSUME NEW phase \in {"verification", "waiting_external"},
             NEW pc \in {"check", "verify", "cancel", "interrupt", "fail"},
             Save(t, phase, task[t].step, 0, task[t].owed, FALSE), UNCHANGED calls,
             task' = [task EXCEPT ![t].pc = pc, ![t].rev = @ + 1]
      PROVE  Settling'
  <2> DEFINE rev == task[t].rev + 1
             y == [task[t] EXCEPT !.pc = pc, !.rev = rev]
  <2>1. task' = [task EXCEPT ![t] = y]
    BY <1>3, <1>6
  <2>2. y.pc = pc /\ y.kind = "loop" /\ y.run = task[t].run /\ y.owed = task[t].owed
    BY <1>1, <1>3 DEF Task
  <2> HIDE DEF y
  <2>3. pc \notin AwarePcs \/ pc \in {"check", "verify"}
    BY DEF AwarePcs, KnowingPcs, ClearPcs, FlightPcs
  <2>4. phase \in Phases
    BY DEF Phases
  <2> QED
    BY <1>1, <1>2, <1>6, <2>1, <2>2, <2>3, <2>4, LoopSavesOn
<1>7. CASE Verify(t)
  <2>1. CASE task[t].owed = {} /\ Goto(t, "branch") /\ UNCHANGED <<ckpt, calls>>
    BY <1>1, <1>2, <2>1, LoopJumps DEF ClearPcs
  <2>2. CASE /\ Save(t, "verification", task[t].step, 0, task[t].owed, FALSE) /\ UNCHANGED calls
             /\ task' = [task EXCEPT ![t].pc = IF task[t].abort = "none" THEN "check" ELSE AbortPc(t),
                                    ![t].rev = @ + 1]
    BY <1>6, <2>2, AbortPcs
  <2> QED
    BY <1>7, <2>1, <2>2 DEF Verify
<1>8. CASE CheckPending(t)
  BY <1>6, <1>8 DEF CheckPending
<1> QED
  BY <1>4, <1>5, <1>7, <1>8

\* After the reconciliation of what is owed.
LEMMA BranchSettles ==
  ASSUME Ready, NEW t \in Executors, Branch(t)
  PROVE  Settling'
<1>1. /\ task[t].kind = "loop" /\ task[t].pc = "branch" /\ t \in Tasks
      /\ UNCHANGED <<run, calls>>
  BY DEF Branch, At, Tasks
<1>2. task[t].pc \in ClearPcs /\ task[t].pc \in GoingPcs
  BY <1>1 DEF ClearPcs, GoingPcs
<1>3. /\ Inv /\ task[t] \in Task /\ Of(t) \in Runs /\ Of(t) = task[t].run
      /\ run[Of(t)].kind = "model" => LoopKnows(task[t], ckpt[Of(t)], calls[Of(t)])
  BY <1>1, KnownLoop
<1>4. CASE BranchDirect(t)
  <2>1. run[Of(t)].kind = "direct"
    BY <1>4 DEF BranchDirect
  <2>2. \A s \in Runs \ {Of(t)} : ckpt'[s] = ckpt[s]
    BY <1>3, <1>4 DEF BranchDirect, Save, Inv, TypeOK
  <2> DEFINE call == IF MaxToolCalls = 0 THEN NoCall ELSE calls[Of(t)][1]
             blocked == Tracked(task[t].blocked, call)
             rev == task[t].rev + 1
             out == IF call.status = "canceled" THEN "failed" ELSE "completed"
             y1 == [task[t] EXCEPT !.pc = "fail", !.fenced = FALSE]
             y2 == [task[t] EXCEPT !.owed = {1}, !.rechecked = TRUE, !.blocked = blocked, !.pc = "verify"]
             y3 == [task[t] EXCEPT !.pc = "commit", !.rev = rev, !.blocked = blocked,
                                   !.fenced = FALSE, !.out = out]
  <2>3. \/ task' = [task EXCEPT ![t] = y1]
        \/ task' = [task EXCEPT ![t] = y2]
        \/ task' = [task EXCEPT ![t] = y3]
    BY <1>3, <1>4 DEF BranchDirect, StopFor
  <2> HIDE DEF call, blocked, rev, out
  <2>4. /\ y1.kind = "loop" /\ y1.run = task[t].run
        /\ y2.kind = "loop" /\ y2.run = task[t].run
        /\ y3.kind = "loop" /\ y3.run = task[t].run
    BY <1>1, <1>3 DEF Task
  <2> HIDE DEF y1, y2, y3
  <2> QED
    BY <1>1, <2>1, <2>2, <2>3, <2>4, LoopSettles
<1>5. CASE BranchModel(t)
  <2>1. UNCHANGED ckpt
    BY <1>5 DEF BranchModel
  <2>2. CASE Goto(t, "park") \/ StopFor(t, "fail", FALSE)
    <3>1. PICK pc \in {"park", "fail"} : Goto(t, pc) \/ StopFor(t, pc, FALSE)
      BY <2>2
    <3>2. pc \notin AwarePcs
      BY DEF AwarePcs, KnowingPcs, ClearPcs, FlightPcs
    <3> QED
      BY <1>1, <2>1, <3>1, <3>2, LoopJumps
  <2>3. CASE task' = [task EXCEPT ![t].call = 0,
                         ![t].pc = IF task[t].plan = "finalize" THEN "finalize" ELSE "model"]
    <3> DEFINE pc == IF task[t].plan = "finalize" THEN "finalize" ELSE "model"
               y == [task[t] EXCEPT !.call = 0, !.pc = pc]
    <3>1. task' = [task EXCEPT ![t] = y] /\ pc \in {"finalize", "model"}
      BY <1>3, <2>3 DEF Task
    <3> HIDE DEF pc
    <3>2. y.kind = "loop" /\ y.run = task[t].run /\ y.pc = pc /\ y.owed = task[t].owed
      BY <1>1, <1>3 DEF Task
    <3> HIDE DEF y
    <3>3. run[Of(t)].kind = "model" => LoopKnows(y, ckpt[Of(t)], calls[Of(t)])
      BY <1>2, <1>3, <3>1, <3>2 DEF LoopKnows, KnowingPcs, ClearPcs, FlightPcs
    <3> QED
      BY <1>1, <2>1, <3>1, <3>2, <3>3, LoopGoesOn
  <2> QED
    BY <1>5, <2>2, <2>3 DEF BranchModel
<1> QED
  BY <1>4, <1>5 DEF Branch

\* A request to the model, its answer, and a batch of calls.
LEMMA ModelSettles ==
  ASSUME Ready, NEW t \in Executors,
         \/ Model(t) \/ Decide(t) \/ StreamError(t) \/ AbortSeen(t)
         \/ Tools(t) \/ BatchEnd(t) \/ BatchComplete(t)
  PROVE  Settling'
<1>1. /\ task[t].kind = "loop" /\ task[t].pc \in {"model", "stream", "check", "tools", "batch"}
      /\ t \in Tasks /\ UNCHANGED <<run, calls>>
  BY DEF Model, Decide, StreamError, AbortSeen, Tools, BatchEnd, BatchComplete, At, Tasks
<1>2. /\ Inv /\ task[t] \in Task /\ Of(t) \in Runs /\ Of(t) = task[t].run
      /\ run[Of(t)].kind = "model" => LoopKnows(task[t], ckpt[Of(t)], calls[Of(t)])
  BY <1>1, KnownLoop
<1>3. /\ task[t].pc \in GoingPcs /\ task[t].pc \in KnowingPcs
      /\ task[t].pc \in {"model", "stream", "tools"} => task[t].pc \in ClearPcs
  BY <1>1 DEF GoingPcs, ModelPcs, KnowingPcs, ClearPcs
<1>4. ASSUME NEW pc \in {"fail", "cancel", "interrupt"}, NEW fenced, StopFor(t, pc, fenced),
             UNCHANGED ckpt
      PROVE  Settling'
  <2>1. pc \notin AwarePcs
    BY DEF AwarePcs, KnowingPcs, ClearPcs, FlightPcs
  <2> QED
    BY <1>1, <1>4, <2>1, LoopJumps
<1>5. CASE Model(t)
  <2>1. task[t].pc = "model"
    BY <1>5 DEF Model, At
  <2>2. CASE StopFor(t, "fail", FALSE) /\ UNCHANGED ckpt
    BY <1>4, <2>2
  <2>3. CASE /\ Save(t, "model", task[t].step, 0, task[t].owed, FALSE)
             /\ task' = [task EXCEPT ![t].rev = @ + 1,
                      ![t].pc = IF task[t].abort = "none" THEN "stream" ELSE AbortPc(t),
                      ![t].fenced = (task[t].abort # "none")]
    <3> DEFINE rev == task[t].rev + 1
               pc == IF task[t].abort = "none" THEN "stream" ELSE AbortPc(t)
               fenced == (task[t].abort # "none")
               y == [task[t] EXCEPT !.rev = rev, !.pc = pc, !.fenced = fenced]
    <3>1. task' = [task EXCEPT ![t] = y]
      BY <1>2, <2>3
    <3>2. pc \in {"stream", "cancel", "interrupt", "fail"}
      BY AbortPcs
    <3> HIDE DEF pc, fenced
    <3>3. y.pc = pc /\ y.kind = "loop" /\ y.run = task[t].run /\ y.owed = task[t].owed
      BY <1>1, <1>2 DEF Task
    <3> HIDE DEF y
    <3>4. pc \notin AwarePcs \/ pc = "stream"
      BY <3>2 DEF AwarePcs, KnowingPcs, ClearPcs, FlightPcs
    <3>5. "model" \in Phases
      BY DEF Phases
    <3>6. Save(t, "model", task[t].step, 0, task[t].owed, FALSE)
      BY <2>3
    <3> QED
      BY <1>1, <1>3, <2>1, <3>1, <3>2, <3>3, <3>4, <3>5, <3>6, LoopSavesOn
  <2> QED
    BY <1>5, <2>2, <2>3 DEF Model
<1>6. CASE Decide(t)
  <2>1. UNCHANGED ckpt /\ task[t].pc = "stream"
    BY <1>6 DEF Decide, At
  <2>2. CASE Goto(t, "tools")
    BY <1>1, <1>3, <2>1, <2>2, LoopJumps DEF ClearPcs
  <2>3. CASE task' = [task EXCEPT ![t].pc = "model", ![t].step = @ + 1]
    <3> DEFINE step == task[t].step + 1
               y == [task[t] EXCEPT !.pc = "model", !.step = step]
    <3>1. task' = [task EXCEPT ![t] = y]
      BY <1>2, <2>3
    <3>2. y.pc = "model" /\ y.kind = "loop" /\ y.run = task[t].run /\ y.owed = task[t].owed
      BY <1>1, <1>2 DEF Task
    <3> HIDE DEF y
    <3>3. run[Of(t)].kind = "model" => LoopKnows(y, ckpt[Of(t)], calls[Of(t)])
      BY <1>2, <1>3, <2>1, <3>2 DEF LoopKnows, KnowingPcs, ClearPcs, FlightPcs
    <3> QED
      BY <1>1, <2>1, <3>1, <3>2, <3>3, LoopGoesOn
  <2>4. CASE StopFor(t, "fail", FALSE)
    BY <1>4, <2>1, <2>4
  <2>5. CASE task' = [task EXCEPT ![t].pc = "finalize", ![t].fenced = TRUE]
    <3>1. StopFor(t, "finalize", TRUE)
      BY <2>5 DEF StopFor
    <3> QED
      BY <1>1, <1>3, <2>1, <3>1, LoopJumps DEF ClearPcs
  <2> QED
    BY <1>6, <2>2, <2>3, <2>4, <2>5 DEF Decide
<1>7. CASE StreamError(t)
  BY <1>4, <1>7 DEF StreamError
<1>8. CASE AbortSeen(t)
  BY <1>4, <1>8, AbortPcs DEF AbortSeen
<1>9. CASE Tools(t)
  <2> DEFINE rev == task[t].rev + 1
             step == task[t].step + 1
             y == [task[t] EXCEPT !.pc = "batch", !.rev = rev, !.step = step, !.call = 0]
  <2>1. task[t].pc = "tools" /\ Save(t, "tool_execution", step, 0, task[t].owed, FALSE)
    BY <1>9 DEF Tools, At
  <2>2. task' = [task EXCEPT ![t] = y]
    BY <1>2, <1>9 DEF Tools
  <2>3. y.pc = "batch" /\ y.kind = "loop" /\ y.run = task[t].run /\ y.owed = task[t].owed
    BY <1>1, <1>2 DEF Task
  <2> HIDE DEF y, step
  <2>4. "tool_execution" \in Phases
    BY DEF Phases
  <2> QED
    BY <1>1, <1>3, <2>1, <2>2, <2>3, <2>4, LoopSavesOn
<1>10. CASE BatchEnd(t)
  <2> DEFINE pc == IF task[t].owed = {} THEN "model" ELSE "verify"
             y == [task[t] EXCEPT !.call = 0, !.pc = pc]
  <2>1. task' = [task EXCEPT ![t] = y] /\ UNCHANGED ckpt
    BY <1>2, <1>10 DEF BatchEnd
  <2>2. pc \in {"model", "verify"} /\ (pc = "model" => task[t].owed = {})
    OBVIOUS
  <2> HIDE DEF pc
  <2>3. y.pc = pc /\ y.kind = "loop" /\ y.run = task[t].run /\ y.owed = task[t].owed
    BY <1>1, <1>2 DEF Task
  <2> HIDE DEF y
  <2>4. run[Of(t)].kind = "model" => LoopKnows(y, ckpt[Of(t)], calls[Of(t)])
    BY <1>2, <1>3, <2>2, <2>3 DEF LoopKnows, KnowingPcs, ClearPcs, FlightPcs
  <2> QED
    BY <1>1, <2>1, <2>3, <2>4, LoopGoesOn
<1>11. CASE BatchComplete(t)
  <2>1. StopFor(t, "finalize", FALSE) /\ UNCHANGED ckpt /\ task[t].owed = {}
    BY <1>11 DEF BatchComplete
  <2> QED
    BY <1>1, <1>3, <2>1, LoopJumps DEF ClearPcs
<1> QED
  BY <1>5, <1>6, <1>7, <1>8, <1>9, <1>10, <1>11

\* A loop hands its run to the user.
LEMMA ParkSettles ==
  ASSUME Ready, NEW t \in Executors, Park(t) \/ ParkRun(t) \/ Input(t) \/ InputRun(t)
  PROVE  Settling'
<1>1. /\ task[t].kind = "loop" /\ task[t].pc \in {"park", "parkRun", "input", "inputRun"}
      /\ t \in Tasks /\ UNCHANGED calls
  BY DEF Park, ParkRun, Input, InputRun, At, Tasks
<1>2. /\ Inv /\ task \in [Tasks -> Task] /\ task[t] \in Task /\ Of(t) \in Runs /\ Of(t) = task[t].run
      /\ Works(task[t], Of(t))
      /\ run[Of(t)].kind = "model" =>
           /\ CheckpointKnows(ckpt[Of(t)], calls[Of(t)])
           /\ LoopKnows(task[t], ckpt[Of(t)], calls[Of(t)])
  BY <1>1, KnownLoop
<1>3. task[t].pc \in GoingPcs
  BY <1>1 DEF GoingPcs, ModelPcs
<1>4. ASSUME NEW phase, NEW pending, NEW pc,
             Save(t, phase, task[t].step, pending, task[t].owed, FALSE), UNCHANGED run,
             task' = [task EXCEPT ![t].pc = pc, ![t].rev = @ + 1],
             \/ phase = "awaiting_approval" /\ pc = "parkRun"
             \/ phase = "awaiting_input" /\ pc = "inputRun" /\ task[t].pc = "input"
      PROVE  Settling'
  <2> DEFINE rev == task[t].rev + 1
             y == [task[t] EXCEPT !.pc = pc, !.rev = rev]
  <2>1. task' = [task EXCEPT ![t] = y]
    BY <1>2, <1>4
  <2>2. y.pc = pc /\ y.kind = "loop" /\ y.run = task[t].run /\ y.owed = task[t].owed
    BY <1>1, <1>2 DEF Task
  <2> HIDE DEF y
  <2>3. /\ "inputRun" \notin AwarePcs /\ "input" \in KnowingPcs
        /\ "awaiting_input" \in Phases /\ "awaiting_approval" \in Phases
    BY DEF AwarePcs, KnowingPcs, ClearPcs, FlightPcs, Phases
  <2>4. Save(t, phase, task[t].step, pending, task[t].owed, FALSE) /\ UNCHANGED <<run, calls>>
    BY <1>1, <1>4
  <2>5. CASE phase = "awaiting_approval" /\ pc = "parkRun"
    BY <1>1, <1>3, <2>1, <2>2, <2>3, <2>4, <2>5, LoopSavesOn
  <2>6. CASE phase = "awaiting_input" /\ pc = "inputRun" /\ task[t].pc = "input"
    BY <1>1, <1>3, <2>1, <2>2, <2>3, <2>4, <2>6, LoopSavesOn
  <2> QED
    BY <1>4, <2>5, <2>6
<1>5. CASE ParkRun(t) /\ UpdateRun(Of(t), "running", "waiting_approval")
  <2> DEFINE y == [task[t] EXCEPT !.pc = "finish", !.out = "waiting_approval"]
  <2>1. task[t].pc = "parkRun" /\ UNCHANGED ckpt
    BY <1>5 DEF ParkRun, At
  <2>2. task' = [task EXCEPT ![t] = y]
    BY <1>2, <1>5 DEF ParkRun, UpdateRun
  <2>3. y.kind = "loop" /\ y.run = task[t].run /\ y.pc = "finish"
    BY <1>1, <1>2 DEF Task
  <2> HIDE DEF y
  <2>4. Alone(t) /\ task'[t] = y
    BY <1>1, <1>2, <2>2, SavedFields
  <2>5. run \in [Runs -> Row] /\ run' = [run EXCEPT ![Of(t)] = Moved(@, "waiting_approval")]
    BY <1>2, <1>5 DEF UpdateRun, SetRun, Inv, TypeOK
  <2>6. run'[Of(t)].status = "waiting_approval" /\ \A s \in Runs \ {Of(t)} : run'[s] = run[s]
    BY <1>2, <2>5, MovedRow DEF Moved, Row, Statuses, Parked
  <2>7. run[Of(t)].kind = "model" => Recounts(ckpt[Of(t)])
    BY <1>2, <2>1 DEF LoopKnows
  <2>8. LoopKnows(y, ckpt[Of(t)], calls[Of(t)])
    BY <2>3 DEF LoopKnows, KnowingPcs, ClearPcs, FlightPcs
  <2> QED
    BY <1>1, <1>2, <2>1, <2>3, <2>4, <2>6, <2>7, <2>8, WorkerSettles
<1>6. CASE InputRun(t) /\ UpdateRun(Of(t), "running", "waiting_input")
  <2>1. UNCHANGED ckpt /\ task' = [task EXCEPT ![t].pc = "finish", ![t].out = "waiting_input"]
    BY <1>6 DEF InputRun, UpdateRun
  <2>2. Moves
    BY <1>2, <1>6, MovesTo DEF UpdateRun, Statuses, Parked
  <2> QED
    BY <1>1, <2>1, <2>2, EndSettles, CallsSame
<1>7. CASE (ParkRun(t) \/ InputRun(t)) /\ run[Of(t)].status # "running"
  <2>1. PICK pc \in {"cancel", "fail", "exhausted"} :
          (Goto(t, pc) \/ StopFor(t, pc, FALSE)) /\ UNCHANGED <<run, ckpt>>
    BY <1>7 DEF ParkRun, InputRun, UpdateRun
  <2>2. pc \notin AwarePcs
    BY DEF AwarePcs, KnowingPcs, ClearPcs, FlightPcs
  <2> QED
    BY <1>1, <2>1, <2>2, LoopJumps
<1>8. CASE Park(t)
  BY <1>4, <1>8 DEF Park
<1>9. CASE Input(t)
  BY <1>4, <1>9 DEF Input, At
<1> QED
  BY <1>5, <1>6, <1>7, <1>8, <1>9 DEF ParkRun, InputRun

\* A loop that is about to complete its run.
LEMMA FinalizeSettles ==
  ASSUME Ready, NEW t \in Executors, Finalize(t)
  PROVE  Settling'
<1>1. /\ task[t].kind = "loop" /\ task[t].pc = "finalize" /\ t \in Tasks
      /\ UNCHANGED <<run, calls>>
  BY DEF Finalize, At, Tasks
<1>2. task[t] \in Task
  BY <1>1, KnownLoop
<1>3. CASE StopFor(t, "fail", OpenSession(t)) /\ UNCHANGED ckpt
  <2>1. "fail" \notin AwarePcs
    BY DEF AwarePcs, KnowingPcs, ClearPcs, FlightPcs
  <2> QED
    BY <1>1, <1>3, <2>1, LoopJumps
<1>4. CASE /\ Save(t, "finalizing", task[t].step, 0, task[t].owed, task[t].fenced)
           /\ task' = [task EXCEPT ![t].pc = "commit", ![t].rev = @ + 1, ![t].out = "completed"]
  <2> DEFINE rev == task[t].rev + 1
             y == [task[t] EXCEPT !.pc = "commit", !.rev = rev, !.out = "completed"]
  <2>1. task' = [task EXCEPT ![t] = y]
    BY <1>2, <1>4
  <2>2. y.pc = "commit" /\ y.kind = "loop" /\ y.run = task[t].run /\ y.owed = task[t].owed
    BY <1>1, <1>2 DEF Task
  <2> HIDE DEF y
  <2>3. "finalizing" \in Phases /\ task[t].pc \in GoingPcs /\ task[t].pc \in ClearPcs
        /\ task[t].pc \in KnowingPcs
    BY <1>1 DEF Phases, GoingPcs, ModelPcs, ClearPcs, KnowingPcs
  <2>4. Save(t, "finalizing", task[t].step, 0, task[t].owed, task[t].fenced)
    BY <1>4
  <2> QED
    BY <1>1, <2>1, <2>2, <2>3, <2>4, LoopSavesOn
<1> QED
  BY <1>3, <1>4 DEF Finalize

\* commitTerminal: only a loop that has read everything back completes a run.
LEMMA TerminateSettles ==
  ASSUME Ready, NEW t \in Executors, task[t].kind = "loop",
         task[t].pc \in {"commit", "cancel", "interrupt", "fail"},
         NEW to \in {"completed", "failed", "canceled", "interrupted"}, Terminate(t, to),
         to = "completed" => task[t].pc = "commit"
  PROVE  Settling'
<1>1. /\ t \in Tasks /\ UNCHANGED <<ckpt, calls>> /\ task[t].pc # "finish"
  BY DEF Terminate, Tasks
<1>2. /\ Inv /\ task \in [Tasks -> Task] /\ task[t] \in Task /\ Of(t) \in Runs /\ Of(t) = task[t].run
      /\ Works(task[t], Of(t))
      /\ run[Of(t)].kind = "model" =>
           /\ CheckpointKnows(ckpt[Of(t)], calls[Of(t)])
           /\ LoopKnows(task[t], ckpt[Of(t)], calls[Of(t)])
  BY <1>1, KnownLoop
<1>3. CASE UNCHANGED run
  <2>1. Moves
    BY <1>3, SameRun DEF Moves
  <2>2. CASE Goto(t, "exhausted")
    BY <1>1, <1>3, <2>2, LoopJumps DEF AwarePcs, KnowingPcs, ClearPcs, FlightPcs
  <2>3. CASE \E out : task' = [task EXCEPT ![t].pc = "finish", ![t].out = out]
    BY <1>1, <2>1, <2>3, EndSettles, CallsSame
  <2> QED
    BY <2>2, <2>3 DEF Terminate
<1>4. CASE SetRun(Of(t), to) /\ task' = [task EXCEPT ![t].pc = "finish", ![t].out = to]
  <2>1. CASE to # "completed"
    <3>1. Moves
      BY <1>2, <1>4, <2>1, MovesTo DEF Statuses, Terminal
    <3> QED
      BY <1>1, <1>4, <3>1, EndSettles, CallsSame
  <2>2. CASE to = "completed"
    <3> DEFINE y == [task[t] EXCEPT !.pc = "finish", !.out = to]
    <3>1. task' = [task EXCEPT ![t] = y]
      BY <1>2, <1>4
    <3>2. y.kind = "loop" /\ y.run = task[t].run /\ y.pc = "finish"
      BY <1>2 DEF Task
    <3> HIDE DEF y
    <3>3. Alone(t) /\ task'[t] = y
      BY <1>1, <1>2, <3>1, SavedFields
    <3>4. run \in [Runs -> Row] /\ run' = [run EXCEPT ![Of(t)] = Moved(@, to)]
      BY <1>2, <1>4 DEF SetRun, Inv, TypeOK
    <3>5. run'[Of(t)].status = "completed" /\ \A s \in Runs \ {Of(t)} : run'[s] = run[s]
      <4>1. run[Of(t)] \in Row
        BY <1>2, <3>4
      <4>2. Moved(run[Of(t)], to).status = to
        BY <4>1 DEF Moved, Row
      <4> QED
        BY <1>2, <2>2, <3>4, <4>2
    <3>6. run[Of(t)].kind = "model" => SentCalls(calls[Of(t)]) = {} /\ Unread(calls[Of(t)]) = {}
      BY <1>2, <2>2 DEF LoopKnows, KnowingPcs, ClearPcs
    <3>7. LoopKnows(y, ckpt[Of(t)], calls[Of(t)])
      BY <3>2 DEF LoopKnows, KnowingPcs, ClearPcs, FlightPcs
    <3> QED
      BY <1>1, <1>2, <3>2, <3>3, <3>5, <3>6, <3>7, WorkerSettles
  <2> QED
    BY <2>1, <2>2
<1> QED
  BY <1>3, <1>4 DEF Terminate

\* The ways a loop ends.
LEMMA EndsSettle ==
  ASSUME Ready, NEW t \in Executors,
         Commit(t) \/ Cancel(t) \/ Interrupt(t) \/ Fail(t) \/ Exhausted(t) \/ Finish(t)
  PROVE  Settling'
<1>1. task[t].kind = "loop" /\ UNCHANGED ckpt
  BY DEF Commit, Cancel, Interrupt, Fail, Exhausted, Finish, Terminate, At
<1>2. Inv /\ t \in Tasks /\ task[t] # Idle /\ Of(t) = task[t].run /\ Of(t) \in Runs
  BY <1>1, AtLoop DEF Ready
<1>3. CASE Commit(t)
  <2>1. task[t].out \in {"completed", "failed"} /\ task[t].pc = "commit"
    BY <1>2, <1>3 DEF Commit, At, Inv, TasksOK, TaskOK
  <2> QED
    BY <1>1, <1>3, <2>1, TerminateSettles DEF Commit
<1>4. CASE Interrupt(t) \/ Fail(t)
  BY <1>1, <1>4, TerminateSettles DEF Interrupt, Fail, At
<1>5. CASE Cancel(t)
  <2>1. task[t].pc = "cancel"
    BY <1>5 DEF Cancel, At
  <2>2. CASE Terminate(t, "canceled")
    BY <1>1, <2>1, <2>2, TerminateSettles
  <2>3. CASE /\ CancelRun(Of(t)) \/ UNCHANGED <<run, calls>>
             /\ task' = [task EXCEPT ![t].pc = "finish", ![t].out = "canceled"]
    <3>1. Moves /\ \A s \in Runs : CallsKeep(s)
      BY <1>2, <2>3, CancelRunKeeps, CallsSame, SameRun DEF Moves
    <3> QED
      BY <1>1, <2>3, <3>1, EndSettles
  <2> QED
    BY <1>5, <2>2, <2>3 DEF Cancel
<1>6. CASE Exhausted(t)
  <2>1. UNCHANGED calls /\ (SetRun(Of(t), "interrupted") \/ UNCHANGED run)
    BY <1>6 DEF Exhausted, UpdateRun
  <2>2. Moves
    BY <1>2, <2>1, MovesTo DEF Statuses, Terminal
  <2> QED
    BY <1>1, <1>6, <2>1, <2>2, EndSettles, CallsSame DEF Exhausted
<1>7. CASE Finish(t)
  <2>1. Done(t) /\ UNCHANGED <<run, calls>>
    BY <1>7 DEF Finish
  <2>2. Moves
    BY <2>1, SameRun DEF Moves
  <2> QED
    BY <1>1, <1>2, <2>1, <2>2, LeavesSettled, CallsSame
<1> QED
  BY <1>3, <1>4, <1>5, <1>6, <1>7

\* The timer of a run.
LEMMA TimeoutSettles ==
  ASSUME Ready, NEW t \in Executors, Timeout(t)
  PROVE  Settling'
<1> DEFINE y == [task[t] EXCEPT !.abort = "timeout"]
<1>1. /\ task[t].kind = "loop" /\ task[t].pc \in {"send", "answer", "stream", "check"}
      /\ t \in Tasks /\ UNCHANGED <<run, ckpt, calls>>
  BY DEF Timeout, Tasks
<1>2. /\ task[t] \in Task
      /\ run[Of(t)].kind = "model" => LoopKnows(task[t], ckpt[Of(t)], calls[Of(t)])
  BY <1>1, KnownLoop
<1>3. task' = [task EXCEPT ![t] = y]
  BY <1>2 DEF Timeout
<1>4. /\ y.pc = task[t].pc /\ y.kind = "loop" /\ y.run = task[t].run /\ y.owed = task[t].owed
      /\ y.call = task[t].call
  BY <1>1, <1>2 DEF Task
<1> HIDE DEF y
<1>5. run[Of(t)].kind = "model" => LoopKnows(y, ckpt[Of(t)], calls[Of(t)])
  BY <1>2, <1>4 DEF LoopKnows
<1> QED
  BY <1>1, <1>3, <1>4, <1>5, LoopGoesOn

\* Every step of a loop.
LEMMA LoopStepSettles ==
  ASSUME Ready, NEW t \in Executors, LoopStep(t) \/ LoopAnswer(t)
  PROVE  Settling'
<1>1. t \in Tasks
  BY DEF Tasks
<1> QED
  BY <1>1, AdmitSettles, ResumeSettles, VerifySettles, BranchSettles, ModelSettles, ParkSettles,
     FinalizeSettles, EndsSettle, ConflictSettles DEF LoopStep, LoopAnswer

\* A statement that fails on the database.
LEMMA OutageSettles ==
  ASSUME Ready, NEW t \in Tasks, Outage(t)
  PROVE  Settling'
<1>1. /\ Inv /\ task[t] # Idle /\ UNCHANGED <<run, ckpt, calls>> /\ task[t].pc # "finish"
      /\ task \in [Tasks -> Task] /\ task[t] \in Task
  BY DEF Outage, Ready, Inv, TypeOK
<1>2. Moves /\ \A s \in Runs : CallsKeep(s)
  BY <1>1, CallsSame, SameRun DEF Moves
<1>3. CASE \/ Done(t)
           \/ task[t].kind = "direct" /\ Goto(t, "undo")
           \/ task[t].kind = "approve" /\ task[t].pc # "grant" /\ Goto(t, "release")
  BY <1>1, <1>2, <1>3, LeavesSettled
<1>4. ASSUME NEW fenced, task[t].kind = "loop",
             task' = [task EXCEPT ![t].fenced = fenced, ![t].out = "absent",
                        ![t].pc = CASE task[t].pc = "exhausted" -> "finish"
                                    [] task[t].pc \in EndingPcs -> "exhausted"
                                    [] OTHER -> "fail"]
      PROVE  Settling'
  <2> DEFINE pc == CASE task[t].pc = "exhausted" -> "finish"
                     [] task[t].pc \in EndingPcs -> "exhausted"
                     [] OTHER -> "fail"
             y == [task[t] EXCEPT !.fenced = fenced, !.out = "absent", !.pc = pc]
  <2>1. task' = [task EXCEPT ![t].fenced = fenced, ![t].out = "absent", ![t].pc = pc]
    BY <1>4
  <2>2. pc \in {"finish", "exhausted", "fail"}
    <3>1. CASE task[t].pc = "exhausted"
      BY <3>1
    <3>2. CASE task[t].pc # "exhausted" /\ task[t].pc \in EndingPcs
      BY <3>2
    <3>3. CASE task[t].pc # "exhausted" /\ task[t].pc \notin EndingPcs
      BY <3>3 DEF EndingPcs
    <3> QED
      BY <3>1, <3>2, <3>3
  <2> HIDE DEF pc
  <2>3. task' = [task EXCEPT ![t] = y]
    BY <1>1, <2>1
  <2>4. y.pc = pc /\ y.kind = "loop" /\ y.run = task[t].run
    BY <1>1, <1>4 DEF Task
  <2> HIDE DEF y
  <2>5. LoopKnows(y, ckpt[Of(t)], calls[Of(t)])
    BY <2>2, <2>4 DEF LoopKnows, KnowingPcs, ClearPcs, FlightPcs
  <2> QED
    BY <1>1, <1>4, <2>3, <2>4, <2>5, LoopGoesOn
<1> QED
  BY <1>3, <1>4 DEF Outage

-----------------------------------------------------------------------------
(* Tool calls.                                                             *)

\* Where a call, e, takes the task x that has it at hand.
Onward(x, y, c, e) ==
  /\ y.kind = x.kind /\ y.run = x.run
  /\ x.kind = "loop" =>
       \/ y.pc = "park"
       \/ /\ y.pc = "batch"
          /\ y.owed = IF e.result = "verify" THEN x.owed \cup {c} ELSE x.owed

\* What becomes of a task that has a call at hand.
LEMMA AfterCallFields ==
  ASSUME Inv, NEW t \in Tasks, NEW c \in CallIds, NEW e, NEW next \in AfterCall(t, c, e),
         task' = [task EXCEPT ![t] = next]
  PROVE  Alone(t) /\ task'[t] = next /\ Onward(task[t], next, c, e)
<1> DEFINE me == [task[t] EXCEPT !.call = c]
<1>1. task[t] \in Task
  BY DEF Inv, TypeOK
<1>2. /\ me \in Task /\ me.kind = task[t].kind /\ me.run = task[t].run /\ me.call = c
      /\ me.owed = task[t].owed
  BY <1>1 DEF Task
<1>3. next \in Continue(me, e)
  BY DEF AfterCall
<1> HIDE DEF me
<1>4. next.kind = me.kind /\ next.run = me.run
  BY <1>2, <1>3, ContinueGoes
<1>5. ASSUME me.kind = "loop"
      PROVE  \/ next.pc = "park"
             \/ /\ next.pc = "batch"
                /\ next.owed = IF e.result = "verify" THEN me.owed \cup {me.call} ELSE me.owed
  <2>1. CASE e.status = "awaiting_approval"
    BY <1>2, <1>3, <1>5, <2>1 DEF Continue, Task
  <2>2. CASE e.status # "awaiting_approval"
    <3> DEFINE blocked == Tracked(me.blocked, e)
               owed == IF e.result = "verify" THEN me.owed \cup {me.call} ELSE me.owed
    <3>1. next = [me EXCEPT !.pc = "batch", !.blocked = blocked, !.owed = owed]
      BY <1>2, <1>3, <1>5, <2>2 DEF Continue, Task
    <3> HIDE DEF blocked, owed
    <3>2. next.pc = "batch" /\ next.owed = owed
      BY <1>2, <3>1 DEF Task
    <3> QED
      BY <3>2 DEF owed
  <2> QED
    BY <2>1, <2>2
<1>6. Alone(t) /\ task'[t] = next
  BY SavedFields
<1> QED
  BY <1>2, <1>4, <1>5, <1>6 DEF Onward

\* The steps of a call, with what they do to the calls and to who makes it.
LEMMA CallTask ==
  ASSUME Ready, NEW t \in Tasks, CallStep(t)
  PROVE  /\ Inv /\ task[t] \in Task /\ Of(t) = task[t].run /\ Of(t) \in Runs
         /\ task[t].kind \in {"loop", "direct", "approve"} /\ task[t].pc # "finish"
         /\ task[t].kind = "approve" => task[t].pc # "grant"
         /\ Alone(t) /\ task'[t].kind = task[t].kind /\ task'[t].run = task[t].run
         /\ UNCHANGED <<run, ckpt>> /\ \A s \in Runs \ {Of(t)} : calls'[s] = calls[s]
<1>1. /\ task[t].kind \in {"loop", "direct", "approve"}
      /\ task[t].pc \in {"batch", "propose", "advance", "send", "answer"}
      /\ UNCHANGED <<run, ckpt>>
  BY DEF CallStep, Propose, Reuse, NeedInput, Hold, Execute, AdvanceConflict, Send, Receive,
         ReceiveCanceled, At
<1>2. /\ Inv /\ task \in [Tasks -> Task] /\ task[t] \in Task /\ Of(t) = task[t].run /\ Of(t) \in Runs
      /\ task[t].pc \in {"advance", "send", "answer"} => task[t].call \in CallIds
  BY <1>1, Works1 DEF Ready, Inv, TasksOK, TaskOK, CallPcs
<1>3. \A s \in Runs \ {Of(t)} : calls'[s] = calls[s]
  <2>1. calls \in [Runs -> [CallIds -> Call]]
    BY <1>2 DEF Inv, TypeOK
  <2>2. UNCHANGED calls \/ \E x \in [CallIds -> Call] \cup {calls'[Of(t)]} : calls' = [calls EXCEPT ![Of(t)] = x]
    <3>1. CASE Propose(t)
      BY <1>2, <2>1, <3>1 DEF Propose
    <3>2. CASE Hold(t)
      BY <1>2, <2>1, <3>2 DEF Hold
    <3>3. CASE Execute(t)
      BY <1>2, <2>1, <3>3 DEF Execute
    <3>4. CASE Send(t)
      BY <1>2, <2>1, <3>4 DEF Send
    <3>5. CASE Receive(t)
      BY <1>2, <2>1, <3>5 DEF Receive
    <3> QED
      BY <3>1, <3>2, <3>3, <3>4, <3>5
      DEF CallStep, Reuse, NeedInput, AdvanceConflict, ReceiveCanceled
  <2> QED
    BY <1>2, <2>1, <2>2
<1>4. Alone(t) /\ task'[t].kind = task[t].kind /\ task'[t].run = task[t].run
  <2>1. ASSUME NEW c \in CallIds, NEW e, NEW next \in AfterCall(t, c, e),
               task' = [task EXCEPT ![t] = next]
        PROVE  Alone(t) /\ task'[t].kind = task[t].kind /\ task'[t].run = task[t].run
    BY <1>2, <2>1, AfterCallFields DEF Onward
  <2>2. ASSUME NEW pc, Goto(t, pc)
        PROVE  Alone(t) /\ task'[t].kind = task[t].kind /\ task'[t].run = task[t].run
    BY <1>2, <2>2, GotoFields DEF SameFields
  <2>3. CASE Propose(t)
    <3>1. PICK c \in CallIds : task' = [task EXCEPT ![t].pc = "advance", ![t].call = c]
      BY <2>3 DEF Propose
    <3> QED
      BY <1>2, <3>1 DEF Alone, Task
  <2>4. CASE Reuse(t)
    BY <2>1, <2>4 DEF Reuse, ReusableFor
  <2>5. CASE NeedInput(t) \/ Execute(t) \/ AdvanceConflict(t)
    BY <2>2, <2>5 DEF NeedInput, Execute, AdvanceConflict
  <2>6. CASE Hold(t)
    BY <1>2, <2>1, <2>6 DEF Hold, At
  <2>7. CASE Send(t)
    <3>1. PICK answer : task' = [task EXCEPT ![t].pc = "answer", ![t].answer = answer]
      BY <2>7 DEF Send
    <3> QED
      BY <1>2, <3>1 DEF Alone, Task
  <2>8. CASE Receive(t)
    BY <1>2, <2>1, <2>8 DEF Receive, At
  <2>9. CASE ReceiveCanceled(t)
    BY <1>2, <2>1, <2>2, <2>9 DEF ReceiveCanceled, At
  <2> QED
    BY <2>3, <2>4, <2>5, <2>6, <2>7, <2>8, <2>9 DEF CallStep
<1> QED
  BY <1>1, <1>2, <1>3, <1>4

\* A call of a tool action, or of an approval.
LEMMA RequestCallSettles ==
  ASSUME Ready, NEW t \in Tasks, CallStep(t), task[t].kind # "loop"
  PROVE  Settling'
<1>1. /\ Inv /\ task[t] \in Task /\ Of(t) = task[t].run /\ Of(t) \in Runs
      /\ task[t].kind \in {"direct", "approve"}
      /\ task[t].kind = "approve" => task[t].pc # "grant"
      /\ Alone(t) /\ task'[t].kind = task[t].kind /\ task'[t].run = task[t].run
      /\ UNCHANGED <<run, ckpt>> /\ \A s \in Runs \ {Of(t)} : calls'[s] = calls[s]
  BY CallTask
<1>2. CASE task[t].kind = "direct"
  <2>1. run[Of(t)].kind = "direct"
    BY <1>1, <1>2 DEF Ready, Steady, KindsOK
  <2> QED
    BY <1>1, <2>1, OneRun
<1>3. CASE task[t].kind = "approve"
  <2>1. Works(task[t], Of(t))
    BY <1>1, <1>3 DEF Works
  <2>2. run[Of(t)].kind = "model" => Recounts(ckpt[Of(t)])
    BY <1>1, <1>3, <2>1, WorkerFacts
  <2>3. run[Of(t)].kind = "model" => CheckpointKnows(ckpt'[Of(t)], calls'[Of(t)])
    BY <1>1, <2>2 DEF CheckpointKnows
  <2> QED
    BY <1>1, <1>3, <2>1, <2>2, <2>3, WorkerSettles
<1> QED
  BY <1>1, <1>2, <1>3

\* A loop goes on with its batch, or parks, after a call that is not under way.
LEMMA BatchGoesOn ==
  ASSUME Ready, NEW t \in Tasks, task[t].kind = "loop", task[t].pc \in {"batch", "advance", "answer"},
         NEW c \in CallIds, NEW e, NEW next \in AfterCall(t, c, e), task' = [task EXCEPT ![t] = next],
         UNCHANGED <<run, ckpt>>, calls' = [calls EXCEPT ![Of(t)][c] = e],
         run[Of(t)].kind = "model" => e.status # "running",
         task[t].pc = "answer" => c = task[t].call
  PROVE  Settling'
<1>1. /\ Inv /\ Of(t) = task[t].run /\ Of(t) \in Runs
      /\ run[Of(t)].kind = "model" => LoopKnows(task[t], ckpt[Of(t)], calls[Of(t)])
  BY KnownLoop
<1>2. calls \in [Runs -> [CallIds -> Call]]
  BY <1>1 DEF Inv, TypeOK
<1>3. /\ \A s \in Runs \ {Of(t)} : calls'[s] = calls[s]
      /\ \A d \in CallIds : calls'[Of(t)][d] = IF d = c THEN e ELSE calls[Of(t)][d]
  BY <1>1, <1>2
<1>4. /\ next.kind = "loop" /\ next.run = task[t].run
      /\ \/ next.pc = "park"
         \/ /\ next.pc = "batch"
            /\ next.owed = IF e.result = "verify" THEN task[t].owed \cup {c} ELSE task[t].owed
  <2>1. Onward(task[t], next, c, e)
    BY <1>1, AfterCallFields
  <2> QED
    BY <2>1 DEF Onward
<1>5. ASSUME run[Of(t)].kind = "model"
      PROVE  /\ CheckpointKnows(ckpt[Of(t)], calls'[Of(t)])
             /\ LoopKnows(next, ckpt[Of(t)], calls'[Of(t)])
  <2>1. Recounts(ckpt[Of(t)]) /\ Unread(calls[Of(t)]) \subseteq task[t].owed
        /\ SentCalls(calls[Of(t)]) \subseteq {c}
    BY <1>1, <1>5 DEF LoopKnows, KnowingPcs, FlightPcs
  <2>2. SentCalls(calls'[Of(t)]) = {}
    BY <1>3, <1>5, <2>1 DEF SentCalls
  <2>3. CASE next.pc = "park"
    BY <2>1, <2>3 DEF CheckpointKnows, LoopKnows, KnowingPcs, ClearPcs, FlightPcs
  <2>4. CASE next.pc # "park"
    <3>1. Unread(calls'[Of(t)]) \subseteq next.owed
      BY <1>3, <1>4, <2>1, <2>4 DEF Unread
    <3> QED
      BY <1>4, <2>1, <2>2, <2>4, <3>1 DEF CheckpointKnows, LoopKnows, KnowingPcs, ClearPcs, FlightPcs
  <2> QED
    BY <2>3, <2>4
<1> QED
  BY <1>1, <1>3, <1>4, <1>5, LoopSettles

\* What a call of a loop starts from.
LEMMA LoopCall ==
  ASSUME Ready, NEW t \in Tasks, CallStep(t), task[t].kind = "loop"
  PROVE  /\ Inv /\ task \in [Tasks -> Task] /\ task[t] \in Task
         /\ Of(t) = task[t].run /\ Of(t) \in Runs
         /\ calls \in [Runs -> [CallIds -> Call]]
         /\ task[t].pc \in {"advance", "send", "answer"} => task[t].call \in CallIds
         /\ run[Of(t)].kind = "model" =>
              /\ CheckpointKnows(ckpt[Of(t)], calls[Of(t)])
              /\ LoopKnows(task[t], ckpt[Of(t)], calls[Of(t)])
<1>1. task[t].pc # "finish"
  BY CallTask
<1>2. Inv
  BY CallTask
<1>3. task[t].pc \in {"advance", "send", "answer"} => task[t].call \in CallIds
  BY <1>2 DEF Inv, TasksOK, TaskOK, CallPcs
<1> QED
  BY <1>1, <1>2, <1>3, KnownLoop DEF Inv, TypeOK

\* A new call of a batch.
LEMMA ProposeSettles ==
  ASSUME Ready, NEW t \in Tasks, Propose(t), task[t].kind = "loop"
  PROVE  Settling'
<1>1. CallStep(t) /\ task[t].pc = "batch" /\ UNCHANGED <<run, ckpt>>
  BY DEF CallStep, Propose, At
<1>2. /\ task \in [Tasks -> Task] /\ task[t] \in Task /\ Of(t) = task[t].run /\ Of(t) \in Runs
      /\ calls \in [Runs -> [CallIds -> Call]]
      /\ run[Of(t)].kind = "model" => LoopKnows(task[t], ckpt[Of(t)], calls[Of(t)])
  BY <1>1, LoopCall
<1>3. PICK c \in CallIds :
        /\ \E x : x.status = "proposed" /\ calls' = [calls EXCEPT ![Of(t)][c] = x]
        /\ task' = [task EXCEPT ![t].pc = "advance", ![t].call = c]
  <2>1. PICK c \in CallIds, key \in CallIds, shape \in CallShapes :
          /\ calls' = [calls EXCEPT ![Of(t)][c] =
               [NoCall EXCEPT !.status = "proposed", !.key = key,
                              !.write = shape.write, !.gated = shape.gated]]
          /\ task' = [task EXCEPT ![t].pc = "advance", ![t].call = c]
    BY DEF Propose
  <2> DEFINE e == [NoCall EXCEPT !.status = "proposed", !.key = key,
                                 !.write = shape.write, !.gated = shape.gated]
  <2>2. e.status = "proposed"
    BY DEF NoCall
  <2>3. calls' = [calls EXCEPT ![Of(t)][c] = e]
    BY <2>1
  <2> HIDE DEF e
  <2> QED
    BY <2>1, <2>2, <2>3
<1>4. PICK e : e.status = "proposed" /\ calls' = [calls EXCEPT ![Of(t)][c] = e]
  BY <1>3
<1> DEFINE y == [task[t] EXCEPT !.pc = "advance", !.call = c]
<1>5. task' = [task EXCEPT ![t] = y]
  BY <1>2, <1>3
<1>6. y.kind = "loop" /\ y.run = task[t].run /\ y.pc = "advance" /\ y.owed = task[t].owed
  BY <1>2 DEF Task
<1> HIDE DEF y
<1>7. /\ \A s \in Runs \ {Of(t)} : calls'[s] = calls[s]
      /\ \A d \in CallIds : calls'[Of(t)][d] = IF d = c THEN e ELSE calls[Of(t)][d]
  BY <1>2, <1>4
<1>8. /\ SentCalls(calls'[Of(t)]) \subseteq SentCalls(calls[Of(t)])
      /\ Unread(calls'[Of(t)]) \subseteq Unread(calls[Of(t)])
  BY <1>4, <1>7 DEF SentCalls, Unread
<1>9. ASSUME run[Of(t)].kind = "model"
      PROVE  /\ CheckpointKnows(ckpt[Of(t)], calls'[Of(t)])
             /\ LoopKnows(y, ckpt[Of(t)], calls'[Of(t)])
  <2>1. /\ Recounts(ckpt[Of(t)]) /\ SentCalls(calls[Of(t)]) = {}
        /\ Unread(calls[Of(t)]) \subseteq task[t].owed
    BY <1>1, <1>2, <1>9 DEF LoopKnows, KnowingPcs
  <2> QED
    BY <1>6, <1>8, <2>1 DEF CheckpointKnows, LoopKnows, KnowingPcs, ClearPcs, FlightPcs
<1> QED
  BY <1>1, <1>5, <1>6, <1>7, <1>9, LoopSettles

\* A call that comes back as it is.
LEMMA SameCallSettles ==
  ASSUME Ready, NEW t \in Tasks, CallStep(t), task[t].kind = "loop",
         task[t].pc \in {"batch", "answer"}, NEW c \in CallIds,
         NEW next \in AfterCall(t, c, calls[Of(t)][c]), task' = [task EXCEPT ![t] = next],
         UNCHANGED <<run, ckpt, calls>>,
         task[t].pc = "answer" => c = task[t].call /\ calls[Of(t)][c].status # "running"
  PROVE  Settling'
<1>1. /\ Of(t) \in Runs /\ calls \in [Runs -> [CallIds -> Call]]
      /\ run[Of(t)].kind = "model" => LoopKnows(task[t], ckpt[Of(t)], calls[Of(t)])
  BY LoopCall
<1>2. run[Of(t)].kind = "model" => calls[Of(t)][c].status # "running"
  <2>1. CASE task[t].pc = "answer"
    BY <2>1
  <2>2. CASE task[t].pc = "batch"
    BY <1>1, <2>2 DEF LoopKnows, KnowingPcs, SentCalls
  <2> QED
    BY <2>1, <2>2
<1> DEFINE e == calls[Of(t)][c]
<1>3. calls' = [calls EXCEPT ![Of(t)][c] = e]
  BY <1>1
<1>4. next \in AfterCall(t, c, e) /\ (run[Of(t)].kind = "model" => e.status # "running")
  BY <1>2
<1> HIDE DEF e
<1> QED
  BY <1>3, <1>4, BatchGoesOn

\* A proposal that is answered with an earlier call, or lacks arguments.
LEMMA ReuseSettles ==
  ASSUME Ready, NEW t \in Tasks, Reuse(t) \/ NeedInput(t), task[t].kind = "loop"
  PROVE  Settling'
<1>1. CallStep(t) /\ task[t].pc = "batch" /\ UNCHANGED <<run, ckpt, calls>>
  BY DEF CallStep, Reuse, NeedInput, At
<1>2. CASE Reuse(t)
  <2>1. PICK d \in CallIds : \E c \in ReusableFor(Of(t), calls[Of(t)][d].key) :
          \E next \in AfterCall(t, c, calls[Of(t)][c]) : task' = [task EXCEPT ![t] = next]
    BY <1>2 DEF Reuse
  <2>2. PICK c \in CallIds : \E next \in AfterCall(t, c, calls[Of(t)][c]) :
          task' = [task EXCEPT ![t] = next]
    BY <2>1 DEF ReusableFor
  <2> QED
    BY <1>1, <2>2, SameCallSettles
<1>3. CASE NeedInput(t)
  <2>1. Goto(t, "input")
    BY <1>3 DEF NeedInput, At
  <2> QED
    BY <1>1, <2>1, LoopJumps
<1> QED
  BY <1>2, <1>3

\* A call that is held for an approval, or refused.
LEMMA HoldSettles ==
  ASSUME Ready, NEW t \in Tasks, Hold(t), task[t].kind = "loop"
  PROVE  Settling'
<1>1. CallStep(t) /\ task[t].pc = "advance" /\ UNCHANGED <<run, ckpt>>
  BY DEF CallStep, Hold, At
<1>2. /\ Of(t) \in Runs /\ calls \in [Runs -> [CallIds -> Call]] /\ task[t].call \in CallIds
  BY <1>1, LoopCall
<1>3. PICK status \in {"awaiting_approval", "failed"} :
        /\ calls' = [calls EXCEPT ![Of(t)][task[t].call].status = status]
        /\ \E next \in AfterCall(t, task[t].call, [calls[Of(t)][task[t].call] EXCEPT !.status = status]) :
             task' = [task EXCEPT ![t] = next]
  BY DEF Hold
<1> DEFINE c == task[t].call
           e == [calls[Of(t)][c] EXCEPT !.status = status]
<1>4. calls' = [calls EXCEPT ![Of(t)][c] = e]
  BY <1>2, <1>3
<1>5. e.status # "running"
  BY <1>2 DEF Call
<1>6. c \in CallIds
  BY <1>2
<1>7. \E next \in AfterCall(t, c, e) : task' = [task EXCEPT ![t] = next]
  BY <1>3
<1> HIDE DEF c, e
<1> QED
  BY <1>1, <1>4, <1>5, <1>6, <1>7, BatchGoesOn

\* A call that is sent, and a call somebody else has moved.
LEMMA SendSettles ==
  ASSUME Ready, NEW t \in Tasks, Execute(t) \/ AdvanceConflict(t) \/ Send(t), task[t].kind = "loop"
  PROVE  Settling'
<1>1. CallStep(t) /\ task[t].pc \in {"advance", "send"} /\ UNCHANGED <<run, ckpt>>
  BY DEF CallStep, Execute, AdvanceConflict, Send, At
<1>2. /\ task \in [Tasks -> Task] /\ task[t] \in Task /\ Of(t) = task[t].run /\ Of(t) \in Runs
      /\ calls \in [Runs -> [CallIds -> Call]] /\ task[t].call \in CallIds
      /\ run[Of(t)].kind = "model" => LoopKnows(task[t], ckpt[Of(t)], calls[Of(t)])
  BY <1>1, LoopCall
<1> DEFINE c == task[t].call
<1>3. ASSUME NEW e, NEW y, task' = [task EXCEPT ![t] = y],
             calls' = [calls EXCEPT ![Of(t)][c] = e],
             e.status = "running" \/ e.status = calls[Of(t)][c].status,
             e.status = calls[Of(t)][c].status =>
               e.result = calls[Of(t)][c].result /\ e.verified = calls[Of(t)][c].verified,
             y.kind = "loop", y.run = task[t].run, y.owed = task[t].owed,
             y.call = c, y.pc \in FlightPcs
      PROVE  Settling'
  <2>1. /\ \A s \in Runs \ {Of(t)} : calls'[s] = calls[s]
        /\ \A d \in CallIds : calls'[Of(t)][d] = IF d = c THEN e ELSE calls[Of(t)][d]
    BY <1>2, <1>3
  <2>2. /\ SentCalls(calls'[Of(t)]) \subseteq SentCalls(calls[Of(t)]) \cup {c}
        /\ Unread(calls'[Of(t)]) \subseteq Unread(calls[Of(t)])
    BY <1>2, <1>3, <2>1 DEF SentCalls, Unread
  <2>3. ASSUME run[Of(t)].kind = "model"
        PROVE  /\ CheckpointKnows(ckpt[Of(t)], calls'[Of(t)])
               /\ LoopKnows(y, ckpt[Of(t)], calls'[Of(t)])
    <3>1. /\ Recounts(ckpt[Of(t)]) /\ SentCalls(calls[Of(t)]) \subseteq {c}
          /\ Unread(calls[Of(t)]) \subseteq task[t].owed
      BY <1>1, <1>2, <2>3 DEF LoopKnows, KnowingPcs, FlightPcs
    <3>2. SentCalls(calls'[Of(t)]) \subseteq {y.call} /\ Unread(calls'[Of(t)]) \subseteq y.owed
      BY <1>3, <2>2, <3>1
    <3> QED
      BY <1>3, <3>1, <3>2 DEF CheckpointKnows, LoopKnows, KnowingPcs, ClearPcs, FlightPcs
  <2> QED
    BY <1>1, <1>2, <1>3, <2>1, <2>3, LoopSettles
<1>4. CASE Execute(t)
  <2> DEFINE y == [task[t] EXCEPT !.pc = "send"]
             e == [calls[Of(t)][c] EXCEPT !.status = "running"]
  <2>1. task' = [task EXCEPT ![t] = y] /\ calls' = [calls EXCEPT ![Of(t)][c] = e]
    BY <1>2, <1>4 DEF Execute, Goto
  <2>2. /\ y.kind = "loop" /\ y.run = task[t].run /\ y.owed = task[t].owed /\ y.call = c
        /\ y.pc \in FlightPcs
    BY <1>2 DEF Task, FlightPcs
  <2>3. /\ e.status = "running" /\ e.result = calls[Of(t)][c].result
        /\ e.verified = calls[Of(t)][c].verified
    BY <1>2 DEF Call
  <2> HIDE DEF y, e, c
  <2> QED
    BY <1>3, <2>1, <2>2, <2>3
<1>5. CASE AdvanceConflict(t)
  <2>1. Goto(t, "fail") /\ UNCHANGED <<run, ckpt, calls>>
    BY <1>5 DEF AdvanceConflict, Recovery
  <2>2. "fail" \notin AwarePcs
    BY DEF AwarePcs, KnowingPcs, ClearPcs, FlightPcs
  <2> QED
    BY <1>1, <2>1, <2>2, LoopJumps
<1>6. CASE Send(t)
  <2>1. PICK answer, e :
          /\ task' = [task EXCEPT ![t].pc = "answer", ![t].answer = answer]
          /\ calls' = [calls EXCEPT ![Of(t)][c] = e]
          /\ e.status = calls[Of(t)][c].status
          /\ e.result = calls[Of(t)][c].result /\ e.verified = calls[Of(t)][c].verified
    <3>1. CASE UNCHANGED calls
      <4>1. calls' = [calls EXCEPT ![Of(t)][c] = calls[Of(t)][c]]
        BY <1>2, <3>1
      <4>2. \E answer : task' = [task EXCEPT ![t].pc = "answer", ![t].answer = answer]
        BY <1>6 DEF Send
      <4> QED
        BY <4>1, <4>2
    <3>2. CASE ~UNCHANGED calls
      <4> DEFINE e == [calls[Of(t)][c] EXCEPT !.effects = @ + 1]
      <4>1. calls' = [calls EXCEPT ![Of(t)][c] = e]
        <5>1. calls' = [calls EXCEPT ![Of(t)][c].effects = @ + 1]
          BY <1>6, <3>2 DEF Send
        <5> QED
          BY <1>2, <5>1
      <4>2. \E answer : task' = [task EXCEPT ![t].pc = "answer", ![t].answer = answer]
        BY <1>6 DEF Send
      <4>3. /\ e.status = calls[Of(t)][c].status
            /\ e.result = calls[Of(t)][c].result /\ e.verified = calls[Of(t)][c].verified
        BY <1>2 DEF Call
      <4> HIDE DEF e
      <4> QED
        BY <4>1, <4>2, <4>3
    <3> QED
      BY <3>1, <3>2
  <2> DEFINE y == [task[t] EXCEPT !.pc = "answer", !.answer = answer]
  <2>2. task' = [task EXCEPT ![t] = y]
    BY <1>2, <2>1
  <2>3. /\ y.kind = "loop" /\ y.run = task[t].run /\ y.owed = task[t].owed /\ y.call = c
        /\ y.pc \in FlightPcs
    BY <1>2 DEF Task, FlightPcs
  <2> HIDE DEF y, c
  <2> QED
    BY <1>3, <2>1, <2>2, <2>3
<1> QED
  BY <1>4, <1>5, <1>6

\* The answer to a call of a loop.
LEMMA ReceiveSettles ==
  ASSUME Ready, NEW t \in Tasks, Receive(t) \/ ReceiveCanceled(t), task[t].kind = "loop"
  PROVE  Settling'
<1>1. CallStep(t) /\ task[t].pc = "answer" /\ UNCHANGED <<run, ckpt>>
  BY DEF CallStep, Receive, ReceiveCanceled, At
<1>2. /\ Of(t) \in Runs /\ calls \in [Runs -> [CallIds -> Call]] /\ task[t].call \in CallIds
  BY <1>1, LoopCall
<1>3. CASE Receive(t)
  <2> DEFINE c == task[t].call
  <2>1. PICK status \in {"succeeded", "awaiting_approval", "failed"}, result \in CallResults :
          /\ calls' = [calls EXCEPT ![Of(t)][c] =
               [calls[Of(t)][c] EXCEPT !.status = status, !.result = result]]
          /\ \E next \in AfterCall(t, c,
               [calls[Of(t)][c] EXCEPT !.status = status, !.result = result]) :
                 task' = [task EXCEPT ![t] = next]
    <3> DEFINE status == CASE task[t].answer = "ok"   -> "succeeded"
                           [] task[t].answer = "gate" -> "awaiting_approval"
                           [] OTHER -> "failed"
    <3>1. PICK result \in IF status # "succeeded" THEN {"none"}
                          ELSE IF calls[Of(t)][c].write THEN {"verify", "blind", "done"}
                          ELSE {"done"} :
            /\ calls' = [calls EXCEPT ![Of(t)][c] =
                 [calls[Of(t)][c] EXCEPT !.status = status, !.result = result]]
            /\ \E next \in AfterCall(t, c,
                 [calls[Of(t)][c] EXCEPT !.status = status, !.result = result]) :
                   task' = [task EXCEPT ![t] = next]
      BY <1>3 DEF Receive
    <3>2. status \in {"succeeded", "awaiting_approval", "failed"}
      OBVIOUS
    <3>3. result \in CallResults
      BY DEF CallResults
    <3> HIDE DEF status
    <3> QED
      BY <3>1, <3>2, <3>3
  <2> DEFINE e == [calls[Of(t)][c] EXCEPT !.status = status, !.result = result]
  <2>2. calls' = [calls EXCEPT ![Of(t)][c] = e]
    BY <2>1
  <2>3. \E next \in AfterCall(t, c, e) : task' = [task EXCEPT ![t] = next]
    BY <2>1
  <2>4. e.status # "running"
    BY <1>2 DEF Call
  <2>5. c \in CallIds
    BY <1>2
  <2>6. task[t].pc = "answer" => c = task[t].call
    OBVIOUS
  <2> HIDE DEF e, c
  <2> QED
    BY <1>1, <2>2, <2>3, <2>4, <2>5, <2>6, BatchGoesOn
<1>4. CASE ReceiveCanceled(t)
  <2>1. calls[Of(t)][task[t].call].status # "running" /\ UNCHANGED calls
    BY <1>4 DEF ReceiveCanceled
  <2>2. CASE \E next \in AfterCall(t, task[t].call, calls[Of(t)][task[t].call]) :
               task' = [task EXCEPT ![t] = next]
    BY <1>1, <1>2, <2>1, <2>2, SameCallSettles
  <2>3. CASE Goto(t, Recovery(t))
    <3>1. Goto(t, "fail")
      BY <2>3 DEF Recovery
    <3>2. "fail" \notin AwarePcs
      BY DEF AwarePcs, KnowingPcs, ClearPcs, FlightPcs
    <3> QED
      BY <1>1, <2>1, <3>1, <3>2, LoopJumps
  <2> QED
    BY <1>4, <2>2, <2>3 DEF ReceiveCanceled
<1> QED
  BY <1>3, <1>4

LEMMA CallSettles ==
  ASSUME Ready, NEW t \in Tasks, CallStep(t)
  PROVE  Settling'
<1>1. CASE task[t].kind # "loop"
  BY <1>1, RequestCallSettles
<1>2. CASE task[t].kind = "loop"
  BY <1>2, ProposeSettles, ReuseSettles, HoldSettles, SendSettles, ReceiveSettles DEF CallStep
<1> QED
  BY <1>1, <1>2

LEMMA NextSettles ==
  ASSUME Ready, [Next]_vars
  PROVE  Settling'
<1>1. CASE UNCHANGED vars
  <2>1. UNCHANGED <<run, ckpt, calls, task>>
    BY <1>1 DEF vars
  <2>2. \A u \in Tasks : TaskKeeps(u)
    BY <2>1, SameTask
  <2>3. \A s \in Runs : RowKeeps(s) /\ CheckpointKeeps(s) /\ CallsKeep(s)
    BY <2>1, SameRun
  <2> QED
    BY <2>2, <2>3, AllKeep
<1>2. CASE Next
  BY <1>2, RequestSettles, RequestStepSettles, ClaimSettles, LoopStepSettles, TimeoutSettles,
     CallSettles, OutageSettles, ProcessSettles DEF Next
<1> QED
  BY <1>1, <1>2

\* A run completes only when its loop has read everything back.
SettleInv == SteadyInv /\ Settling

LEMMA InitSettle == Init => SettleInv
<1> SUFFICES ASSUME Init
             PROVE  SettleInv
  OBVIOUS
<1>1. ASSUME NEW r \in Runs
      PROVE  RunSettled(r)
  <2>1. run[r] = NoRow /\ ckpt[r] = NoCheckpoint /\ \A c \in CallIds : calls[r][c] = NoCall
    BY DEF Init
  <2>2. SentCalls(calls[r]) = {} /\ Unread(calls[r]) = {}
    BY <2>1 DEF SentCalls, Unread, NoCall
  <2>3. \A t \in Tasks : task[t].kind = "idle"
    BY DEF Init, Idle
  <2> QED
    BY <2>1, <2>2, <2>3 DEF RunSettled, CheckpointKnows, Approves, NoRow
<1> QED
  BY <1>1, InitSteady DEF SettleInv, Settling

LEMMA SettleStep == NoRivals /\ SettleInv /\ [Next]_vars => SettleInv'
<1> SUFFICES ASSUME NoRivals, SettleInv, [Next]_vars
             PROVE  SettleInv'
  OBVIOUS
<1>1. Good /\ Kept
  BY NextKept DEF SettleInv, SteadyInv
<1>2. Ready
  BY <1>1 DEF SettleInv, SteadyInv, Ready
<1> QED
  BY <1>2, NextSettles, SteadyInvStep DEF SettleInv

\* A completed model run has no call under way and no accepted write that was not
\* read back, however its loops were cut short by approvals, or by crashes and
\* restarts, at any of their steps, unless approvals meet a restart, where the
\* executor may get a rival.
THEOREM Settled == ASSUME NoRivals PROVE Spec => []CompletedMeansSettled
<1>1. SettleInv => CompletedMeansSettled
  <2> SUFFICES ASSUME SettleInv, NEW r \in Runs, run[r].status = "completed",
                      run[r].kind = "model", NEW c \in CallIds
               PROVE  /\ calls[r][c].status # "running"
                      /\ calls[r][c].result = "verify" => calls[r][c].verified
    BY DEF CompletedMeansSettled
  <2>1. SentCalls(calls[r]) = {} /\ Unread(calls[r]) = {}
    BY DEF SettleInv, Settling, RunSettled
  <2>2. CallOK(calls[r][c]) /\ calls[r][c] \in Call
    BY DEF SettleInv, SteadyInv, Inv, CallsOK, TypeOK
  <2> QED
    BY <2>1, <2>2 DEF SentCalls, Unread, CallOK, Call
<1>2. NoRivals
  OBVIOUS
<1> QED
  BY <1>1, <1>2, InitSettle, SettleStep, PTL DEF Spec
=============================================================================
