---------------------------- MODULE RunLifecycle ----------------------------
(***************************************************************************)
(* What the rest of the platform may rely on about a run of luna-agent: the*)
(* status graph of ai.runs, one version per move, no way out of a terminal *)
(* status, and a bounded number of returns to the queue after a restart.   *)
(*                                                                         *)
(* Nothing is said here about who moves a run or when; AgentRun does, and  *)
(* implements this module.                                                 *)
(***************************************************************************)
EXTENDS RunStore

CONSTANTS Runs, MaxRecoveries

VARIABLES run, requeues

vars == <<run, requeues>>

\* The moves any updateRun, claim, cancel or recovery of the service makes.
Successors(status) ==
  CASE status = "queued"           -> {"running", "failed", "canceled"}
    [] status = "running"          -> {"queued", "completed", "failed", "canceled", "interrupted"} \cup Parked
    [] status = "waiting_approval" -> {"running", "queued", "canceled"}
    [] status = "waiting_input"    -> {"queued", "canceled"}
    [] OTHER                       -> {}

Init ==
  /\ run = [r \in Runs |-> NoRow]
  /\ requeues = [r \in Runs |-> 0]

Create(r) ==
  /\ run[r] = NoRow
  /\ \E kind \in RunKindNames : run' = [run EXCEPT ![r] = NewRow(kind)]
  /\ UNCHANGED requeues

Move(r) ==
  /\ \E to \in Successors(run[r].status) : run' = [run EXCEPT ![r] = Moved(@, to)]
  /\ UNCHANGED requeues

\* A restart found the run running and gives it one more try.
Recover(r) ==
  /\ run[r].status = "running" /\ requeues[r] < MaxRecoveries
  /\ run' = [run EXCEPT ![r] = Moved(@, "queued")]
  /\ requeues' = [requeues EXCEPT ![r] = @ + 1]

Next == \E r \in Runs : Create(r) \/ Move(r) \/ Recover(r)

Spec == Init /\ [][Next]_vars
=============================================================================
