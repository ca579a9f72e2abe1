------------------------------ MODULE RunStore ------------------------------
(***************************************************************************)
(* The rows PostgreSQL keeps for a run of the luna-agent service, and what *)
(* the repository's conditional updates do to one row.                     *)
(* Source: luna-agent/src/domain.ts, luna-agent/src/persistence/postgres.ts*)
(*                                                                         *)
(* Every operator here is about ONE row and has no state of its own, so    *)
(* that AgentRun (who writes the rows, and when) and RunLifecycle (which   *)
(* histories of a row are legal) speak about the same thing.               *)
(*                                                                         *)
(* Left out: ai.turns.status, which every one of these transactions sets   *)
(* to the new status of the run, timestamps, error codes and the event     *)
(* each transition appends.                                                *)
(***************************************************************************)
EXTENDS Naturals

\* The statuses after which a run is never touched again: the list in
\* cancelRun's where clause, in finalize.ts and in server.ts.
Terminal == {"completed", "failed", "canceled", "expired", "interrupted"}

\* The statuses in which somebody outside the agent has to act.
Parked == {"waiting_approval", "waiting_input"}

\* "absent" stands for a run that no request has created yet.
Statuses == {"absent", "queued", "running"} \cup Parked \cup Terminal

RunKindNames == {"model", "direct"}

Row == [status : Statuses, version : Nat, kind : RunKindNames]

NoRow == [status |-> "absent", version |-> 0, kind |-> "model"]

\* createTurn: the row is inserted queued, row_version 1.
NewRow(kind) == [status |-> "queued", version |-> 1, kind |-> kind]

\* Every update of ai.runs.status also bumps row_version.
Moved(row, to) == [row EXCEPT !.status = to, !.version = @ + 1]

IsTerminal(row) == row.status \in Terminal

\* countActiveUserRuns counts the statuses queued and running.
IsActive(row) == row.status \in {"queued", "running"}

-----------------------------------------------------------------------------
(* ai.run_checkpoints: one row per run, revision 0 when there is none.     *)

Phases == {"model", "tool_execution", "verification", "awaiting_input",
           "awaiting_approval", "waiting_external", "finalizing"}

Plans == {"model", "settle", "await", "verify", "finalize"}

\* Mutant of ResumePlan: the phase is taken for the plan.
ResumePlanIsPhase(cp) == IF cp.rev = 0 THEN "model" ELSE cp.phase

\* resumePlan: what a loop does first with the checkpoint it finds.
ResumePlan(cp) ==
  IF cp.rev = 0 THEN "model"
  ELSE CASE cp.phase \in {"model", "awaiting_input"} -> "model"
         [] cp.phase = "awaiting_approval" -> IF cp.pending = 0 THEN "settle" ELSE "await"
         [] cp.phase = "tool_execution" -> "settle"
         [] cp.phase \in {"verification", "waiting_external"} -> "verify"
         [] cp.phase = "finalizing" -> "finalize"

\* saveRunCheckpoint with expectedRevision = rev: the upsert writes when there
\* is no row or the stored revision is rev ...
SaveStores(cp, rev) == cp.rev \in {0, rev}

\* ... a row that is already at rev + 1 is returned as if it were the caller's
\* own write, without being changed ...
SaveReplays(cp, rev) == ~SaveStores(cp, rev) /\ cp.rev = rev + 1

\* ... and any other revision is a RunCheckpointConflictError.
SaveConflicts(cp, rev) == ~SaveStores(cp, rev) /\ ~SaveReplays(cp, rev)

\* What the row holds after the save: the upsert does not list "recoveries".
AfterSave(cp, rev, next) ==
  IF SaveStores(cp, rev) THEN [next EXCEPT !.recoveries = cp.recoveries] ELSE cp

-----------------------------------------------------------------------------
(* ai.tool_calls.                                                          *)

CallStatuses == {"absent", "proposed", "awaiting_approval", "running",
                 "succeeded", "failed", "rejected", "canceled"}

\* The statuses cancelRun leaves alone.
CallSettled == {"succeeded", "failed", "rejected", "canceled"}

\* propose returns a call of the same logical key in one of these as it is.
CallReusable == {"proposed", "running", "awaiting_approval", "succeeded"}

\* toolOutcome of an accepted call: "verify" when the result gives a plan to
\* read it back, "blind" when a write was accepted and there is no such plan,
\* "done" when nothing has to be read back (a read, or a command with its result).
CallResults == {"none", "done", "verify", "blind"}

\* trackOutcome: a write that is not known to have succeeded blocks completion
\* under its idempotency key, and one that is accepted with a plan clears it.
Tracked(blocked, call) ==
  IF ~call.write \/ call.status \notin {"succeeded", "failed", "proposed", "running"}
  THEN blocked
  ELSE IF call.status = "succeeded" /\ call.result # "blind"
       THEN blocked \ {call.key}
       ELSE blocked \cup {call.key}
=============================================================================
