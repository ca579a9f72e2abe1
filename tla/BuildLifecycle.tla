---------------------------- MODULE BuildLifecycle ----------------------------
(***************************************************************************)
(* What the builds promise to those who watch them: a build waits, it may  *)
(* run, and the first result written for it is its result.  A late writer  *)
(* cannot overwrite it (internal/model/delivery_failure.go), only a build  *)
(* that runs can succeed, and only a build that is over can be deleted.    *)
(* One step may move several builds: a newer build cancels the older ones. *)
(***************************************************************************)
CONSTANT Builds
VARIABLE state

Active   == {"queued", "running"}
Over     == {"succeeded", "failed", "canceled", "timeout"}
Statuses == {"none", "deleted"} \cup Active \cup Over

Moves(from, to) ==
  \/ from = "none" /\ to = "queued"
  \/ from = "queued" /\ to \in {"running", "failed", "canceled", "timeout"}
  \/ from = "running" /\ to \in Over
  \/ from \in Over /\ to = "deleted"

Init == state = [b \in Builds |-> "none"]

Next ==
  /\ state' \in [Builds -> Statuses]
  /\ \A b \in Builds : state'[b] = state[b] \/ Moves(state[b], state'[b])

Spec == Init /\ [][Next]_state
=============================================================================
