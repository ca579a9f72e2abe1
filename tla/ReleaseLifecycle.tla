--------------------------- MODULE ReleaseLifecycle ---------------------------
(***************************************************************************)
(* What the releases of a deployment target promise: a release waits, it   *)
(* runs, and the first result written for it is its result, whoever writes *)
(* it: the worker, the sweep, a user or the request that could not queue   *)
(* it (finishDeployRelease, CancelRelease, markReleaseDispatchFailed).     *)
(***************************************************************************)
CONSTANT Releases
VARIABLE state

Waiting  == {"pending", "running"}
Results  == {"succeeded", "failed", "superseded", "canceled"}
Statuses == {"none"} \cup Waiting \cup Results

Moves(from, to) ==
  \/ from = "none" /\ to = "pending"
  \/ from = "pending" /\ to \in {"running", "failed", "canceled"}
  \/ from = "running" /\ to \in Results

Init == state = [r \in Releases |-> "none"]

Next == \E r \in Releases, to \in Statuses :
          Moves(state[r], to) /\ state' = [state EXCEPT ![r] = to]

Spec == Init /\ [][Next]_state
=============================================================================
