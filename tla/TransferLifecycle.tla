--------------------------- MODULE TransferLifecycle ---------------------------
(***************************************************************************)
(* What a volume transfer promises to those who watch it: the transition   *)
(* table of internal/volume/state.go, and that a cleanup marker is set     *)
(* once, on a transfer that is over, and never taken back.                 *)
(***************************************************************************)
VARIABLES state, cleaned

vars == <<state, cleaned>>

Active   == {"preparing", "ready", "streaming"}
Failures == {"failed", "cancelled", "expired"}
Terminal == {"succeeded"} \cup Failures
States   == {"none"} \cup Active \cup Terminal

\* CanTransitionVolumeTransfer; "created" is a state no transfer is created in.
CanTransition(from, to) ==
  \/ from = to
  \/ from = "preparing" /\ to \in {"ready"} \cup Failures
  \/ from = "ready"     /\ to \in {"streaming"} \cup Failures
  \/ from = "streaming" /\ to \in {"succeeded", "failed", "cancelled"}

Init == state = "none" /\ cleaned = FALSE

Create == state = "none" /\ state' = "preparing" /\ UNCHANGED cleaned

Advance == /\ state \in Active
           /\ \E to \in States \ {"none"} : CanTransition(state, to) /\ state' = to
           /\ UNCHANGED cleaned

Clean == state \in Terminal /\ cleaned' = TRUE /\ UNCHANGED state

Next == Create \/ Advance \/ Clean

Spec == Init /\ [][Next]_vars
=============================================================================
