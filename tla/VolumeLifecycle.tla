--------------------------- MODULE VolumeLifecycle ---------------------------
(***************************************************************************)
(* What a project volume promises about its lifecycle_state: the           *)
(* transition table of internal/volume/state.go.  A managed volume is      *)
(* created provisioning and its row is given up only while deleting.       *)
(***************************************************************************)
CONSTANT Volumes
VARIABLE state

States == {"absent", "provisioning", "ready", "deleting", "error", "deleted"}

\* CanTransitionProjectVolume
CanTransition(from, to) ==
  \/ from = to
  \/ to \in CASE from = "provisioning" -> {"ready", "error", "deleting"}
              [] from = "ready"        -> {"error", "deleting"}
              [] from = "error"        -> {"provisioning", "deleting"}
              [] from = "deleting"     -> {"error"}
              [] OTHER                 -> {}

Init == state = [v \in Volumes |-> "absent"]

Create(v) == state[v] = "absent" /\ state' = [state EXCEPT ![v] = "provisioning"]

Move(v, to) ==
  /\ state[v] \notin {"absent", "deleted"}
  /\ CanTransition(state[v], to)
  /\ state' = [state EXCEPT ![v] = to]

GiveUp(v) == state[v] = "deleting" /\ state' = [state EXCEPT ![v] = "deleted"]

Next == \E v \in Volumes : \/ Create(v)
                           \/ \E to \in States : Move(v, to)
                           \/ GiveUp(v)

Spec == Init /\ [][Next]_state
=============================================================================
