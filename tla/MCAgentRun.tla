----------------------------- MODULE MCAgentRun -----------------------------
(***************************************************************************)
(* Small instances of AgentRun for TLC.                                    *)
(***************************************************************************)
EXTENDS AgentRun, TLC

\* Operations of the platform: one that only reads, a write, a gated write.
Read       == [write |-> FALSE, gated |-> FALSE]
Write      == [write |-> TRUE,  gated |-> FALSE]
GatedWrite == [write |-> TRUE,  gated |-> TRUE]

OnlyWrites == {Write}
OnlyGated  == {GatedWrite}
AnyWrite   == {Write, GatedWrite}
AnyShape   == {Read, Write, GatedWrite}

Symmetry == Permutations(Executors) \cup Permutations(Requests) \cup Permutations(Runs)
=============================================================================
