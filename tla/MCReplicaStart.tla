--------------------------- MODULE MCReplicaStart ---------------------------
(* Instances of ReplicaStart for TLC. *)
EXTENDS ReplicaStart, TLC

\* Every ServePilot process runs the same code.
PilotSymmetry == Permutations(Pilots)

=============================================================================
