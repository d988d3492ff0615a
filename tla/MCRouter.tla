------------------------------ MODULE MCRouter ------------------------------
(* Instances of Router for TLC.                                                *)
EXTENDS Router, TLC

\* Neither requests nor replicas are told apart by the router.
RequestSymmetry == Permutations(Requests)
Symmetry == Permutations(Requests) \cup Permutations(Replicas)

=============================================================================
