---------------------------- MODULE MCDeployment ----------------------------
(* Instances of Deployment for TLC. *)
EXTENDS Deployment, TLC

\* Every serve process runs the same code.
DeploymentSymmetry == Permutations(Deployments)

=============================================================================
