---------------------------- MODULE MCDeployment ----------------------------
(* One service, and two migrates that may run at once.                     *)
EXTENDS Deployment, TLC

Interchangeable == Permutations(Migrator)
=============================================================================
