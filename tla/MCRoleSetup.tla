------------------------------ MODULE MCRoleSetup ------------------------------
(* Instances of RoleSetup for TLC: the real permissions, overlapping runs.  *)
EXTENDS RoleSetup, TLC

CONSTANTS admin, operator, viewer

Distinct == [Operators |-> operator, Viewers |-> viewer]
Shared   == [Operators |-> admin, Viewers |-> admin]

Environments == {Distinct, Shared}

NoTelemetry == {p \in Perm : p[2] # "Telemetry"}
Interchangeable == Permutations(Run)
=============================================================================
