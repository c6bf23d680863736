---------------------------- MODULE MCTimescaleSetup ----------------------------
(* Instances of TimescaleSetup for TLC: three executions, two intervals.    *)
EXTENDS TimescaleSetup, TLC

Interchangeable == Permutations(Run)
=============================================================================
