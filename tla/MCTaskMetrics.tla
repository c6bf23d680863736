----------------------------- MODULE MCTaskMetrics -----------------------------
(* Instances of TaskMetrics for TLC: three executions, two of one name.     *)
EXTENDS TaskMetrics

CONSTANTS t1, t2, t3, n1, n2

MCName   == {n1, n2}
MCTask   == {t1, t2, t3}
MCNameOf == [t \in MCTask |-> IF t = t3 THEN n2 ELSE n1]
=============================================================================
