------------------------------ MODULE MCSimulator ------------------------------
(* Instances of Simulator for TLC: two executions into one log file.        *)
EXTENDS Simulator

Configuration(tasks, count) ==
    [tasks |-> tasks, count |-> count, mode |-> "http", log |-> TRUE]

MCConfig ==
    {Configuration(2, 1), Configuration(1, 2), Configuration(2, 0),
     Configuration(2, -1), Configuration(0, 1),
     [Configuration(1, 1) EXCEPT !.log = FALSE],
     [Configuration(1, 1) EXCEPT !.mode = "mqtt"]}
=============================================================================
