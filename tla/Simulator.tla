------------------------------- MODULE Simulator -------------------------------
(***************************************************************************)
(* The device simulator (simulator/): main_sim, run_loop, HttpSender and   *)
(* Reporter. Several executions may run at the same time, against one      *)
(* endpoint and into one log file, whose lines do not say which execution  *)
(* wrote them; an operator can interrupt each at any time.                 *)
(*                                                                         *)
(* A step is what an execution does between two moments at which something *)
(* outside of it happens: the endpoint takes a payload or answers, another *)
(* execution appends to the log, the operator interrupts.                  *)
(***************************************************************************)
EXTENDS Integers

CONSTANTS Run,      \* executions of run.py
          Config,   \* what the arguments and files amount to
          MaxSent   \* bound on the sends of a run without a positive count,
                    \* for TLC only

(* The number of payloads in the files or of devices named, --count,       *)
(* --mode, and whether --log was given. Any integer passes as a count.     *)
ASSUME SimulatorAssumption ==
    /\ Config \subseteq [tasks : Nat, count : Int, mode : {"http", "mqtt"},
                         log : BOOLEAN]
    /\ MaxSent \in Nat \ {0}

VARIABLES config,   \* run -> its configuration
          pc,       \* run -> where it is
          i,        \* run -> the loop's own counter
          item,     \* run -> index of the payload it is sending, 0 when none
          stats,    \* run -> RunStats
          posted,   \* run -> payload -> times it was sent
          received, \* run -> payloads the endpoint has taken from it
          log       \* what a reader of the log file can count in it

vars == <<config, pc, i, item, stats, posted, received, log>>

Running == {"loop", "posting", "answered", "left"}
Stopped == {"done", "failed", "interrupted"}

(* What session.post ends with: the status code that was expected, another *)
(* one, or a RequestException. On a read timeout, or a connection that     *)
(* breaks, the endpoint may have taken the payload all the same.           *)
Outcome == {"expected", "other", "error"}

RunStats == [sent |-> 0, failed |-> 0, passed |-> 0, errors |-> 0]
NoLog    == [starts |-> 0, ends |-> 0,
             records |-> RunStats,   \* counted from the records of payloads
             totals |-> RunStats]    \* summed from the end records

Init ==
    /\ config \in [Run -> Config]
    /\ pc = [r \in Run |-> "idle"]
    /\ i = [r \in Run |-> 0]
    /\ item = [r \in Run |-> 0]
    /\ stats = [r \in Run |-> RunStats]
    /\ posted = [r \in Run |-> [k \in 1 .. config[r].tasks |-> 0]]
    /\ received = [r \in Run |-> 0]
    /\ log = NoLog

-----------------------------------------------------------------------------
Goto(r, place) == pc' = [pc EXCEPT ![r] = place]

total_tasks(r) == config[r].tasks * config[r].count

(* One line more in the log, if the execution writes one.                  *)
WriteLine(r, line) == log' = IF config[r].log THEN line ELSE log

start_report(r) == WriteLine(r, [log EXCEPT !.starts = @ + 1])

(* main_sim before the loop. A missing file raises, and so does MqttSender,*)
(* whose sample result lacks two fields of SendResult.                     *)
Start(r) ==
    /\ pc[r] = "idle"
    /\ \/ config[r].mode = "http" /\ Goto(r, "loop") /\ start_report(r)
       \/ Goto(r, "failed") /\ UNCHANGED log
    /\ UNCHANGED <<config, i, item, stats, posted, received>>

(* Mutated: the index runs past the last payload.                          *)
task_past_end(r) == (i[r] % (config[r].tasks + 1)) + 1

(* Mutated: the loop goes on with the payload it has answered for.         *)
task_by_passed(r) == (stats[r].passed % config[r].tasks) + 1

(* tasks[i % len(tasks)], counted from 1.                                  *)
task(r) == (i[r] % config[r].tasks) + 1

(* The payload goes out; without any the remainder raises.                 *)
Post(r) ==
    /\ pc[r] = "loop"
    /\ config[r].count <= 0 => stats[r].sent < MaxSent
    /\ \/ /\ config[r].tasks = 0
          /\ Goto(r, "failed")
          /\ UNCHANGED <<item, posted>>
       \/ /\ config[r].tasks > 0
          /\ Goto(r, "posting")
          /\ item' = [item EXCEPT ![r] = task(r)]
          /\ posted' = [posted EXCEPT ![r][task(r)] = @ + 1]
    /\ UNCHANGED <<config, i, stats, received, log>>

(* Mutated: a payload without an answer is neither passed nor failed.      *)
tally_skips_errors(s, outcome) ==
    [sent   |-> s.sent + 1,
     passed |-> IF outcome = "expected" THEN s.passed + 1 ELSE s.passed,
     failed |-> IF outcome = "other" THEN s.failed + 1 ELSE s.failed,
     errors |-> IF outcome = "error" THEN s.errors + 1 ELSE s.errors]

(* The counters after one result: an error has no code, so it also fails.  *)
tally(s, outcome) ==
    [sent   |-> s.sent + 1,
     passed |-> IF outcome = "expected" THEN s.passed + 1 ELSE s.passed,
     failed |-> IF outcome = "expected" THEN s.failed ELSE s.failed + 1,
     errors |-> IF outcome = "error" THEN s.errors + 1 ELSE s.errors]

report(r, outcome) == WriteLine(r, [log EXCEPT !.records = tally(@, outcome)])

(* The endpoint has taken the payload, or not. It sends the expected code  *)
(* only for one it has taken.                                              *)
Answer(r, outcome, taken) ==
    /\ pc[r] = "posting"
    /\ outcome = "expected" => taken
    /\ Goto(r, "answered")
    /\ stats' = [stats EXCEPT ![r] = tally(@, outcome)]
    /\ received' = [received EXCEPT ![r] = IF taken THEN @ + 1 ELSE @]
    /\ report(r, outcome)
    /\ UNCHANGED <<config, i, item, posted>>

(* Mutated: only the exact total ends the loop.                            *)
IsLastAtTotal(r) == config[r].count # 0 /\ stats[r].sent = total_tasks(r)

(* The loop ends after the total; a negative total is passed at once.      *)
IsLast(r) == config[r].count # 0 /\ stats[r].sent >= total_tasks(r)

(* The end of the loop's body, with the pause before the next payload.     *)
Continue(r) ==
    /\ pc[r] = "answered"
    /\ item' = [item EXCEPT ![r] = 0]
    /\ \/ IsLast(r) /\ Goto(r, "left") /\ UNCHANGED i
       \/ ~IsLast(r) /\ Goto(r, "loop") /\ i' = [i EXCEPT ![r] = @ + 1]
    /\ UNCHANGED <<config, stats, posted, received, log>>

(* Mutated: the total reported is that of the payloads that passed.        *)
end_report_passed(r) ==
    WriteLine(r, [log EXCEPT !.ends = @ + 1,
                             !.totals = [f \in DOMAIN @ |->
                                 @[f] + stats[r][IF f = "sent" THEN "passed" ELSE f]]])

end_report(r) ==
    WriteLine(r, [log EXCEPT !.ends = @ + 1,
                             !.totals = [f \in DOMAIN @ |-> @[f] + stats[r][f]]])

End(r) ==
    /\ pc[r] = "left"
    /\ Goto(r, "done")
    /\ end_report(r)
    /\ UNCHANGED <<config, i, item, stats, posted, received>>

(* Ctrl-C: nothing catches it, so no end record is written. The payload in *)
(* flight may be taken.                                                    *)
Interrupt(r, taken) ==
    /\ pc[r] \in Running
    /\ taken => pc[r] = "posting"
    /\ Goto(r, "interrupted")
    /\ received' = [received EXCEPT ![r] = IF taken THEN @ + 1 ELSE @]
    /\ UNCHANGED <<config, i, item, stats, posted, log>>

(* What an execution does by itself.                                       *)
Step(r) ==
    \/ Start(r)
    \/ Post(r)
    \/ \E outcome \in Outcome, taken \in BOOLEAN : Answer(r, outcome, taken)
    \/ Continue(r)
    \/ End(r)

Next ==
    \E r \in Run : \/ Step(r)
                   \/ \E taken \in BOOLEAN : Interrupt(r, taken)

Spec == Init /\ [][Next]_vars

(* Nothing in an execution waits for more than the endpoint, and that no   *)
(* longer than the timeout.                                                *)
FairSpec == Spec /\ \A r \in Run : WF_vars(Step(r))

-----------------------------------------------------------------------------
Stats == [sent : Nat, failed : Nat, passed : Nat, errors : Nat]

(* The shape of the recorded state.                                        *)
TypeOK ==
    /\ config \in [Run -> Config]
    /\ pc \in [Run -> {"idle"} \cup Running \cup Stopped]
    /\ i \in [Run -> Nat]
    /\ \A r \in Run : item[r] \in 0 .. config[r].tasks
    /\ stats \in [Run -> Stats]
    /\ DOMAIN posted = Run
    /\ \A r \in Run : posted[r] \in [1 .. config[r].tasks -> Nat]
    /\ received \in [Run -> Nat]
    /\ log \in [starts : Nat, ends : Nat, records : Stats, totals : Stats]

(* Whatever mixture of answers and errors comes back, the payloads take    *)
(* turns, and an execution that ends has sent each as often as --count     *)
(* says, or, when that is negative, the first one once and no other.       *)
TakeTurns ==
    \A r \in Run : \A j, k \in DOMAIN posted[r] :
        /\ j <= k => posted[r][k] \in {posted[r][j], posted[r][j] - 1}
        /\ pc[r] = "done" /\ config[r].count > 0 => posted[r][k] = config[r].count
        /\ pc[r] = "done" /\ config[r].count < 0 => posted[r][k] = IF k = 1 THEN 1 ELSE 0

(* Each send is passed or failed; a send without an answer has failed, and *)
(* one that passed was taken by the endpoint, which has taken no more than *)
(* was sent; an interrupt may leave one more that it never counted.        *)
AccountsAgree ==
    \A r \in Run :
        LET s == stats[r]
            inFlight == IF pc[r] = "interrupted" THEN 1 ELSE 0
        IN /\ s.passed + s.failed = s.sent
           /\ s.errors <= s.failed
           /\ s.passed <= received[r]
           /\ received[r] <= s.sent + inFlight

(* A log file that several executions have appended to, some of which were *)
(* interrupted or failed: if it holds as many end records as start records,*)
(* the end records add up to the records of payloads.                      *)
LogBalances == log.starts = log.ends => log.totals = log.records

(* An execution with a count comes to an end, a negative count included.   *)
FiniteRunsEnd ==
    \A r \in Run : (pc[r] = "idle" /\ config[r].count # 0) ~> pc[r] \in Stopped
=============================================================================
