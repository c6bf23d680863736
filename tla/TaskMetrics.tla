------------------------------ MODULE TaskMetrics ------------------------------
(***************************************************************************)
(* What the Celery worker records of its tasks: the signal handlers of     *)
(* backend/config/celery.py (metrics) and of backend/config/logging.py     *)
(* (logging context), driven by the executions of one worker process, and  *)
(* the scrape of /metrics/, which the web process answers.                 *)
(*                                                                         *)
(* The handlers keep the start of an execution in an attribute of the task *)
(* object. That object is one per task name and process, not one per       *)
(* execution: the executions of one name that overlap in a process share   *)
(* it. A worker process runs one execution at a time with the pool that    *)
(* docker-compose.yml starts (solo) and in a child of the prefork pool,    *)
(* and several, one in each Slot, with the gevent pool its comment         *)
(* proposes. In all three a handler runs without being interrupted, so a   *)
(* handler is one step; executions interleave between handlers.            *)
(***************************************************************************)
EXTENDS Integers, FiniteSets

CONSTANTS Task,       \* executions; a retry is another execution
          Name,       \* task names
          NameOf,     \* the name of each execution
          Slot,       \* places for executions in a worker process
          Null,
          MaxTime     \* bound of the clock, for TLC only

ASSUME TaskAssumption == /\ NameOf \in [Task -> Name]
                         /\ IsFiniteSet(Task)
                         /\ Null \notin Task \cup Int
                         /\ MaxTime \in Nat

VARIABLES pool,        \* --pool of the worker command: solo or gevent
          stage,       \* where each execution is
          outcome,     \* how it ended, as Celery reports it
          runs,        \* slot -> the execution in it
          start_time,  \* name -> task._start_time, or Null when it has none
          task_ctx,    \* slot -> task_id of the logging context
          tasks_total, \* process -> name -> status -> celery_tasks_total
          observed,    \* the duration each execution put in the histogram
          scraped,     \* the last sample of celery_tasks_total in Prometheus
          up,          \* the worker process exists
          now,
          began        \* history: when each execution began

vars == <<pool, stage, outcome, runs, start_time, task_ctx, tasks_total, observed,
          scraped, up, now, began>>

Pool    == {"solo", "gevent"}
Process == {"web", "worker"}
Status  == {"success", "failure"}
State   == {"SUCCESS", "FAILURE", "RETRY"}
Stage   == {"unsent", "queued", "running", "finished", "ended", "lost"}
Active  == {"running", "finished"}

NoCount == [n \in Name |-> [s \in Status |-> 0]]
NoTime  == [n \in Name |-> Null]
Nothing == [s \in Slot |-> Null]

Init ==
    /\ pool \in Pool
    /\ stage = [t \in Task |-> "unsent"]
    /\ outcome = [t \in Task |-> Null]
    /\ runs = Nothing
    /\ start_time = NoTime
    /\ task_ctx = Nothing
    /\ tasks_total = [p \in Process |-> NoCount]
    /\ observed = [t \in Task |-> Null]
    /\ scraped = NoCount
    /\ up = TRUE
    /\ now = 0
    /\ began = [t \in Task |-> Null]

-----------------------------------------------------------------------------
(* A producer puts the message of t on the Redis queue.                    *)
Send(t) ==
    /\ stage[t] = "unsent"
    /\ stage' = [stage EXCEPT ![t] = "queued"]
    /\ UNCHANGED <<pool, outcome, runs, start_time, task_ctx, tasks_total,
                   observed, scraped, up, now, began>>

(* Mutated: the first of several overlapping executions sets it.           *)
prerun_keeps_first(n) ==
    IF start_time[n] = Null THEN [start_time EXCEPT ![n] = now] ELSE start_time

(* The start an execution records on the task object of its name.          *)
task_prerun_handler(n) == [start_time EXCEPT ![n] = now]

(* Mutated: the pool runs as many executions as it has slots.              *)
HasSlot(s) == runs[s] = Null

HasRoom(s) ==
    /\ runs[s] = Null
    /\ pool = "solo" => runs = Nothing

(* A free slot takes t off the queue (Celery acknowledges it there) and    *)
(* both receivers of task_prerun run.                                      *)
Prerun(s, t) ==
    /\ up
    /\ HasRoom(s)
    /\ stage[t] = "queued"
    /\ stage' = [stage EXCEPT ![t] = "running"]
    /\ runs' = [runs EXCEPT ![s] = t]
    /\ start_time' = task_prerun_handler(NameOf[t])
    /\ task_ctx' = [task_ctx EXCEPT ![s] = t]
    /\ began' = [began EXCEPT ![t] = now]
    /\ UNCHANGED <<pool, outcome, tasks_total, observed, scraped, up, now>>

Count(n, status) ==
    tasks_total' = [tasks_total EXCEPT !["worker"][n][status] = @ + 1]

(* Mutated: a retry is counted as a failure too.                           *)
count_unsuccessful(n, state) ==
    \/ state # "SUCCESS" /\ Count(n, "failure")
    \/ state = "SUCCESS" /\ UNCHANGED tasks_total

task_failure_handler(n, state) ==
    \/ state = "FAILURE" /\ Count(n, "failure")
    \/ state # "FAILURE" /\ UNCHANGED tasks_total

(* The body returns or raises; task_failure_handler runs when it raised.   *)
Finish(s, state) ==
    LET t == runs[s] IN
    /\ t # Null
    /\ stage[t] = "running"
    /\ stage' = [stage EXCEPT ![t] = "finished"]
    /\ outcome' = [outcome EXCEPT ![t] = state]
    /\ task_failure_handler(NameOf[t], state)
    /\ UNCHANGED <<pool, runs, start_time, task_ctx, observed, scraped, up, now,
                   began>>

(* task_postrun_handler: the execution is counted, and its duration        *)
(* observed if the task object still has a start, which is then removed.   *)
Measure(t) ==
    LET n == NameOf[t] IN
    \/ /\ start_time[n] # Null
       /\ observed' = [observed EXCEPT ![t] = now - start_time[n]]
       /\ start_time' = [start_time EXCEPT ![n] = Null]
    \/ /\ start_time[n] = Null
       /\ UNCHANGED <<observed, start_time>>

(* Mutated: the logging context of a failed task is not cleared.           *)
clear_unless_failed(s) ==
    task_ctx' = [task_ctx EXCEPT ![s] = IF outcome[runs[s]] = "FAILURE" THEN @ ELSE Null]

clear_task_context(s) == task_ctx' = [task_ctx EXCEPT ![s] = Null]

(* Both receivers of task_postrun run, whatever the outcome was.           *)
Postrun(s) ==
    LET t == runs[s] IN
    /\ t # Null
    /\ stage[t] = "finished"
    /\ stage' = [stage EXCEPT ![t] = "ended"]
    /\ runs' = [runs EXCEPT ![s] = Null]
    /\ Count(NameOf[t], "success")
    /\ Measure(t)
    /\ clear_task_context(s)
    /\ UNCHANGED <<pool, outcome, scraped, up, now, began>>

(* The worker process dies: what it was running is lost (the messages were *)
(* acknowledged), and so is every counter and observation it held.         *)
Crash ==
    /\ up
    /\ up' = FALSE
    /\ stage' = [t \in Task |-> IF stage[t] \in {"unsent", "queued"}
                                THEN stage[t] ELSE "lost"]
    /\ runs' = Nothing
    /\ start_time' = NoTime
    /\ task_ctx' = Nothing
    /\ tasks_total' = [tasks_total EXCEPT !["worker"] = NoCount]
    /\ observed' = [t \in Task |-> Null]
    /\ UNCHANGED <<pool, outcome, scraped, now, began>>

(* An operator starts the worker again: the service has no restart policy. *)
Restart ==
    /\ ~up
    /\ up' = TRUE
    /\ UNCHANGED <<pool, stage, outcome, runs, start_time, task_ctx, tasks_total,
                   observed, scraped, now, began>>

(* Prometheus scrapes /metrics/: the registry of the process that answers. *)
Scrape ==
    /\ scraped' = tasks_total["web"]
    /\ UNCHANGED <<pool, stage, outcome, runs, start_time, task_ctx, tasks_total,
                   observed, up, now, began>>

Tick ==
    /\ now < MaxTime
    /\ now' = now + 1
    /\ UNCHANGED <<pool, stage, outcome, runs, start_time, task_ctx, tasks_total,
                   observed, scraped, up, began>>

Next ==
    \/ \E t \in Task : Send(t)
    \/ \E s \in Slot, t \in Task : Prerun(s, t)
    \/ \E s \in Slot, state \in State : Finish(s, state)
    \/ \E s \in Slot : Postrun(s)
    \/ Crash
    \/ Restart
    \/ Scrape
    \/ Tick

Spec == Init /\ [][Next]_vars

(* Prometheus keeps scraping while the web process serves.                 *)
FairSpec == Spec /\ WF_vars(Scrape)

-----------------------------------------------------------------------------
(* The shape of the recorded state.                                        *)
TypeOK ==
    /\ pool \in Pool
    /\ stage \in [Task -> Stage]
    /\ outcome \in [Task -> State \cup {Null}]
    /\ runs \in [Slot -> Task \cup {Null}]
    /\ start_time \in [Name -> Nat \cup {Null}]
    /\ task_ctx \in [Slot -> Task \cup {Null}]
    /\ tasks_total \in [Process -> [Name -> [Status -> Nat]]]
    /\ observed \in [Task -> Nat \cup {Null}]
    /\ scraped \in [Name -> [Status -> Nat]]
    /\ up \in BOOLEAN
    /\ now \in Nat
    /\ began \in [Task -> Nat \cup {Null}]

(* A log record of an execution names that execution, and a record written *)
(* between executions names none, through failures and restarts.           *)
ContextIsCurrent == task_ctx = runs

Ended(n)      == {t \in Task : NameOf[t] = n /\ stage[t] = "ended"}
Raised(n)     == {t \in Task : NameOf[t] = n /\ stage[t] \in {"finished", "ended"}
                               /\ outcome[t] = "FAILURE"}
Succeeded(n)  == {t \in Ended(n) : outcome[t] = "SUCCESS"}
Worker(n, s)  == tasks_total["worker"][n][s]

(* celery_tasks_total of the worker: "failure" counts exactly the          *)
(* executions that raised in this process, "success" no more than those    *)
(* that ended and no fewer than those that succeeded.                      *)
CountersAgree ==
    \A n \in Name :
        /\ Worker(n, "failure") = Cardinality(Raised(n))
        /\ Worker(n, "success") <= Cardinality(Ended(n))
        /\ Cardinality(Succeeded(n)) <= Worker(n, "success")

(* What docs/observability/metrics.md promises of the label: "success"     *)
(* counts the executions that succeeded.                                   *)
SuccessMeansSucceeded ==
    \A n \in Name : Worker(n, "success") = Cardinality(Succeeded(n))

(* However executions overlap, a duration put in the histogram is never    *)
(* longer than that of the execution that put it there.                    *)
NeverOverestimates ==
    [][\A t \in Task : observed'[t] \notin {Null, observed[t]}
                       => observed'[t] <= now - began[t]]_vars

(* With the pool the compose file starts, an execution that ends puts its  *)
(* own duration in the histogram, whether it succeeded, failed or retries. *)
MeasuredExactly ==
    [][\A t \in Task :
          pool = "solo" /\ stage[t] = "finished" /\ stage'[t] = "ended"
          => observed'[t] = now - began[t]]_vars

(* What docs/observability/metrics.md draws as the flow of task metrics: a *)
(* count the worker keeps comes out at /metrics/.                          *)
CountsReachEndpoint ==
    \A n \in Name : <>[](Worker(n, "success") > 0) => <>(scraped[n]["success"] > 0)

-----------------------------------------------------------------------------
(* Strengthening for the proofs. A slot holds an execution exactly while   *)
(* it is active, and no two slots hold the same.                           *)
SlotsHoldActive ==
    /\ \A s \in Slot : runs[s] # Null => stage[runs[s]] \in Active
    /\ \A t \in Task : stage[t] \in Active => \E s \in Slot : runs[s] = t
    /\ \A s1, s2 \in Slot : runs[s1] # Null /\ runs[s1] = runs[s2] => s1 = s2

(* The start on the task object is not before that of any active execution *)
(* of the name: a later execution may have replaced it, never an earlier.  *)
StartIsLatest ==
    /\ \A t \in Task : stage[t] \in Active =>
          /\ began[t] \in Nat
          /\ began[t] <= now
          /\ start_time[NameOf[t]] # Null => began[t] <= start_time[NameOf[t]]
    /\ \A n \in Name : start_time[n] # Null => start_time[n] <= now

(* The solo pool runs one execution, and the start is that execution's.    *)
SoloIsAlone ==
    pool = "solo" => \A s1, s2 \in Slot :
                        runs[s1] # Null /\ runs[s2] # Null => s1 = s2

StartIsOwn ==
    pool = "solo" => \A t \in Task :
                        stage[t] \in Active => start_time[NameOf[t]] = began[t]

(* Each postrun is counted as a success and each raise as a failure.       *)
CountersExact ==
    \A n \in Name :
        /\ Worker(n, "failure") = Cardinality(Raised(n))
        /\ Worker(n, "success") = Cardinality(Ended(n))

IInv == /\ TypeOK
        /\ CountersExact
        /\ ContextIsCurrent
        /\ SlotsHoldActive
        /\ StartIsLatest
        /\ SoloIsAlone
        /\ StartIsOwn
=============================================================================
