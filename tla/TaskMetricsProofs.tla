--------------------------- MODULE TaskMetricsProofs ---------------------------
(* Proofs about TaskMetrics for any executions, names and slots.            *)
EXTENDS TaskMetrics, FiniteSetTheorems, TLAPS

LEMMA NothingCounted ==
  ASSUME \A t \in Task : stage[t] \notin {"finished", "ended"},
         \A n \in Name : tasks_total["worker"][n] = [s \in Status |-> 0]
  PROVE  CountersExact
<1> SUFFICES ASSUME NEW n \in Name
             PROVE /\ Worker(n, "failure") = Cardinality(Raised(n))
                   /\ Worker(n, "success") = Cardinality(Ended(n))
  BY DEF CountersExact
<1>1. Raised(n) = {} /\ Ended(n) = {}
  BY DEF Raised, Ended
<1> QED
  BY <1>1, FS_EmptySet DEF Worker, Status

LEMMA InitHolds == Init => IInv
  BY TaskAssumption, NothingCounted DEF Init, IInv, TypeOK, ContextIsCurrent, SlotsHoldActive,
     StartIsLatest, SoloIsAlone, StartIsOwn, Stage, Active, NoCount, NoTime,
     Nothing, Process, Status

LEMMA TypeStep == TypeOK /\ StartIsLatest /\ [Next]_vars => TypeOK'
<1> SUFFICES ASSUME TypeOK, StartIsLatest, [Next]_vars PROVE TypeOK'
  OBVIOUS
<1> USE TaskAssumption DEF TypeOK, Stage, State, Process, Status
<1>1. ASSUME NEW t \in Task, Send(t) PROVE TypeOK'
  BY <1>1 DEF Send
<1>2. ASSUME NEW s \in Slot, NEW t \in Task, Prerun(s, t) PROVE TypeOK'
  BY <1>2 DEF Prerun, task_prerun_handler
<1>3. ASSUME NEW n \in Name, NEW st \in Status, Count(n, st)
      PROVE tasks_total' \in [Process -> [Name -> [Status -> Nat]]]
  BY <1>3 DEF Count
<1>4. ASSUME NEW s \in Slot, NEW state \in State, Finish(s, state) PROVE TypeOK'
  <2>1. runs[s] \in Task
    BY <1>4 DEF Finish, task_failure_handler
  <2>2. tasks_total' \in [Process -> [Name -> [Status -> Nat]]]
    BY <1>3, <1>4, <2>1 DEF Finish, task_failure_handler
  <2> QED
    BY <1>4, <2>1, <2>2 DEF Finish, task_failure_handler
<1>5. ASSUME NEW s \in Slot, Postrun(s) PROVE TypeOK'
  <2>1. runs[s] \in Task
    BY <1>5 DEF Postrun, clear_task_context
  <2>2. tasks_total' \in [Process -> [Name -> [Status -> Nat]]]
    BY <1>3, <1>5, <2>1 DEF Postrun, clear_task_context
  <2>3. /\ start_time' \in [Name -> Nat \cup {Null}]
        /\ observed' \in [Task -> Nat \cup {Null}]
    <3>1. CASE start_time[NameOf[runs[s]]] = Null
      BY <1>5, <2>1, <3>1 DEF Postrun, clear_task_context, Measure
    <3>2. CASE start_time[NameOf[runs[s]]] # Null
      <4>1. /\ NameOf[runs[s]] \in Name
            /\ start_time[NameOf[runs[s]]] \in Nat
            /\ start_time[NameOf[runs[s]]] <= now
        BY <2>1, <3>2 DEF StartIsLatest
      <4>2. now - start_time[NameOf[runs[s]]] \in Nat
        BY <4>1
      <4>3. /\ observed' = [observed EXCEPT ![runs[s]] = now - start_time[NameOf[runs[s]]]]
            /\ start_time' = [start_time EXCEPT ![NameOf[runs[s]]] = Null]
        BY <1>5, <3>2 DEF Postrun, clear_task_context, Measure
      <4> QED
        BY <4>2, <4>3
    <3> QED
      BY <3>1, <3>2
  <2> QED
    BY <1>5, <2>1, <2>2, <2>3 DEF Postrun, clear_task_context
<1>6. CASE Crash
  BY <1>6 DEF Crash, NoCount, NoTime, Nothing
<1>7. CASE Restart
  BY <1>7 DEF Restart
<1>8. CASE Scrape
  BY <1>8 DEF Scrape
<1>9. CASE Tick
  BY <1>9 DEF Tick
<1>10. CASE UNCHANGED vars
  BY <1>10 DEF vars
<1> QED
  BY <1>1, <1>2, <1>4, <1>5, <1>6, <1>7, <1>8, <1>9, <1>10 DEF Next
LEMMA ContextStep == TypeOK /\ ContextIsCurrent /\ [Next]_vars => ContextIsCurrent'
<1> SUFFICES ASSUME TypeOK, ContextIsCurrent, [Next]_vars PROVE ContextIsCurrent'
  OBVIOUS
<1> USE DEF ContextIsCurrent
<1>1. ASSUME NEW s \in Slot, NEW t \in Task, Prerun(s, t) PROVE ContextIsCurrent'
  BY <1>1 DEF Prerun
<1>2. ASSUME NEW s \in Slot, Postrun(s) PROVE ContextIsCurrent'
  BY <1>2 DEF Postrun, clear_task_context
<1>3. CASE Crash
  BY <1>3 DEF Crash
<1>4. CASE UNCHANGED <<task_ctx, runs>>
  BY <1>4
<1> QED
  BY <1>1, <1>2, <1>3, <1>4
     DEF Next, Send, Finish, Restart, Scrape, Tick, vars

LEMMA SlotsStep == TypeOK /\ SlotsHoldActive /\ [Next]_vars => SlotsHoldActive'
<1> SUFFICES ASSUME TypeOK, SlotsHoldActive, [Next]_vars PROVE SlotsHoldActive'
  OBVIOUS
<1> USE TaskAssumption DEF SlotsHoldActive, Active, TypeOK
<1>1. ASSUME NEW t \in Task, Send(t) PROVE SlotsHoldActive'
  BY <1>1 DEF Send
<1>2. ASSUME NEW s \in Slot, NEW t \in Task, Prerun(s, t) PROVE SlotsHoldActive'
  <2>1. /\ \A x \in Task : stage'[x] = IF x = t THEN "running" ELSE stage[x]
        /\ \A x \in Slot : runs'[x] = IF x = s THEN t ELSE runs[x]
        /\ runs[s] = Null /\ stage[t] = "queued"
    BY <1>2 DEF Prerun, HasRoom
  <2>2. \A x \in Slot : runs[x] # t
    BY <2>1
  <2>3. ASSUME NEW x \in Slot, runs'[x] # Null PROVE stage'[runs'[x]] \in Active
    <3>1. CASE x = s
      BY <2>1, <3>1
    <3>2. CASE x # s
      <4>1. /\ runs'[x] = runs[x] /\ runs[x] \in Task /\ runs[x] # t
            /\ stage[runs[x]] \in Active
        BY <2>1, <2>2, <2>3, <3>2
      <4> QED
        BY <2>1, <4>1
    <3> QED
      BY <3>1, <3>2
  <2>4. ASSUME NEW x \in Task, stage'[x] \in Active
        PROVE \E y \in Slot : runs'[y] = x
    <3>1. CASE x = t
      BY <2>1, <3>1
    <3>2. CASE x # t
      <4>1. PICK y \in Slot : runs[y] = x
        BY <2>1, <2>4, <3>2
      <4> QED
        BY <2>1, <4>1
    <3> QED
      BY <3>1, <3>2
  <2>5. \A x, y \in Slot : runs'[x] # Null /\ runs'[x] = runs'[y] => x = y
    BY <2>1, <2>2
  <2> QED
    BY <2>3, <2>4, <2>5
<1>3. ASSUME NEW s \in Slot, NEW state \in State, Finish(s, state)
      PROVE SlotsHoldActive'
  <2>1. /\ runs' = runs
        /\ \A x \in Task : stage'[x] = IF x = runs[s] THEN "finished" ELSE stage[x]
        /\ runs[s] # Null /\ stage[runs[s]] = "running"
    BY <1>3 DEF Finish
  <2> QED
    BY <2>1
<1>4. ASSUME NEW s \in Slot, Postrun(s) PROVE SlotsHoldActive'
  <2>1. /\ \A x \in Slot : runs'[x] = IF x = s THEN Null ELSE runs[x]
        /\ \A x \in Task : stage'[x] = IF x = runs[s] THEN "ended" ELSE stage[x]
        /\ runs[s] # Null /\ stage[runs[s]] = "finished"
    BY <1>4 DEF Postrun
  <2>2. \A x \in Slot : x # s /\ runs[x] # Null => runs[x] # runs[s]
    BY <2>1
  <2>3. \A x \in Slot : runs'[x] # Null => stage'[runs'[x]] \in Active
    BY <2>1, <2>2
  <2>4. ASSUME NEW x \in Task, stage'[x] \in Active
        PROVE \E y \in Slot : runs'[y] = x
    <3>1. x # runs[s] /\ stage[x] \in Active
      BY <2>1, <2>4
    <3>2. PICK y \in Slot : runs[y] = x
      BY <3>1
    <3> QED
      BY <2>1, <3>1, <3>2
  <2>5. \A x, y \in Slot : runs'[x] # Null /\ runs'[x] = runs'[y] => x = y
    BY <2>1
  <2> QED
    BY <2>3, <2>4, <2>5
<1>5. CASE Crash
  BY <1>5 DEF Crash, Nothing
<1>6. CASE UNCHANGED <<stage, runs>>
  BY <1>6
<1> QED
  BY <1>1, <1>2, <1>3, <1>4, <1>5, <1>6 DEF Next, Restart, Scrape, Tick, vars

(* The start is only ever replaced by the present time, which no active     *)
(* execution began after, or removed.                                       *)
LEMMA StartStep ==
  TypeOK /\ SlotsHoldActive /\ StartIsLatest /\ [Next]_vars => StartIsLatest'
<1> SUFFICES ASSUME TypeOK, SlotsHoldActive, StartIsLatest, [Next]_vars
             PROVE StartIsLatest'
  OBVIOUS
<1> USE TaskAssumption DEF StartIsLatest, Active, TypeOK
<1>1. ASSUME NEW t \in Task, Send(t) PROVE StartIsLatest'
  BY <1>1 DEF Send
<1>2. ASSUME NEW s \in Slot, NEW t \in Task, Prerun(s, t) PROVE StartIsLatest'
  <2>1. /\ \A x \in Task : stage'[x] = IF x = t THEN "running" ELSE stage[x]
        /\ \A x \in Task : began'[x] = IF x = t THEN now ELSE began[x]
        /\ \A n \in Name : start_time'[n] = IF n = NameOf[t] THEN now ELSE start_time[n]
        /\ now' = now
    BY <1>2 DEF Prerun, task_prerun_handler
  <2>2. ASSUME NEW x \in Task, stage'[x] \in Active
        PROVE /\ began'[x] \in Nat
              /\ began'[x] <= now'
              /\ start_time'[NameOf[x]] # Null => began'[x] <= start_time'[NameOf[x]]
    <3>1. CASE x = t
      BY <2>1, <3>1
    <3>2. CASE x # t
      <4>1. /\ began[x] \in Nat /\ began[x] <= now
            /\ start_time[NameOf[x]] # Null => began[x] <= start_time[NameOf[x]]
        BY <2>1, <2>2, <3>2
      <4> QED
        BY <2>1, <3>2, <4>1
    <3> QED
      BY <3>1, <3>2
  <2>3. ASSUME NEW n \in Name, start_time'[n] # Null PROVE start_time'[n] <= now'
    <3>1. CASE n = NameOf[t]
      BY <2>1, <3>1
    <3>2. CASE n # NameOf[t]
      BY <2>1, <2>3, <3>2
    <3> QED
      BY <3>1, <3>2
  <2> QED
    BY <2>2, <2>3
<1>3. ASSUME NEW s \in Slot, NEW state \in State, Finish(s, state)
      PROVE StartIsLatest'
  <2>1. /\ UNCHANGED <<start_time, now, began>>
        /\ \A x \in Task : stage'[x] = IF x = runs[s] THEN "finished" ELSE stage[x]
        /\ runs[s] # Null /\ stage[runs[s]] = "running"
    BY <1>3 DEF Finish
  <2> QED
    BY <2>1
<1>4. ASSUME NEW s \in Slot, Postrun(s) PROVE StartIsLatest'
  <2>1. /\ UNCHANGED <<now, began>>
        /\ \A x \in Task : stage'[x] = IF x = runs[s] THEN "ended" ELSE stage[x]
        /\ runs[s] \in Task
    BY <1>4 DEF Postrun
  <2>2. \A n \in Name : start_time'[n] \in {start_time[n], Null}
    BY <1>4, <2>1 DEF Postrun, Measure
  <2> QED
    BY <2>1, <2>2
<1>5. CASE Crash
  BY <1>5 DEF Crash, NoTime
<1>6. CASE Tick
  BY <1>6 DEF Tick
<1>7. CASE UNCHANGED <<stage, start_time, now, began>>
  BY <1>7
<1> QED
  BY <1>1, <1>2, <1>3, <1>4, <1>5, <1>6, <1>7 DEF Next, Restart, Scrape, vars

(* An execution is counted when it enters the set the counter is the size   *)
(* of, and the sets lose members only in a crash, with the counters.        *)
LEMMA CountStep == TypeOK /\ CountersExact /\ [Next]_vars => CountersExact'
<1> SUFFICES ASSUME TypeOK, CountersExact, [Next]_vars PROVE CountersExact'
  OBVIOUS
<1> USE TaskAssumption DEF TypeOK, Process, Status
<1>1. ASSUME NEW n \in Name
      PROVE IsFiniteSet(Raised(n)) /\ IsFiniteSet(Ended(n))
  BY FS_Subset DEF Raised, Ended
<1>2. ASSUME UNCHANGED tasks_total,
             \A n \in Name : Raised(n)' = Raised(n) /\ Ended(n)' = Ended(n)
      PROVE CountersExact'
  BY <1>2 DEF CountersExact, Worker
<1>3. ASSUME UNCHANGED <<tasks_total, outcome>>,
             NEW t \in Task, NEW where, where \notin {"finished", "ended"},
             stage[t] \notin {"finished", "ended"},
             stage' = [stage EXCEPT ![t] = where]
      PROVE CountersExact'
  BY <1>2, <1>3 DEF Raised, Ended
<1>4. ASSUME NEW t \in Task, Send(t) PROVE CountersExact'
  BY <1>3, <1>4 DEF Send
<1>5. ASSUME NEW s \in Slot, NEW t \in Task, Prerun(s, t) PROVE CountersExact'
  BY <1>3, <1>5 DEF Prerun
<1>6. ASSUME NEW m \in Name, NEW st \in Status, Count(m, st)
       PROVE \A n \in Name, x \in Status :
                Worker(n, x)' = Worker(n, x) + (IF n = m /\ x = st THEN 1 ELSE 0)
  <2>1. tasks_total'["worker"]
        = [tasks_total["worker"] EXCEPT ![m] = [tasks_total["worker"][m] EXCEPT
             ![st] = tasks_total["worker"][m][st] + 1]]
    BY <1>6 DEF Count
  <2>2. tasks_total["worker"] \in [Name -> [Status -> Nat]]
    OBVIOUS
  <2> QED
    BY <2>1, <2>2 DEF Worker
<1>7. ASSUME NEW S, IsFiniteSet(S), NEW x, x \notin S
       PROVE  /\ Cardinality(S \cup {x}) = Cardinality(S) + 1
              /\ Cardinality(S) = Cardinality(S) + 0
  <2>1. Cardinality(S) \in Nat
    BY <1>7, FS_CardinalityType
  <2>2. Cardinality(S \cup {x}) = IF x \in S THEN Cardinality(S) ELSE Cardinality(S) + 1
    BY <1>7, FS_AddElement
  <2> QED
    BY <1>7, <2>1, <2>2
<1>8. ASSUME NEW s \in Slot, NEW state \in State, Finish(s, state)
      PROVE CountersExact'
  <2> DEFINE t == runs[s]
  <2>1. /\ t \in Task /\ stage[t] = "running"
        /\ stage' = [stage EXCEPT ![t] = "finished"]
        /\ outcome' = [outcome EXCEPT ![t] = state]
    BY <1>8 DEF Finish
  <2>2. ASSUME NEW n \in Name
        PROVE /\ Ended(n)' = Ended(n)
              /\ t \notin Raised(n)
              /\ Raised(n)' = IF state = "FAILURE" /\ n = NameOf[t]
                               THEN Raised(n) \cup {t} ELSE Raised(n)
    BY <2>1 DEF Ended, Raised
  <2>3. CASE state # "FAILURE"
    BY <1>2, <1>8, <2>2, <2>3 DEF Finish, task_failure_handler
  <2>4. CASE state = "FAILURE"
    <3>0. Count(NameOf[t], "failure") /\ NameOf[t] \in Name
      BY <1>8, <2>1, <2>4 DEF Finish, task_failure_handler
    <3>1. \A n \in Name : /\ Worker(n, "failure")' = Worker(n, "failure")
                                    + (IF n = NameOf[t] THEN 1 ELSE 0)
                          /\ Worker(n, "success")' = Worker(n, "success")
      <4>1. \A n \in Name, x \in Status :
                Worker(n, x)' = Worker(n, x) + (IF n = NameOf[t] /\ x = "failure"
                                                THEN 1 ELSE 0)
        BY <1>6, <3>0
      <4> QED
        BY <4>1 DEF Worker
    <3>2. ASSUME NEW n \in Name
          PROVE  Cardinality(Raised(n)') = Cardinality(Raised(n))
                                           + (IF n = NameOf[t] THEN 1 ELSE 0)
      BY <1>7, <2>2, <2>4, <1>1
    <3> QED
      BY <2>2, <3>1, <3>2 DEF CountersExact
  <2> QED
    BY <2>3, <2>4
<1>9. ASSUME NEW s \in Slot, Postrun(s) PROVE CountersExact'
  <2> DEFINE t == runs[s]
  <2>1. /\ t \in Task /\ stage[t] = "finished"
        /\ stage' = [stage EXCEPT ![t] = "ended"]
        /\ outcome' = outcome
    BY <1>9 DEF Postrun
  <2>2. ASSUME NEW n \in Name
        PROVE /\ Raised(n)' = Raised(n)
              /\ t \notin Ended(n)
              /\ Ended(n)' = IF n = NameOf[t] THEN Ended(n) \cup {t} ELSE Ended(n)
    BY <2>1 DEF Ended, Raised
  <2>3. Count(NameOf[t], "success") /\ NameOf[t] \in Name
    BY <1>9, <2>1 DEF Postrun
  <2>4. \A n \in Name : /\ Worker(n, "success")' = Worker(n, "success")
                                  + (IF n = NameOf[t] THEN 1 ELSE 0)
                        /\ Worker(n, "failure")' = Worker(n, "failure")
    <3>1. \A n \in Name, x \in Status :
              Worker(n, x)' = Worker(n, x) + (IF n = NameOf[t] /\ x = "success"
                                              THEN 1 ELSE 0)
      BY <1>6, <2>3
    <3> QED
      BY <3>1 DEF Worker
  <2>5. ASSUME NEW n \in Name
        PROVE  Cardinality(Ended(n)') = Cardinality(Ended(n))
                                        + (IF n = NameOf[t] THEN 1 ELSE 0)
    BY <1>7, <2>2, <1>1
  <2> QED
    BY <2>2, <2>4, <2>5 DEF CountersExact
<1>10. CASE Crash
  <2>1. /\ \A t \in Task : stage'[t] \notin {"finished", "ended"}
        /\ tasks_total'["worker"] = NoCount
    BY <1>10 DEF Crash
  <2>2. \A n \in Name : Raised(n)' = {} /\ Ended(n)' = {}
    BY <2>1 DEF Raised, Ended
  <2>3. \A n \in Name, x \in Status : Worker(n, x)' = 0
    BY <2>1 DEF NoCount, Worker
  <2> QED
    BY <2>2, <2>3, FS_EmptySet DEF CountersExact
<1>11. CASE UNCHANGED <<stage, outcome, tasks_total>>
  BY <1>2, <1>11 DEF Raised, Ended
<1> QED
  BY <1>4, <1>5, <1>8, <1>9, <1>10, <1>11 DEF Next, Restart, Scrape, Tick, vars

(* A solo worker takes a message only when it runs nothing.                 *)
LEMMA AloneStep == TypeOK /\ SoloIsAlone /\ [Next]_vars => SoloIsAlone'
<1> SUFFICES ASSUME TypeOK, SoloIsAlone, [Next]_vars PROVE SoloIsAlone'
  OBVIOUS
<1> USE TaskAssumption DEF SoloIsAlone, TypeOK
<1>1. ASSUME NEW s \in Slot, NEW t \in Task, Prerun(s, t) PROVE SoloIsAlone'
  BY <1>1 DEF Prerun, HasRoom, Nothing
<1>2. ASSUME NEW s \in Slot, Postrun(s) PROVE SoloIsAlone'
  BY <1>2 DEF Postrun
<1>3. CASE Crash
  BY <1>3 DEF Crash, Nothing
<1>4. CASE UNCHANGED <<runs, pool>>
  BY <1>4
<1> QED
  BY <1>1, <1>2, <1>3, <1>4
     DEF Next, Send, Finish, Restart, Scrape, Tick, vars

(* So the start on the task object is the one execution's own.              *)
LEMMA OwnStep ==
  TypeOK /\ SlotsHoldActive /\ SoloIsAlone /\ StartIsOwn /\ [Next]_vars => StartIsOwn'
<1> SUFFICES ASSUME TypeOK, SlotsHoldActive, SoloIsAlone, StartIsOwn, [Next]_vars
             PROVE StartIsOwn'
  OBVIOUS
<1> USE TaskAssumption DEF StartIsOwn, Active, TypeOK
<1>1. ASSUME NEW t \in Task, Send(t) PROVE StartIsOwn'
  BY <1>1 DEF Send
<1>2. ASSUME NEW s \in Slot, NEW t \in Task, Prerun(s, t) PROVE StartIsOwn'
  <2>1. pool = "solo" => \A x \in Task : stage[x] \notin Active
    BY <1>2 DEF Prerun, HasRoom, Nothing, SlotsHoldActive
  <2>2. /\ \A x \in Task : stage'[x] = IF x = t THEN "running" ELSE stage[x]
        /\ began'[t] = now
        /\ start_time'[NameOf[t]] = now
        /\ pool' = pool
    BY <1>2 DEF Prerun, task_prerun_handler
  <2> QED
    BY <2>1, <2>2
<1>3. ASSUME NEW s \in Slot, NEW state \in State, Finish(s, state)
      PROVE StartIsOwn'
  <2>1. /\ UNCHANGED <<pool, start_time, began>>
        /\ \A x \in Task : stage'[x] = IF x = runs[s] THEN "finished" ELSE stage[x]
        /\ runs[s] # Null /\ stage[runs[s]] = "running"
    BY <1>3 DEF Finish
  <2> QED
    BY <2>1
<1>4. ASSUME NEW s \in Slot, Postrun(s) PROVE StartIsOwn'
  <2>0. runs[s] # Null
    BY <1>4 DEF Postrun
  <2>1. ASSUME pool = "solo", NEW x \in Task, stage[x] \in Active PROVE x = runs[s]
    <3>1. PICK y \in Slot : runs[y] = x
      BY <2>1 DEF SlotsHoldActive
    <3>2. y = s
      BY <2>0, <2>1, <3>1 DEF SoloIsAlone
    <3> QED
      BY <3>1, <3>2
  <2>2. /\ \A x \in Task : stage'[x] = IF x = runs[s] THEN "ended" ELSE stage[x]
        /\ pool' = pool
    BY <1>4 DEF Postrun
  <2> QED
    BY <2>1, <2>2
<1>5. CASE Crash
  BY <1>5 DEF Crash
<1>6. CASE UNCHANGED <<pool, stage, start_time, began>>
  BY <1>6
<1> QED
  BY <1>1, <1>2, <1>3, <1>4, <1>5, <1>6 DEF Next, Restart, Scrape, Tick, vars

(* The type invariant, and that every slot holds one active execution whose *)
(* start is at hand, hold together: what the facts below follow from.       *)
THEOREM Inductive == Spec => []IInv
<1>1. IInv /\ [Next]_vars => IInv'
  BY TypeStep, CountStep, ContextStep, SlotsStep, StartStep, AloneStep, OwnStep DEF IInv
<1> QED
  BY InitHolds, <1>1, PTL DEF Spec

(* The type invariant, for any executions, names and slots.                 *)
THEOREM TypeCorrect == Spec => []TypeOK
  BY Inductive, PTL DEF IInv

(* The logging context of a slot names the execution in it and no other,    *)
(* through failures, retries and crashes of the worker.                     *)
THEOREM ContextCorrect == Spec => []ContextIsCurrent
  BY Inductive, PTL DEF IInv

(* The counters of the worker are those of its executions, for any number   *)
(* of them: no crash, retry or failure leaves one counted twice or missing. *)
THEOREM CountersCorrect == Spec => []CountersAgree
<1>1. IInv => CountersAgree
  <2> SUFFICES ASSUME IInv, NEW n \in Name
               PROVE /\ Worker(n, "failure") = Cardinality(Raised(n))
                     /\ Worker(n, "success") <= Cardinality(Ended(n))
                     /\ Cardinality(Succeeded(n)) <= Worker(n, "success")
    BY DEF CountersAgree
  <2>1. IsFiniteSet(Ended(n)) /\ Succeeded(n) \subseteq Ended(n)
    BY TaskAssumption, FS_Subset DEF Ended, Succeeded
  <2>2. /\ Cardinality(Succeeded(n)) <= Cardinality(Ended(n))
        /\ Cardinality(Ended(n)) \in Nat
    BY <2>1, FS_Subset, FS_CardinalityType
  <2> QED
    BY <2>2 DEF IInv, CountersExact
<1> QED
  BY Inductive, <1>1, PTL

(* However many executions of a name overlap, and however they share the    *)
(* start on the task object, no observed duration exceeds the real one.     *)
THEOREM Underestimates == Spec => NeverOverestimates
<1>1. IInv /\ [Next]_vars
      => [\A t \in Task : observed'[t] \notin {Null, observed[t]}
                          => observed'[t] <= now - began[t]]_vars
  <2> SUFFICES ASSUME IInv, [Next]_vars, NEW t \in Task,
                      observed'[t] \notin {Null, observed[t]}
               PROVE observed'[t] <= now - began[t]
    OBVIOUS
  <2> USE TaskAssumption DEF IInv, TypeOK
  <2>1. PICK s \in Slot : Postrun(s)
    BY DEF Next, Send, Prerun, Finish, Crash, Restart, Scrape, Tick, vars
  <2>2. /\ t = runs[s]
        /\ start_time[NameOf[t]] # Null
        /\ observed'[t] = now - start_time[NameOf[t]]
    BY <2>1 DEF Postrun, Measure
  <2>3. /\ stage[t] \in Active
        /\ began[t] \in Nat
        /\ began[t] <= start_time[NameOf[t]]
    BY <2>1, <2>2 DEF Postrun, Active, StartIsLatest
  <2>4. start_time[NameOf[t]] \in Nat
    BY <2>2
  <2> QED
    BY <2>2, <2>3, <2>4
<1> QED
  BY Inductive, <1>1, PTL DEF Spec, NeverOverestimates

(* With the solo pool every duration is exact, whatever the outcomes, and   *)
(* none is missing.                                                         *)
THEOREM SoloIsExact == Spec => MeasuredExactly
<1>1. IInv /\ [Next]_vars
      => [\A t \in Task :
            pool = "solo" /\ stage[t] = "finished" /\ stage'[t] = "ended"
            => observed'[t] = now - began[t]]_vars
  <2> SUFFICES ASSUME IInv, [Next]_vars, NEW t \in Task,
                      pool = "solo", stage[t] = "finished", stage'[t] = "ended"
               PROVE observed'[t] = now - began[t]
    OBVIOUS
  <2> USE TaskAssumption DEF IInv, TypeOK
  <2>1. PICK s \in Slot : Postrun(s)
    BY DEF Next, Send, Prerun, Finish, Crash, Restart, Scrape, Tick, vars
  <2>2. t = runs[s]
    BY <2>1 DEF Postrun
  <2>3. /\ start_time[NameOf[t]] = began[t]
        /\ began[t] \in Nat
    BY DEF StartIsOwn, StartIsLatest, Active
  <2> QED
    BY <2>1, <2>2, <2>3 DEF Postrun, Measure
<1> QED
  BY Inductive, <1>1, PTL DEF Spec, MeasuredExactly
=============================================================================
