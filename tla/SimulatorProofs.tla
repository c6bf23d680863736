---------------------------- MODULE SimulatorProofs ----------------------------
(***************************************************************************)
(* Proofs about Simulator: the types, and that the counters of an          *)
(* execution agree with each other and with what the endpoint has taken.   *)
(***************************************************************************)
EXTENDS Simulator, FiniteSets, FiniteSetTheorems, TLAPS

(* A remainder is below its divisor, so an index names a payload.          *)
LEMMA TaskInRange ==
  ASSUME TypeOK, NEW r \in Run, config[r].tasks > 0
  PROVE  task(r) \in 1 .. config[r].tasks
<1>1. i[r] \in Nat /\ config[r].tasks \in Nat
  BY SimulatorAssumption DEF TypeOK
<1>2. \A a \in Nat, b \in Nat : b > 0 => a % b \in 0 .. b - 1
  OBVIOUS
<1>3. i[r] % config[r].tasks \in 0 .. config[r].tasks - 1
  BY <1>1, <1>2
<1> QED
  BY <1>1, <1>3 DEF task

(* Counting a result keeps the counters natural numbers.                   *)
LEMMA TallyType ==
  ASSUME NEW s \in Stats, NEW outcome \in Outcome
  PROVE  tally(s, outcome) \in Stats
  BY DEF tally, Stats, Outcome

(* The loop's counters are records of natural numbers at the start.        *)
LEMMA RunStatsType == RunStats \in Stats
  BY DEF RunStats, Stats

LEMMA InitType == Init => TypeOK
<1> SUFFICES ASSUME Init PROVE TypeOK
  OBVIOUS
<1>1. config \in [Run -> Config] /\ (\A r \in Run : config[r].tasks \in Nat)
  BY SimulatorAssumption DEF Init
<1>2. log \in [starts : Nat, ends : Nat, records : Stats, totals : Stats]
  BY RunStatsType DEF Init, NoLog
<1>3. ASSUME NEW r \in Run PROVE item[r] \in 0 .. config[r].tasks
  <2>1. item[r] = 0
    BY DEF Init
  <2> QED
    BY <1>1, <2>1
<1>4. ASSUME NEW r \in Run PROVE posted[r] \in [1 .. config[r].tasks -> Nat]
  <2>1. posted[r] = [k \in 1 .. config[r].tasks |-> 0]
    BY DEF Init
  <2> QED
    BY <2>1
<1>5. /\ pc \in [Run -> {"idle"} \cup Running \cup Stopped]
      /\ i \in [Run -> Nat]
      /\ received \in [Run -> Nat]
  BY DEF Init
<1>6. stats \in [Run -> Stats] /\ DOMAIN posted = Run
  BY RunStatsType DEF Init
<1> QED
  BY <1>1, <1>2, <1>3, <1>4, <1>5, <1>6 DEF TypeOK

(* The log keeps its shape whatever record is appended.                    *)
LEMMA WriteLineType ==
  ASSUME NEW r \in Run, TypeOK,
         start_report(r) \/ end_report(r)
           \/ (\E outcome \in Outcome : report(r, outcome))
           \/ UNCHANGED log
  PROVE  log' \in [starts : Nat, ends : Nat, records : Stats, totals : Stats]
<1> DEFINE Log == [starts : Nat, ends : Nat, records : Stats, totals : Stats]
<1>1. log \in Log /\ stats[r] \in Stats
  BY DEF TypeOK
<1>2. CASE start_report(r)
  BY <1>1, <1>2 DEF start_report, WriteLine
<1>3. CASE end_report(r)
  <2>1. [f \in DOMAIN log.totals |-> log.totals[f] + stats[r][f]] \in Stats
    BY <1>1 DEF Stats
  <2>2. log' \in {log, [log EXCEPT !.ends = @ + 1,
                       !.totals = [f \in DOMAIN @ |-> @[f] + stats[r][f]]]}
    BY <1>3 DEF end_report, WriteLine
  <2>3. CASE log' = log
    BY <1>1, <2>3
  <2>4. CASE log' = [log EXCEPT !.ends = @ + 1,
                       !.totals = [f \in DOMAIN @ |-> @[f] + stats[r][f]]]
    <3>1. /\ log'.starts = log.starts /\ log'.ends = log.ends + 1
          /\ log'.records = log.records
          /\ log'.totals = [f \in DOMAIN log.totals |-> log.totals[f] + stats[r][f]]
          /\ log' = [starts |-> log'.starts, ends |-> log'.ends,
                     records |-> log'.records, totals |-> log'.totals]
      BY <1>1, <2>4
    <3> QED
      BY <1>1, <2>1, <3>1
  <2> QED
    BY <2>2, <2>3, <2>4
<1>4. ASSUME NEW outcome \in Outcome, report(r, outcome) PROVE log' \in Log
  <2>1. tally(log.records, outcome) \in Stats
    BY <1>1, TallyType
  <2> QED
    BY <1>1, <1>4, <2>1 DEF report, WriteLine
<1> QED
  BY <1>1, <1>2, <1>3, <1>4

LEMMA TypeStep == TypeOK /\ [Next]_vars => TypeOK'
<1> SUFFICES ASSUME TypeOK, [Next]_vars PROVE TypeOK'
  OBVIOUS
<1>0. \A r \in Run : config[r].tasks \in Nat
  BY SimulatorAssumption DEF TypeOK
<1>1. ASSUME NEW r \in Run, Start(r) PROVE TypeOK'
  <2>1. log' \in [starts : Nat, ends : Nat, records : Stats, totals : Stats]
    BY <1>1, WriteLineType DEF Start
  <2> QED
    BY <1>1, <2>1 DEF Start, Goto, TypeOK, Running, Stopped
<1>2. ASSUME NEW r \in Run, Post(r) PROVE TypeOK'
  <2>1. CASE config[r].tasks = 0 /\ Goto(r, "failed") /\ UNCHANGED <<item, posted>>
    BY <1>2, <2>1 DEF Post, Goto, TypeOK, Stopped
  <2>2. CASE /\ config[r].tasks > 0
             /\ Goto(r, "posting")
             /\ item' = [item EXCEPT ![r] = task(r)]
             /\ posted' = [posted EXCEPT ![r][task(r)] = @ + 1]
    <3>1. UNCHANGED <<config, i, stats, received, log>>
      BY <1>2 DEF Post
    <3>2. task(r) \in 1 .. config[r].tasks
      BY <2>2, TaskInRange
    <3>3. ASSUME NEW q \in Run PROVE item'[q] \in 0 .. config'[q].tasks
      <4>1. item[q] \in 0 .. config[q].tasks /\ config[q].tasks \in Nat
        BY <1>0 DEF TypeOK
      <4>2. item'[q] \in {item[q], task(r)} /\ (q # r => item'[q] = item[q])
        BY <2>2, SMT
      <4> QED
        BY <3>1, <3>2, <4>1, <4>2
    <3>4. ASSUME NEW q \in Run PROVE posted'[q] \in [1 .. config'[q].tasks -> Nat]
      <4>1. posted[q] \in [1 .. config[q].tasks -> Nat]
        BY DEF TypeOK
      <4>2. CASE q # r
        <5>1. posted'[q] = posted[q]
          BY <2>2, <4>2, SMT
        <5> QED
          BY <3>1, <4>1, <5>1
      <4>3. CASE q = r
        <5>1. posted'[r] = [posted[r] EXCEPT ![task(r)] = posted[r][task(r)] + 1]
          BY <2>2 DEF TypeOK
        <5>2. posted[r][task(r)] + 1 \in Nat
          <6>1. posted[r] \in [1 .. config[r].tasks -> Nat]
            BY <4>1, <4>3
          <6>2. posted[r][task(r)] \in Nat
            BY <6>1, <3>2
          <6> QED
            BY <6>2
        <5> QED
          BY <3>1, <4>1, <4>3, <5>1, <5>2
      <4> QED
        BY <4>2, <4>3
    <3>5. pc' \in [Run -> {"idle"} \cup Running \cup Stopped]
      BY <2>2 DEF Goto, TypeOK, Running
    <3>6. DOMAIN posted' = Run
      BY <2>2 DEF TypeOK
    <3> QED
      BY <3>1, <3>3, <3>4, <3>5, <3>6 DEF TypeOK
  <2> QED
    BY <1>2, <2>1, <2>2 DEF Post
<1>3. ASSUME NEW r \in Run, NEW outcome \in Outcome, NEW taken \in BOOLEAN,
             Answer(r, outcome, taken)
      PROVE  TypeOK'
  <2>1. log' \in [starts : Nat, ends : Nat, records : Stats, totals : Stats]
    BY <1>3, WriteLineType DEF Answer
  <2>2. tally(stats[r], outcome) \in Stats
    BY TallyType DEF TypeOK
  <2>3. stats' \in [Run -> Stats]
    BY <1>3, <2>2 DEF Answer, TypeOK
  <2>4. pc' \in [Run -> {"idle"} \cup Running \cup Stopped]
    BY <1>3 DEF Answer, Goto, TypeOK, Running
  <2>5. received' \in [Run -> Nat]
    BY <1>3 DEF Answer, TypeOK
  <2> QED
    BY <1>3, <2>1, <2>3, <2>4, <2>5 DEF Answer, TypeOK
<1>4. ASSUME NEW r \in Run, Continue(r) PROVE TypeOK'
  <2>1. UNCHANGED <<config, stats, posted, received, log>>
    BY <1>4 DEF Continue
  <2>2. i' \in [Run -> Nat]
    <3>1. i \in [Run -> Nat]
      BY DEF TypeOK
    <3>2. i' = i \/ i' = [i EXCEPT ![r] = i[r] + 1]
      BY <1>4 DEF Continue
    <3> QED
      BY <3>1, <3>2
  <2>3. pc' \in [Run -> {"idle"} \cup Running \cup Stopped]
    BY <1>4 DEF Continue, Goto, TypeOK, Running
  <2>4. ASSUME NEW q \in Run PROVE item'[q] \in 0 .. config'[q].tasks
    <3>1. item'[q] = 0 \/ item'[q] = item[q]
      BY <1>4 DEF Continue, TypeOK
    <3> QED
      BY <1>0, <2>1, <3>1 DEF TypeOK
  <2> QED
    BY <2>1, <2>2, <2>3, <2>4 DEF TypeOK
<1>5. ASSUME NEW r \in Run, End(r) PROVE TypeOK'
  <2>1. log' \in [starts : Nat, ends : Nat, records : Stats, totals : Stats]
    BY <1>5, WriteLineType DEF End
  <2> QED
    BY <1>5, <2>1 DEF End, Goto, TypeOK, Stopped
<1>6. ASSUME NEW r \in Run, NEW taken \in BOOLEAN, Interrupt(r, taken) PROVE TypeOK'
  BY <1>6 DEF Interrupt, Goto, TypeOK, Stopped
<1>7. CASE UNCHANGED vars
  BY <1>7 DEF vars, TypeOK
<1> QED
  BY <1>1, <1>2, <1>3, <1>4, <1>5, <1>6, <1>7 DEF Next, Step

(* The recorded state keeps its shape, for any number of executions and    *)
(* any configuration.                                                      *)
THEOREM TypeCorrect == Spec => []TypeOK
  BY InitType, TypeStep, PTL DEF Spec

(* Only an answer and an interrupt change what AccountsAgree relates, and  *)
(* an execution waits for one answer at a time.                            *)
LEMMA AccountsStep == TypeOK /\ AccountsAgree /\ [Next]_vars => AccountsAgree'
<1> SUFFICES ASSUME TypeOK, AccountsAgree, [Next]_vars, NEW q \in Run
             PROVE /\ stats'[q].passed + stats'[q].failed = stats'[q].sent
                   /\ stats'[q].errors <= stats'[q].failed
                   /\ stats'[q].passed <= received'[q]
                   /\ received'[q] <= stats'[q].sent
                        + (IF pc'[q] = "interrupted" THEN 1 ELSE 0)
  BY DEF AccountsAgree
<1> DEFINE Agree == /\ stats'[q].passed + stats'[q].failed = stats'[q].sent
                    /\ stats'[q].errors <= stats'[q].failed
                    /\ stats'[q].passed <= received'[q]
                    /\ received'[q] <= stats'[q].sent
                         + (IF pc'[q] = "interrupted" THEN 1 ELSE 0)
<1>0. /\ stats[q] \in Stats /\ received[q] \in Nat
      /\ stats[q].passed + stats[q].failed = stats[q].sent
      /\ stats[q].errors <= stats[q].failed
      /\ stats[q].passed <= received[q]
      /\ received[q] <= stats[q].sent + (IF pc[q] = "interrupted" THEN 1 ELSE 0)
  BY DEF AccountsAgree, TypeOK
<1>1. CASE /\ stats'[q] = stats[q] /\ received'[q] = received[q]
           /\ pc[q] = "interrupted" => pc'[q] = "interrupted"
  BY <1>0, <1>1 DEF Stats
<1>2. ASSUME NEW r \in Run, NEW outcome \in Outcome, NEW taken \in BOOLEAN,
             Answer(r, outcome, taken)
      PROVE  Agree
  <2>1. CASE q # r
    <3>1. stats'[q] = stats[q] /\ received'[q] = received[q] /\ pc'[q] = pc[q]
      BY <1>2, <2>1 DEF Answer, Goto, TypeOK
    <3> QED
      BY <1>1, <3>1
  <2>2. CASE q = r
    <3>1. /\ pc[q] = "posting" /\ pc'[q] = "answered"
          /\ stats'[q] = tally(stats[q], outcome)
          /\ received'[q] = IF taken THEN received[q] + 1 ELSE received[q]
          /\ outcome = "expected" => taken
      BY <1>2, <2>2 DEF Answer, Goto, TypeOK
    <3>2. CASE outcome = "expected"
      BY <1>0, <3>1, <3>2 DEF tally, Stats
    <3>3. CASE outcome = "other"
      BY <1>0, <3>1, <3>3 DEF tally, Stats
    <3>4. CASE outcome = "error"
      BY <1>0, <3>1, <3>4 DEF tally, Stats
    <3> QED
      BY <3>2, <3>3, <3>4 DEF Outcome
  <2> QED
    BY <2>1, <2>2
<1>3. ASSUME NEW r \in Run, NEW taken \in BOOLEAN, Interrupt(r, taken) PROVE Agree
  <2>1. CASE q # r
    <3>1. stats'[q] = stats[q] /\ received'[q] = received[q] /\ pc'[q] = pc[q]
      BY <1>3, <2>1 DEF Interrupt, Goto, TypeOK
    <3> QED
      BY <1>1, <3>1
  <2>2. CASE q = r
    <3>1. /\ pc[q] # "interrupted" /\ pc'[q] = "interrupted" /\ stats'[q] = stats[q]
          /\ received'[q] \in {received[q], received[q] + 1}
      BY <1>3, <2>2 DEF Interrupt, Goto, TypeOK, Running
    <3> QED
      BY <1>0, <3>1 DEF Stats
  <2> QED
    BY <2>1, <2>2
<1>4. ASSUME NEW r \in Run, Start(r) \/ Post(r) \/ Continue(r) \/ End(r) PROVE Agree
  <2>1. /\ stats'[q] = stats[q] /\ received'[q] = received[q]
        /\ pc[q] = "interrupted" => pc'[q] = "interrupted"
    BY <1>4 DEF Start, Post, Continue, End, Goto, TypeOK
  <2> QED
    BY <1>1, <2>1
<1>5. CASE UNCHANGED vars
  BY <1>1, <1>5 DEF vars
<1> QED
  BY <1>2, <1>3, <1>4, <1>5 DEF Next, Step

(* An execution's counters agree with each other and with what the         *)
(* endpoint has taken, whatever is answered, lost or interrupted.          *)
THEOREM AccountsHold == Spec => []AccountsAgree
<1>1. ASSUME Init PROVE AccountsAgree
  <2>1. \A r \in Run : stats[r] = RunStats /\ received[r] = 0 /\ pc[r] = "idle"
    BY <1>1 DEF Init
  <2>2. ASSUME NEW r \in Run
        PROVE  /\ stats[r].sent = 0 /\ stats[r].passed = 0 /\ stats[r].failed = 0
               /\ stats[r].errors = 0 /\ received[r] = 0 /\ pc[r] # "interrupted"
    BY <2>1 DEF RunStats
  <2>3. ASSUME NEW r \in Run
        PROVE  /\ stats[r].passed + stats[r].failed = stats[r].sent
               /\ stats[r].errors <= stats[r].failed
               /\ stats[r].passed <= received[r]
               /\ received[r] <= stats[r].sent
                                  + (IF pc[r] = "interrupted" THEN 1 ELSE 0)
    BY <2>2
  <2> QED
    BY <2>3 DEF AccountsAgree
<1> QED
  BY <1>1, InitType, TypeStep, AccountsStep, PTL DEF Spec

-----------------------------------------------------------------------------
(* Dividing with a remainder, as far as the turns of the payloads need it. *)
LEMMA Remainder ==
  ASSUME NEW q \in Nat, NEW t \in Nat, t > 0, NEW m \in 0 .. t - 1
  PROVE  (q * t + m) % t = m
  OBVIOUS

LEMMA QuotientIsUnique ==
  ASSUME NEW q \in Nat, NEW t \in Nat, t > 0, NEW m \in 0 .. t - 1,
         NEW c \in Int, q * t + m = t * c
  PROVE  m = 0 /\ q = c
<1>1. t * (c - q) = m
  BY Z3
<1>2. c - q >= 1 => t * (c - q) >= t
  BY Z3
<1>3. c - q <= -1 => t * (c - q) <= -t
  BY Z3
<1>4. c - q = 0 => m = 0
  BY <1>1, Z3
<1> QED
  BY <1>1, <1>2, <1>3, <1>4

LEMMA NextTurn ==
  ASSUME NEW q \in Nat, NEW t \in Nat, t > 0, NEW m \in 0 .. t - 1
  PROVE  \E q2 \in Nat, m2 \in 0 .. t - 1 :
            /\ q2 * t + m2 = q * t + m + 1
            /\ \A k \in 1 .. t : (IF k <= m2 THEN q2 + 1 ELSE q2) =
                   (IF k <= m THEN q + 1 ELSE q) + (IF k = m + 1 THEN 1 ELSE 0)
<1>1. CASE m + 1 < t
  <2>1. m + 1 \in 0 .. t - 1 /\ q * t \in Nat
    BY <1>1
  <2>2. /\ q * t + (m + 1) = q * t + m + 1
        /\ \A k \in 1 .. t : (IF k <= m + 1 THEN q + 1 ELSE q) =
               (IF k <= m THEN q + 1 ELSE q) + (IF k = m + 1 THEN 1 ELSE 0)
    BY <2>1
  <2> QED
    BY <2>1, <2>2
<1>2. CASE m + 1 = t
  <2>1. (q + 1) * t = q * t + t /\ q * t \in Nat
    OBVIOUS
  <2>2. /\ (q + 1) * t + 0 = q * t + m + 1
        /\ \A k \in 1 .. t : (IF k <= 0 THEN (q + 1) + 1 ELSE q + 1) =
               (IF k <= m THEN q + 1 ELSE q) + (IF k = m + 1 THEN 1 ELSE 0)
    BY <1>2, <2>1
  <2>3. q + 1 \in Nat /\ 0 \in 0 .. t - 1
    OBVIOUS
  <2> QED
    BY <2>2, <2>3
<1> QED
  BY <1>1, <1>2

(* The payloads of r were sent in q whole rounds and the first m of the    *)
(* next one.                                                               *)
Rounds(r, q, m) ==
    \A k \in 1 .. config[r].tasks : posted[r][k] = IF k <= m THEN q + 1 ELSE q

(* What the loop's own counter and the number sent amount to then.         *)
Position(r, n) ==
    /\ pc[r] = "idle" => i[r] = 0 /\ stats[r].sent = 0 /\ n = 0
    /\ pc[r] = "loop" => i[r] = n /\ stats[r].sent = n
    /\ pc[r] = "posting" => i[r] + 1 = n /\ stats[r].sent + 1 = n
    /\ pc[r] = "answered" => i[r] + 1 = n /\ stats[r].sent = n

(* The total is not passed before it is compared, and ends the loop; a     *)
(* negative one is passed by the first payload.                            *)
Remaining(r, n) ==
    /\ config[r].count > 0 =>
          /\ pc[r] \in {"idle", "loop"} => n < total_tasks(r)
          /\ pc[r] \in {"posting", "answered"} => n <= total_tasks(r)
          /\ pc[r] \in {"left", "done"} => n = total_tasks(r)
    /\ config[r].count < 0 =>
          /\ pc[r] \in {"idle", "loop"} => n = 0
          /\ pc[r] \in {"posting", "answered", "left", "done"} => n = 1

TurnOf(r) ==
    config[r].tasks > 0 =>
        \E q \in Nat : \E m \in 0 .. config[r].tasks - 1 :
            /\ Rounds(r, q, m)
            /\ Position(r, q * config[r].tasks + m)
            /\ Remaining(r, q * config[r].tasks + m)

(* Without payloads an execution never gets past the first of its sends.   *)
NoTurn(r) ==
    config[r].tasks = 0 => pc[r] \notin {"posting", "answered", "left", "done"}

Turns == \A r \in Run : TurnOf(r) /\ NoTurn(r)

(* Whatever the number of payloads, one is the first of the first round.   *)
LEMMA OneIsTheFirst ==
  ASSUME NEW q \in Nat, NEW t \in Nat, t > 0, NEW m \in Nat, q * t + m = 1
  PROVE  (q = 0 /\ m = 1) \/ (q = 1 /\ m = 0 /\ t = 1)
<1>1. CASE q = 0
  BY <1>1
<1>2. CASE q >= 1
  <2>1. q * t >= q /\ q * t >= t
    BY <1>2
  <2> QED
    BY <1>2, <2>1
<1> QED
  BY <1>1, <1>2

(* What a negative count multiplies to.                                    *)
LEMMA NegativeTotal ==
  ASSUME NEW t \in Nat, NEW c \in Int, c < 0
  PROVE  t * c <= 0
OBVIOUS

LEMMA TurnsInit == Init => Turns
<1> SUFFICES ASSUME Init, NEW r \in Run PROVE TurnOf(r) /\ NoTurn(r)
  BY DEF Turns
<1>1. /\ config[r].tasks \in Nat /\ config[r].count \in Int
      /\ pc[r] = "idle" /\ i[r] = 0 /\ stats[r].sent = 0
      /\ posted[r] = [k \in 1 .. config[r].tasks |-> 0]
  BY SimulatorAssumption DEF Init, RunStats
<1>2. ASSUME config[r].tasks > 0 PROVE TurnOf(r)
  <2>1. Rounds(r, 0, 0)
    BY <1>1 DEF Rounds
  <2>2. 0 * config[r].tasks + 0 = 0
    BY <1>1
  <2>3. config[r].count > 0 => 0 < total_tasks(r)
    BY <1>1, <1>2 DEF total_tasks
  <2>4. Position(r, 0) /\ Remaining(r, 0)
    BY <1>1, <2>3 DEF Position, Remaining
  <2>5. 0 \in 0 .. config[r].tasks - 1
    BY <1>1, <1>2
  <2> QED
    BY <2>1, <2>2, <2>4, <2>5 DEF TurnOf
<1> QED
  BY <1>1, <1>2 DEF TurnOf, NoTurn

LEMMA TurnKept ==
  ASSUME NEW r \in Run, TurnOf(r), NoTurn(r), config' = config,
         posted'[r] = posted[r], pc'[r] = pc[r], i'[r] = i[r],
         stats'[r].sent = stats[r].sent
  PROVE  TurnOf(r)' /\ NoTurn(r)'
<1>1. NoTurn(r)'
  BY DEF NoTurn
<1>2. ASSUME config[r].tasks > 0 PROVE TurnOf(r)'
  <2>1. PICK q \in Nat : \E m \in 0 .. config[r].tasks - 1 :
               /\ Rounds(r, q, m)
               /\ Position(r, q * config[r].tasks + m)
               /\ Remaining(r, q * config[r].tasks + m)
    BY <1>2 DEF TurnOf
  <2>2. PICK m \in 0 .. config[r].tasks - 1 :
               /\ Rounds(r, q, m)
               /\ Position(r, q * config[r].tasks + m)
               /\ Remaining(r, q * config[r].tasks + m)
    BY <2>1
  <2>3. Rounds(r, q, m)'
    BY <2>2 DEF Rounds
  <2>4. Position(r, q * config[r].tasks + m)'
    BY <2>2 DEF Position
  <2>5. Remaining(r, q * config[r].tasks + m)'
    BY <2>2 DEF Remaining, total_tasks
  <2> QED
    BY <2>3, <2>4, <2>5 DEF TurnOf
<1> QED
  BY <1>1, <1>2 DEF TurnOf

(* A step of r that posts nothing keeps the turn if it keeps the position. *)
LEMMA TurnMoved ==
  ASSUME NEW r \in Run, TurnOf(r), config' = config, posted'[r] = posted[r],
         \A n \in Nat : Position(r, n) /\ Remaining(r, n)
                          => Position(r, n)' /\ Remaining(r, n)',
         config[r].tasks \in Nat
  PROVE  TurnOf(r)'
<1> SUFFICES ASSUME config[r].tasks > 0 PROVE TurnOf(r)'
  BY DEF TurnOf
<1>1. PICK q \in Nat : \E m \in 0 .. config[r].tasks - 1 :
             /\ Rounds(r, q, m)
             /\ Position(r, q * config[r].tasks + m)
             /\ Remaining(r, q * config[r].tasks + m)
  BY DEF TurnOf
<1>2. PICK m \in 0 .. config[r].tasks - 1 :
             /\ Rounds(r, q, m)
             /\ Position(r, q * config[r].tasks + m)
             /\ Remaining(r, q * config[r].tasks + m)
  BY <1>1
<1>3. q * config[r].tasks + m \in Nat
  OBVIOUS
<1>4. PICK n \in Nat : n = q * config[r].tasks + m
  BY <1>3
<1>5. Position(r, n)' /\ Remaining(r, n)'
  BY <1>2, <1>4
<1>6. Rounds(r, q, m)'
  BY <1>2 DEF Rounds
<1>7. n = q * config'[r].tasks + m
  BY <1>4
<1>8. Position(r, q * config[r].tasks + m)' /\ Remaining(r, q * config[r].tasks + m)'
  BY <1>5, <1>7 DEF Position, Remaining
<1> QED
  BY <1>6, <1>8 DEF TurnOf

LEMMA TurnPosted ==
  ASSUME TypeOK, NEW r \in Run, TurnOf(r), Post(r), config[r].tasks > 0
  PROVE  TurnOf(r)'
<1>1. /\ config' = config /\ pc[r] = "loop" /\ pc'[r] = "posting"
      /\ i'[r] = i[r] /\ stats'[r] = stats[r]
      /\ posted' = [posted EXCEPT ![r][task(r)] = @ + 1]
      /\ config[r].tasks \in Nat /\ config[r].count \in Int
  BY SimulatorAssumption DEF Post, Goto, TypeOK
<1> DEFINE t == config[r].tasks
<1>2. PICK q \in Nat : \E m \in 0 .. t - 1 :
             Rounds(r, q, m) /\ Position(r, q * t + m) /\ Remaining(r, q * t + m)
  BY DEF TurnOf
<1>3. PICK m \in 0 .. t - 1 :
             Rounds(r, q, m) /\ Position(r, q * t + m) /\ Remaining(r, q * t + m)
  BY <1>2
<1>4. i[r] = q * t + m /\ stats[r].sent = q * t + m
  BY <1>1, <1>3 DEF Position
<1>5. task(r) = m + 1
  <2>1. (q * t + m) % t = m
    BY <1>1, Remainder
  <2> QED
    BY <1>4, <2>1 DEF task
<1>6. \A k \in 1 .. t : posted'[r][k] = posted[r][k] + (IF k = m + 1 THEN 1 ELSE 0)
  <2>1. posted[r] \in [1 .. t -> Nat] /\ DOMAIN posted = Run
    BY DEF TypeOK
  <2>2. posted'[r] = [posted[r] EXCEPT ![m + 1] = posted[r][m + 1] + 1]
    BY <1>1, <1>5, <2>1
  <2>3. ASSUME NEW k \in 1 .. t
        PROVE  posted'[r][k] = posted[r][k] + (IF k = m + 1 THEN 1 ELSE 0)
    <3>1. posted[r][k] \in Nat
      BY <2>1
    <3> QED
      BY <2>1, <2>2, <3>1
  <2> QED
    BY <2>3
<1>7. PICK q2 \in Nat, m2 \in 0 .. t - 1 :
             /\ q2 * t + m2 = q * t + m + 1
             /\ \A k \in 1 .. t : (IF k <= m2 THEN q2 + 1 ELSE q2) =
                    (IF k <= m THEN q + 1 ELSE q) + (IF k = m + 1 THEN 1 ELSE 0)
  <2>1. t \in Nat /\ t > 0 /\ m \in 0 .. t - 1
    BY <1>1, <1>3
  <2> HIDE DEF t
  <2> QED
    BY <2>1, NextTurn
<1>8. \A k \in 1 .. t : posted'[r][k] = IF k <= m2 THEN q2 + 1 ELSE q2
  BY <1>3, <1>6, <1>7 DEF Rounds
<1>9. Rounds(r, q2, m2)'
  BY <1>1, <1>8 DEF Rounds
<1>10. q * t + m \in Nat /\ total_tasks(r) \in Int
  BY <1>1 DEF total_tasks
<1>11. PICK n \in Nat : n = q * t + m
  BY <1>10
<1>12. q2 * t + m2 = n + 1 /\ i[r] = n /\ stats[r].sent = n /\ Remaining(r, n)
  BY <1>3, <1>4, <1>7, <1>11
<1>13. Position(r, n + 1)'
  BY <1>1, <1>12 DEF Position
<1>14. Remaining(r, n + 1)'
  <2>1. total_tasks(r)' = total_tasks(r)
    BY <1>1 DEF total_tasks
  <2>2. /\ config[r].count > 0 => n + 1 <= total_tasks(r)
        /\ config[r].count < 0 => n + 1 = 1
    BY <1>1, <1>10, <1>12 DEF Remaining
  <2> QED
    BY <1>1, <2>1, <2>2 DEF Remaining
<1>15. Position(r, q2 * config[r].tasks + m2)' /\ Remaining(r, q2 * config[r].tasks + m2)'
  <2>1. q2 * config'[r].tasks + m2 = n + 1
    BY <1>1, <1>12
  <2> QED
    BY <1>13, <1>14, <2>1 DEF Position, Remaining
<1> QED
  BY <1>1, <1>9, <1>15 DEF TurnOf

LEMMA TurnsStep == TypeOK /\ Turns /\ [Next]_vars => Turns'
<1> SUFFICES ASSUME TypeOK, Turns, [Next]_vars, NEW x \in Run
             PROVE TurnOf(x)' /\ NoTurn(x)'
  BY DEF Turns
<1>0. /\ TurnOf(x) /\ NoTurn(x)
      /\ config[x].tasks \in Nat /\ config[x].count \in Int
      /\ total_tasks(x) \in Int /\ i[x] \in Nat /\ stats[x].sent \in Nat
  BY SimulatorAssumption DEF Turns, TypeOK, Stats, total_tasks
<1>1. ASSUME NEW r \in Run, Start(r) PROVE TurnOf(x)' /\ NoTurn(x)'
  <2>1. CASE x # r
    BY <1>0, <1>1, <2>1, TurnKept DEF Start, Goto, TypeOK
  <2>2. CASE x = r
    <3>1. /\ config' = config /\ posted' = posted /\ i' = i /\ stats' = stats
          /\ pc[x] = "idle" /\ pc'[x] \in {"loop", "failed"}
      BY <1>1, <2>2 DEF Start, Goto, TypeOK
    <3>2. ASSUME NEW n \in Nat, Position(x, n), Remaining(x, n)
          PROVE  Position(x, n)' /\ Remaining(x, n)'
      BY <3>1, <3>2 DEF Position, Remaining, total_tasks
    <3> QED
      BY <1>0, <3>1, <3>2, TurnMoved DEF NoTurn
  <2> QED
    BY <2>1, <2>2
<1>2. ASSUME NEW r \in Run, Post(r) PROVE TurnOf(x)' /\ NoTurn(x)'
  <2>1. CASE x # r
    <3>1. /\ config' = config /\ i' = i /\ stats' = stats /\ pc'[x] = pc[x]
          /\ posted'[x] = posted[x]
      BY <1>2, <2>1 DEF Post, Goto, TypeOK
    <3> QED
      BY <1>0, <3>1, TurnKept
  <2>2. CASE x = r /\ config[x].tasks = 0
    BY <1>0, <1>2, <2>2 DEF Post, Goto, TypeOK, TurnOf, NoTurn
  <2>3. CASE x = r /\ config[x].tasks > 0
    <3>1. TurnOf(x)'
      BY <1>0, <1>2, <2>3, TurnPosted
    <3>2. config' = config
      BY <1>2 DEF Post
    <3> QED
      BY <2>3, <3>1, <3>2 DEF NoTurn
  <2> QED
    BY <1>0, <2>1, <2>2, <2>3
<1>3. ASSUME NEW r \in Run, NEW outcome \in Outcome, NEW taken \in BOOLEAN,
             Answer(r, outcome, taken)
      PROVE  TurnOf(x)' /\ NoTurn(x)'
  <2>1. CASE x # r
    <3>1. /\ config' = config /\ i' = i /\ stats'[x] = stats[x] /\ pc'[x] = pc[x]
          /\ posted' = posted
      BY <1>3, <2>1 DEF Answer, Goto, TypeOK
    <3> QED
      BY <1>0, <3>1, TurnKept
  <2>2. CASE x = r
    <3>1. /\ config' = config /\ posted' = posted /\ i' = i
          /\ stats'[x] = tally(stats[x], outcome)
          /\ pc[x] = "posting" /\ pc'[x] = "answered"
      BY <1>3, <2>2 DEF Answer, Goto, TypeOK
    <3>2. stats'[x].sent = stats[x].sent + 1
      BY <3>1 DEF tally
    <3>3. ASSUME NEW n \in Nat, Position(x, n), Remaining(x, n)
          PROVE  Position(x, n)' /\ Remaining(x, n)'
      BY <3>1, <3>2, <3>3 DEF Position, Remaining, total_tasks
    <3> QED
      BY <1>0, <3>1, <3>3, TurnMoved DEF NoTurn
  <2> QED
    BY <2>1, <2>2
<1>4. ASSUME NEW r \in Run, Continue(r) PROVE TurnOf(x)' /\ NoTurn(x)'
  <2>1. CASE x # r
    <3>1. /\ config' = config /\ i'[x] = i[x] /\ stats' = stats /\ pc'[x] = pc[x]
          /\ posted' = posted
      BY <1>4, <2>1 DEF Continue, Goto, TypeOK
    <3> QED
      BY <1>0, <3>1, TurnKept
  <2>2. CASE x = r
    <3>1. /\ config' = config /\ posted' = posted /\ stats' = stats
          /\ pc[x] = "answered"
          /\ \/ IsLast(x) /\ pc'[x] = "left"
             \/ ~IsLast(x) /\ pc'[x] = "loop" /\ i'[x] = i[x] + 1
      BY <1>4, <2>2 DEF Continue, Goto, TypeOK
    <3>2. ASSUME NEW n \in Nat, Position(x, n), Remaining(x, n)
          PROVE  Position(x, n)' /\ Remaining(x, n)'
      <4>1. stats[x].sent = n /\ i[x] + 1 = n
        BY <3>1, <3>2 DEF Position
      <4>2. /\ config[x].count > 0 => (IsLast(x) <=> n >= total_tasks(x))
            /\ config[x].count < 0 => IsLast(x) /\ n = 1
        <5>1. config[x].count < 0 => total_tasks(x) <= 0
          BY <1>0, NegativeTotal DEF total_tasks
        <5>2. config[x].count < 0 => n = 1
          BY <3>1, <3>2 DEF Remaining
        <5> QED
          BY <1>0, <4>1, <5>1, <5>2 DEF IsLast
      <4>3. total_tasks(x)' = total_tasks(x)
        BY <3>1 DEF total_tasks
      <4>4. Position(x, n)'
        BY <3>1, <4>1 DEF Position
      <4>5. Remaining(x, n)'
        BY <1>0, <3>1, <3>2, <4>2, <4>3 DEF Remaining
      <4> QED
        BY <4>4, <4>5
    <3> QED
      BY <1>0, <3>1, <3>2, TurnMoved DEF NoTurn
  <2> QED
    BY <2>1, <2>2
<1>5. ASSUME NEW r \in Run, End(r) PROVE TurnOf(x)' /\ NoTurn(x)'
  <2>1. /\ config' = config /\ posted' = posted /\ i' = i /\ stats' = stats
        /\ x # r => pc'[x] = pc[x]
        /\ x = r => pc[x] = "left" /\ pc'[x] = "done"
    BY <1>5 DEF End, Goto, TypeOK
  <2>2. CASE x # r
    BY <1>0, <2>1, <2>2, TurnKept
  <2>3. CASE x = r
    <3>1. ASSUME NEW n \in Nat, Position(x, n), Remaining(x, n)
          PROVE  Position(x, n)' /\ Remaining(x, n)'
      BY <2>1, <2>3, <3>1 DEF Position, Remaining, total_tasks
    <3> QED
      BY <1>0, <2>1, <2>3, <3>1, TurnMoved DEF NoTurn
  <2> QED
    BY <2>2, <2>3
<1>6. ASSUME NEW r \in Run, NEW taken \in BOOLEAN, Interrupt(r, taken)
      PROVE  TurnOf(x)' /\ NoTurn(x)'
  <2>1. /\ config' = config /\ posted' = posted /\ i' = i /\ stats' = stats
        /\ x # r => pc'[x] = pc[x]
        /\ x = r => pc'[x] = "interrupted"
    BY <1>6 DEF Interrupt, Goto, TypeOK
  <2>2. CASE x # r
    BY <1>0, <2>1, <2>2, TurnKept
  <2>3. CASE x = r
    <3>1. ASSUME NEW n \in Nat PROVE Position(x, n)' /\ Remaining(x, n)'
      BY <2>1, <2>3 DEF Position, Remaining
    <3> QED
      BY <1>0, <2>1, <2>3, <3>1, TurnMoved DEF NoTurn
  <2> QED
    BY <2>2, <2>3
<1>7. CASE UNCHANGED vars
  <2>1. /\ config' = config /\ posted' = posted /\ i' = i /\ stats' = stats /\ pc' = pc
    BY <1>7 DEF vars
  <2> QED
    BY <1>0, <2>1, TurnKept
<1> QED
  BY <1>1, <1>2, <1>3, <1>4, <1>5, <1>6, <1>7 DEF Next, Step

(* Whatever is answered, the payloads take turns, and an execution with a  *)
(* positive count that ends has sent each as often as it says, one with a  *)
(* negative count the first payload only: the index and the number sent,   *)
(* compared one off, still agree at the total.                             *)
THEOREM PayloadsTakeTurns == Spec => []TakeTurns
<1>1. TypeOK /\ Turns => TakeTurns
  <2> SUFFICES ASSUME TypeOK, Turns, NEW r \in Run,
                      NEW j \in DOMAIN posted[r], NEW k \in DOMAIN posted[r]
               PROVE  /\ j <= k => posted[r][k] \in {posted[r][j], posted[r][j] - 1}
                      /\ pc[r] = "done" /\ config[r].count > 0
                            => posted[r][k] = config[r].count
                      /\ pc[r] = "done" /\ config[r].count < 0
                            => posted[r][k] = IF k = 1 THEN 1 ELSE 0
    BY DEF TakeTurns
  <2>1. /\ config[r].tasks \in Nat /\ config[r].count \in Int
        /\ j \in 1 .. config[r].tasks /\ k \in 1 .. config[r].tasks
    BY SimulatorAssumption DEF TypeOK
  <2>2. PICK q \in Nat : \E m \in 0 .. config[r].tasks - 1 :
               Rounds(r, q, m) /\ Remaining(r, q * config[r].tasks + m)
    BY <2>1 DEF Turns, TurnOf
  <2>3. PICK m \in 0 .. config[r].tasks - 1 :
               Rounds(r, q, m) /\ Remaining(r, q * config[r].tasks + m)
    BY <2>2
  <2>4. /\ posted[r][j] = IF j <= m THEN q + 1 ELSE q
        /\ posted[r][k] = IF k <= m THEN q + 1 ELSE q
    BY <2>1, <2>3 DEF Rounds
  <2>5. j <= k => posted[r][k] \in {posted[r][j], posted[r][j] - 1}
    BY <2>1, <2>4
  <2>6. ASSUME pc[r] = "done", config[r].count > 0 PROVE posted[r][k] = config[r].count
    <3>1. q * config[r].tasks + m = config[r].tasks * config[r].count
      BY <2>3, <2>6 DEF Remaining, total_tasks
    <3>2. m = 0 /\ q = config[r].count
      <4> DEFINE t == config[r].tasks
                 c == config[r].count
      <4>1. t \in Nat /\ t > 0 /\ m \in 0 .. t - 1 /\ c \in Int /\ q * t + m = t * c
        BY <2>1, <2>3, <3>1
      <4> HIDE DEF t, c
      <4>2. m = 0 /\ q = c
        BY <4>1, QuotientIsUnique
      <4> QED
        BY <4>2 DEF c
    <3> QED
      BY <2>1, <2>4, <3>2
  <2>7. ASSUME pc[r] = "done", config[r].count < 0
        PROVE  posted[r][k] = IF k = 1 THEN 1 ELSE 0
    <3>1. q * config[r].tasks + m = 1
      BY <2>3, <2>7 DEF Remaining
    <3>2. (q = 0 /\ m = 1) \/ (q = 1 /\ m = 0 /\ config[r].tasks = 1)
      <4> DEFINE t == config[r].tasks
      <4>1. t \in Nat /\ t > 0 /\ m \in 0 .. t - 1 /\ q * t + m = 1
        BY <2>1, <2>3, <3>1
      <4> HIDE DEF t
      <4>2. (q = 0 /\ m = 1) \/ (q = 1 /\ m = 0 /\ t = 1)
        BY <4>1, OneIsTheFirst
      <4> QED
        BY <4>2 DEF t
    <3> QED
      BY <2>1, <2>4, <3>2
  <2> QED
    BY <2>5, <2>6, <2>7
<1> QED
  BY <1>1, InitType, TypeStep, TurnsInit, TurnsStep, PTL DEF Spec

-----------------------------------------------------------------------------
(* The executions that wrote a start record and no end record are, in some *)
(* set Open, those that are running and those that failed or were          *)
(* interrupted after they had begun. What the records of payloads count    *)
(* beyond the end records is the sum of their counters, and a sum over any *)
(* of them is a value of a function total: adding one adds its counters.   *)
Field == {"sent", "failed", "passed", "errors"}

SumsOver(total, Open, f) ==
    /\ total \in [SUBSET Open -> Nat]
    /\ total[{}] = 0
    /\ \A S \in SUBSET Open : \A x \in Open \ S :
           total[S \cup {x}] = total[S] + stats[x][f]

Owed(Open, f) ==
    \E total : /\ SumsOver(total, Open, f)
               /\ log.records[f] = log.totals[f] + total[Open]

OpenRuns(Open) ==
    /\ \A r \in Open : r \in Run /\ config[r].log /\ pc[r] \notin {"idle", "done"}
    /\ \A r \in Run : config[r].log /\ pc[r] \in Running => r \in Open

Ledger ==
    \E Open : /\ OpenRuns(Open)
              /\ IsFiniteSet(Open)
              /\ log.starts = log.ends + Cardinality(Open)
              /\ \A f \in Field : Owed(Open, f)

(* An execution that has not started has counted nothing.                  *)
IdleIsFresh == \A r \in Run : pc[r] = "idle" => \A f \in Field : stats[r][f] = 0

LogInv == Ledger /\ IdleIsFresh

LEMMA StatsFields ==
  ASSUME NEW s \in Stats, NEW f \in Field
  PROVE  s[f] \in Nat
  BY DEF Stats, Field

(* One result adds to each counter what it would add to any other's.       *)
LEMMA TallyAdds ==
  ASSUME NEW outcome \in Outcome, NEW f \in Field
  PROVE  \E d \in Nat : \A s \in Stats : tally(s, outcome)[f] = s[f] + d
<1> DEFINE d == CASE f = "sent"   -> 1
                  [] f = "passed" -> IF outcome = "expected" THEN 1 ELSE 0
                  [] f = "failed" -> IF outcome = "expected" THEN 0 ELSE 1
                  [] f = "errors" -> IF outcome = "error" THEN 1 ELSE 0
<1>1. d \in Nat
  BY DEF Field
<1>2. ASSUME NEW s \in Stats PROVE tally(s, outcome)[f] = s[f] + d
  BY DEF tally, Stats, Field
<1> QED
  BY <1>1, <1>2

(* The sum over all of Open, with one of them taken out.                   *)
LEMMA SumWithout ==
  ASSUME NEW total, NEW Open, NEW f, SumsOver(total, Open, f), NEW r \in Open
  PROVE  total[Open] = total[Open \ {r}] + stats[r][f]
<1>1. Open \ {r} \in SUBSET Open /\ r \in Open \ (Open \ {r})
  OBVIOUS
<1>2. (Open \ {r}) \cup {r} = Open
  OBVIOUS
<1> QED
  BY <1>1, <1>2 DEF SumsOver

LEMMA SumAdded ==
  ASSUME NEW total, NEW Open, NEW f, SumsOver(total, Open, f),
         NEW r, r \notin Open, stats'[r][f] = 0,
         \A x \in Open : stats'[x][f] = stats[x][f]
  PROVE  \E sum : SumsOver(sum, Open \cup {r}, f)' /\ sum[Open \cup {r}] = total[Open]
<1> DEFINE Wide == Open \cup {r}
           sum == [S \in SUBSET Wide |-> total[S \ {r}]]
<1>1. \A S \in SUBSET Wide : S \ {r} \in SUBSET Open
  OBVIOUS
<1>2. sum \in [SUBSET Wide -> Nat]
  BY <1>1 DEF SumsOver
<1>3. sum[{}] = 0
  <2>1. {} \in SUBSET Wide /\ {} \ {r} = {}
    OBVIOUS
  <2> QED
    BY <2>1 DEF SumsOver
<1>4. ASSUME NEW S \in SUBSET Wide, NEW x \in Wide \ S
      PROVE  sum[S \cup {x}] = sum[S] + stats'[x][f]
  <2>1. sum[S \cup {x}] = total[(S \cup {x}) \ {r}] /\ sum[S] = total[S \ {r}]
    <3>1. S \cup {x} \in SUBSET Wide
      OBVIOUS
    <3> QED
      BY <3>1
  <2>2. total[S \ {r}] \in Nat
    BY <1>1 DEF SumsOver
  <2>3. CASE x = r
    <3>1. (S \cup {x}) \ {r} = S \ {r}
      BY <2>3
    <3>2. sum[S \cup {x}] = total[S \ {r}] /\ sum[S] = total[S \ {r}]
      BY <2>1, <3>1
    <3>3. stats'[x][f] = 0
      BY <2>3
    <3> HIDE DEF sum
    <3> QED
      BY <2>2, <3>2, <3>3
  <2>4. CASE x # r
    <3>1. (S \cup {x}) \ {r} = (S \ {r}) \cup {x} /\ x \in Open \ (S \ {r})
      BY <2>4
    <3>2. total[(S \ {r}) \cup {x}] = total[S \ {r}] + stats[x][f]
      BY <1>1, <3>1 DEF SumsOver
    <3> QED
      BY <2>1, <3>1, <3>2
  <2> QED
    BY <2>3, <2>4
<1>5. sum[Wide] = total[Open]
  <2>1. Wide \in SUBSET Wide /\ Wide \ {r} = Open
    OBVIOUS
  <2> QED
    BY <2>1
<1> HIDE DEF sum
<1>6. SumsOver(sum, Wide, f)'
  BY <1>2, <1>3, <1>4 DEF SumsOver
<1> QED
  BY <1>5, <1>6

LEMMA SumRaised ==
  ASSUME NEW total, NEW Open, NEW f, SumsOver(total, Open, f),
         NEW r \in Open, NEW d \in Nat, stats[r][f] \in Nat,
         \A x \in Open : stats[x][f] \in Nat,
         stats'[r][f] = stats[r][f] + d,
         \A x \in Open : x # r => stats'[x][f] = stats[x][f]
  PROVE  \E sum : SumsOver(sum, Open, f)' /\ sum[Open] = total[Open] + d
<1> DEFINE sum == [S \in SUBSET Open |-> total[S] + (IF r \in S THEN d ELSE 0)]
<1>0. \A S \in SUBSET Open : total[S] \in Nat
  BY DEF SumsOver
<1>1. sum \in [SUBSET Open -> Nat]
  BY <1>0
<1>2. sum[{}] = 0
  BY DEF SumsOver
<1>3. ASSUME NEW S \in SUBSET Open, NEW x \in Open \ S
      PROVE  sum[S \cup {x}] = sum[S] + stats'[x][f]
  <2>1. S \cup {x} \in SUBSET Open
    OBVIOUS
  <2>2. total[S \cup {x}] = total[S] + stats[x][f]
    BY DEF SumsOver
  <2>3. /\ sum[S \cup {x}] = total[S \cup {x}] + (IF r \in S \cup {x} THEN d ELSE 0)
        /\ sum[S] = total[S] + (IF r \in S THEN d ELSE 0)
    BY <2>1
  <2>4. total[S] \in Nat /\ stats[x][f] \in Nat
    BY <1>0
  <2> HIDE DEF sum
  <2>5. CASE x = r
    <3>1. r \in S \cup {x} /\ r \notin S /\ stats'[x][f] = stats[x][f] + d
      BY <2>5
    <3> QED
      BY <2>2, <2>3, <2>4, <3>1
  <2>6. CASE x # r
    <3>1. r \in S \cup {x} <=> r \in S
      BY <2>6
    <3>2. stats'[x][f] = stats[x][f]
      BY <2>6
    <3> QED
      BY <2>2, <2>3, <2>4, <3>1, <3>2
  <2> QED
    BY <2>5, <2>6
<1>4. sum[Open] = total[Open] + d
  OBVIOUS
<1> HIDE DEF sum
<1>5. SumsOver(sum, Open, f)'
  BY <1>1, <1>2, <1>3 DEF SumsOver
<1> QED
  BY <1>4, <1>5

LEMMA SumDropped ==
  ASSUME NEW total, NEW Open, NEW f, SumsOver(total, Open, f), NEW r \in Open,
         \A x \in Open : stats'[x][f] = stats[x][f]
  PROVE  \E sum : /\ SumsOver(sum, Open \ {r}, f)'
                  /\ total[Open] = sum[Open \ {r}] + stats[r][f]
                  /\ sum[Open \ {r}] \in Nat
<1> DEFINE sum == [S \in SUBSET (Open \ {r}) |-> total[S]]
<1>1. sum \in [SUBSET (Open \ {r}) -> Nat] /\ sum[{}] = 0
  BY DEF SumsOver
<1>2. ASSUME NEW S \in SUBSET (Open \ {r}), NEW x \in (Open \ {r}) \ S
      PROVE  sum[S \cup {x}] = sum[S] + stats'[x][f]
  <2>1. S \cup {x} \in SUBSET (Open \ {r}) /\ S \in SUBSET Open /\ x \in Open \ S
    OBVIOUS
  <2> QED
    BY <2>1 DEF SumsOver
<1>3. sum[Open \ {r}] = total[Open \ {r}]
  OBVIOUS
<1>4. sum[Open \ {r}] \in Nat
  BY <1>1
<1> HIDE DEF sum
<1>5. SumsOver(sum, Open \ {r}, f)'
  BY <1>1, <1>2 DEF SumsOver
<1> QED
  BY <1>3, <1>4, <1>5, SumWithout

(* Nothing changes for Open: its executions' counters, the log, and which  *)
(* of them are done or idle.                                               *)
LEMMA LedgerKept ==
  ASSUME NEW Open, OpenRuns(Open), IsFiniteSet(Open),
         log.starts = log.ends + Cardinality(Open),
         \A f \in Field : Owed(Open, f),
         OpenRuns(Open)', log' = log, stats' = stats
  PROVE  Ledger'
<1>1. ASSUME NEW f \in Field PROVE Owed(Open, f)'
  <2>1. PICK total : SumsOver(total, Open, f)
                       /\ log.records[f] = log.totals[f] + total[Open]
    BY DEF Owed
  <2>2. SumsOver(total, Open, f)'
    BY <2>1 DEF SumsOver
  <2> QED
    BY <2>1, <2>2 DEF Owed
<1> QED
  BY <1>1 DEF Ledger

(* A start record puts the execution among those that owe an end record.   *)
LEMMA LedgerStart ==
  ASSUME TypeOK, LogInv, NEW r \in Run, Start(r)
  PROVE  Ledger'
<1>1. PICK Open : /\ OpenRuns(Open) /\ IsFiniteSet(Open)
                  /\ log.starts = log.ends + Cardinality(Open)
                  /\ \A f \in Field : Owed(Open, f)
  BY DEF LogInv, Ledger
<1>2. /\ config' = config /\ stats' = stats /\ pc[r] = "idle" /\ r \notin Open
      /\ \A q \in Run : q # r => pc'[q] = pc[q]
      /\ pc'[r] \in {"loop", "failed"}
      /\ pc'[r] = "failed" => log' = log
      /\ pc'[r] = "loop" => start_report(r)
  BY <1>1 DEF Start, Goto, TypeOK, OpenRuns
<1>3. CASE pc'[r] = "failed" \/ ~config[r].log
  <2>1. log' = log
    BY <1>2, <1>3 DEF start_report, WriteLine
  <2>2. OpenRuns(Open)'
    BY <1>1, <1>2, <1>3 DEF OpenRuns, Running
  <2> QED
    BY <1>1, <1>2, <2>1, <2>2, LedgerKept
<1>4. CASE pc'[r] = "loop" /\ config[r].log
  <2>1. /\ log'.starts = log.starts + 1 /\ log'.ends = log.ends
        /\ log'.records = log.records /\ log'.totals = log.totals
    BY <1>2, <1>4 DEF start_report, WriteLine, TypeOK
  <2>2. OpenRuns(Open \cup {r})'
    BY <1>1, <1>2, <1>4 DEF OpenRuns, Running
  <2>3. IsFiniteSet(Open \cup {r}) /\ Cardinality(Open \cup {r}) = Cardinality(Open) + 1
    BY <1>1, <1>2, FS_AddElement
  <2>4. Cardinality(Open) \in Nat /\ log.ends \in Nat
    BY <1>1, FS_CardinalityType DEF TypeOK
  <2>5. log'.starts = log'.ends + Cardinality(Open \cup {r})
    BY <1>1, <2>1, <2>3, <2>4
  <2>6. ASSUME NEW f \in Field PROVE Owed(Open \cup {r}, f)'
    <3>1. PICK total : SumsOver(total, Open, f)
                         /\ log.records[f] = log.totals[f] + total[Open]
      BY <1>1 DEF Owed
    <3>2. stats'[r][f] = 0
      BY <1>2 DEF LogInv, IdleIsFresh
    <3>3. \A x \in Open : stats'[x][f] = stats[x][f]
      BY <1>2
    <3>4. PICK sum : SumsOver(sum, Open \cup {r}, f)' /\ sum[Open \cup {r}] = total[Open]
      BY <1>2, <3>1, <3>2, <3>3, SumAdded
    <3> QED
      BY <2>1, <3>1, <3>4 DEF Owed
  <2> QED
    BY <2>2, <2>3, <2>5, <2>6 DEF Ledger
<1> QED
  BY <1>2, <1>3, <1>4

(* A record of a payload adds to the file what it adds to the counters.    *)
LEMMA LedgerAnswer ==
  ASSUME TypeOK, LogInv, NEW r \in Run, NEW outcome \in Outcome,
         NEW taken \in BOOLEAN, Answer(r, outcome, taken)
  PROVE  Ledger'
<1>1. PICK Open : /\ OpenRuns(Open) /\ IsFiniteSet(Open)
                  /\ log.starts = log.ends + Cardinality(Open)
                  /\ \A f \in Field : Owed(Open, f)
  BY DEF LogInv, Ledger
<1>2. /\ config' = config /\ pc[r] = "posting" /\ pc'[r] = "answered"
      /\ stats'[r] = tally(stats[r], outcome)
      /\ \A q \in Run : q # r => pc'[q] = pc[q] /\ stats'[q] = stats[q]
      /\ report(r, outcome)
  BY DEF Answer, Goto, TypeOK
<1>3. OpenRuns(Open)'
  BY <1>1, <1>2 DEF OpenRuns, Running
<1>4. /\ log'.starts = log.starts /\ log'.ends = log.ends /\ log'.totals = log.totals
      /\ config[r].log => log'.records = tally(log.records, outcome)
      /\ ~config[r].log => log'.records = log.records
  BY <1>2 DEF report, WriteLine, TypeOK
<1>5. ASSUME NEW f \in Field PROVE Owed(Open, f)'
  <2>1. PICK total : SumsOver(total, Open, f)
                       /\ log.records[f] = log.totals[f] + total[Open]
    BY <1>1 DEF Owed
  <2>2. CASE config[r].log
    <3>1. r \in Open
      BY <1>1, <1>2, <2>2 DEF OpenRuns, Running
    <3>2. PICK d \in Nat : \A s \in Stats : tally(s, outcome)[f] = s[f] + d
      BY TallyAdds
    <3>3. stats \in [Run -> Stats] /\ log.records \in Stats /\ log.totals \in Stats
      BY DEF TypeOK
    <3>4. stats'[r][f] = stats[r][f] + d /\ log'.records[f] = log.records[f] + d
      BY <1>2, <1>4, <2>2, <3>2, <3>3
    <3>5. \A x \in Open : stats[x][f] \in Nat
      BY <1>1, <3>3, StatsFields DEF OpenRuns
    <3>6. \A x \in Open : x # r => stats'[x][f] = stats[x][f]
      BY <1>1, <1>2 DEF OpenRuns
    <3>7. PICK sum : SumsOver(sum, Open, f)' /\ sum[Open] = total[Open] + d
      BY <2>1, <3>1, <3>4, <3>5, <3>6, SumRaised
    <3>8. log.records[f] \in Nat /\ log.totals[f] \in Nat /\ total[Open] \in Nat
      BY <2>1, <3>3, StatsFields DEF SumsOver
    <3>9. log'.records[f] = log'.totals[f] + sum[Open]
      BY <1>4, <2>1, <3>4, <3>7, <3>8
    <3> QED
      BY <3>7, <3>9 DEF Owed
  <2>3. CASE ~config[r].log
    <3>1. \A x \in Open : stats'[x] = stats[x]
      BY <1>1, <1>2, <2>3 DEF OpenRuns
    <3>2. SumsOver(total, Open, f)'
      BY <2>1, <3>1 DEF SumsOver
    <3> QED
      BY <1>4, <2>1, <2>3, <3>2 DEF Owed
  <2> QED
    BY <2>2, <2>3
<1> QED
  BY <1>1, <1>3, <1>4, <1>5 DEF Ledger

(* An end record settles what the execution owed.                          *)
LEMMA LedgerEnd ==
  ASSUME TypeOK, LogInv, NEW r \in Run, End(r)
  PROVE  Ledger'
<1>1. PICK Open : /\ OpenRuns(Open) /\ IsFiniteSet(Open)
                  /\ log.starts = log.ends + Cardinality(Open)
                  /\ \A f \in Field : Owed(Open, f)
  BY DEF LogInv, Ledger
<1>2. /\ config' = config /\ stats' = stats /\ pc[r] = "left" /\ pc'[r] = "done"
      /\ \A q \in Run : q # r => pc'[q] = pc[q]
      /\ end_report(r)
  BY DEF End, Goto, TypeOK
<1>3. CASE ~config[r].log
  <2>1. log' = log
    BY <1>2, <1>3 DEF end_report, WriteLine
  <2>2. OpenRuns(Open)'
    BY <1>1, <1>2, <1>3 DEF OpenRuns, Running
  <2> QED
    BY <1>1, <1>2, <2>1, <2>2, LedgerKept
<1>4. CASE config[r].log
  <2>1. r \in Open
    BY <1>1, <1>2, <1>4 DEF OpenRuns, Running
  <2>2. /\ log'.starts = log.starts /\ log'.ends = log.ends + 1
        /\ log'.records = log.records
        /\ log'.totals = [f \in DOMAIN log.totals |-> log.totals[f] + stats[r][f]]
    BY <1>2, <1>4 DEF end_report, WriteLine, TypeOK
  <2>3. OpenRuns(Open \ {r})'
    BY <1>1, <1>2, <1>4 DEF OpenRuns, Running
  <2>4. IsFiniteSet(Open \ {r}) /\ Cardinality(Open \ {r}) = Cardinality(Open) - 1
    BY <1>1, <2>1, FS_RemoveElement
  <2>5. Cardinality(Open) \in Nat /\ log.ends \in Nat
    BY <1>1, FS_CardinalityType DEF TypeOK
  <2>6. log'.starts = log'.ends + Cardinality(Open \ {r})
    BY <1>1, <2>2, <2>4, <2>5
  <2>7. ASSUME NEW f \in Field PROVE Owed(Open \ {r}, f)'
    <3>1. PICK total : SumsOver(total, Open, f)
                         /\ log.records[f] = log.totals[f] + total[Open]
      BY <1>1 DEF Owed
    <3>2. \A x \in Open : stats'[x][f] = stats[x][f]
      BY <1>2
    <3>3. PICK sum : /\ SumsOver(sum, Open \ {r}, f)'
                     /\ total[Open] = sum[Open \ {r}] + stats[r][f]
                     /\ sum[Open \ {r}] \in Nat
      BY <2>1, <3>1, <3>2, SumDropped
    <3>4. stats[r] \in Stats /\ log.totals \in Stats
      BY DEF TypeOK
    <3>5. stats[r][f] \in Nat /\ log.totals[f] \in Nat /\ f \in DOMAIN log.totals
      BY <3>4, StatsFields DEF Stats, Field
    <3>6. log'.totals[f] = log.totals[f] + stats[r][f]
      BY <2>2, <3>5
    <3>7. log'.records[f] = log'.totals[f] + sum[Open \ {r}]
      BY <2>2, <3>1, <3>3, <3>5, <3>6
    <3> QED
      BY <3>3, <3>7 DEF Owed
  <2> QED
    BY <2>3, <2>4, <2>6, <2>7 DEF Ledger
<1> QED
  BY <1>3, <1>4

LEMMA LedgerStep == TypeOK /\ LogInv /\ [Next]_vars => Ledger'
<1> SUFFICES ASSUME TypeOK, LogInv, [Next]_vars PROVE Ledger'
  OBVIOUS
<1>1. PICK Open : /\ OpenRuns(Open) /\ IsFiniteSet(Open)
                  /\ log.starts = log.ends + Cardinality(Open)
                  /\ \A f \in Field : Owed(Open, f)
  BY DEF LogInv, Ledger
<1>2. ASSUME NEW r \in Run, Start(r) PROVE Ledger'
  BY <1>2, LedgerStart
<1>3. ASSUME NEW r \in Run, NEW outcome \in Outcome, NEW taken \in BOOLEAN,
             Answer(r, outcome, taken)
      PROVE  Ledger'
  BY <1>3, LedgerAnswer
<1>4. ASSUME NEW r \in Run, End(r) PROVE Ledger'
  BY <1>4, LedgerEnd
<1>5. ASSUME NEW r \in Run, NEW taken \in BOOLEAN,
             Post(r) \/ Continue(r) \/ Interrupt(r, taken)
      PROVE  Ledger'
  <2>1. /\ config' = config /\ stats' = stats /\ log' = log /\ pc[r] \in Running
        /\ pc'[r] \in Running \cup {"failed", "interrupted"}
        /\ \A q \in Run : q # r => pc'[q] = pc[q]
    BY <1>5 DEF Post, Continue, Interrupt, Goto, TypeOK, Running
  <2>2. OpenRuns(Open)'
    BY <1>1, <2>1 DEF OpenRuns, Running
  <2> QED
    BY <1>1, <2>1, <2>2, LedgerKept
<1>6. CASE UNCHANGED vars
  <2>1. config' = config /\ stats' = stats /\ log' = log /\ pc' = pc
    BY <1>6 DEF vars
  <2>2. OpenRuns(Open)'
    BY <1>1, <2>1 DEF OpenRuns
  <2> QED
    BY <1>1, <2>1, <2>2, LedgerKept
<1> QED
  BY <1>2, <1>3, <1>4, <1>5, <1>6 DEF Next, Step

LEMMA FreshStep == TypeOK /\ IdleIsFresh /\ [Next]_vars => IdleIsFresh'
<1> SUFFICES ASSUME TypeOK, IdleIsFresh, [Next]_vars,
                    NEW q \in Run, pc'[q] = "idle"
             PROVE  pc[q] = "idle" /\ stats'[q] = stats[q]
  BY DEF IdleIsFresh
<1>1. ASSUME NEW r \in Run, NEW outcome \in Outcome, NEW taken \in BOOLEAN,
             Answer(r, outcome, taken)
      PROVE  pc[q] = "idle" /\ stats'[q] = stats[q]
  BY <1>1 DEF Answer, Goto, TypeOK
<1>2. ASSUME NEW r \in Run, NEW taken \in BOOLEAN,
             Start(r) \/ Post(r) \/ Continue(r) \/ End(r) \/ Interrupt(r, taken)
      PROVE  pc[q] = "idle" /\ stats'[q] = stats[q]
  BY <1>2 DEF Start, Post, Continue, End, Interrupt, Goto, TypeOK
<1>3. CASE UNCHANGED vars
  BY <1>3 DEF vars
<1> QED
  BY <1>1, <1>2, <1>3 DEF Next, Step

(* Whatever mixture of executions has appended to the log, whichever of    *)
(* them failed or were interrupted: when it holds as many end records as   *)
(* start records, no execution is open, and the totals of the end records  *)
(* are the counts of the records of payloads.                              *)
THEOREM LogHolds == Spec => []LogBalances
<1>1. ASSUME Init PROVE LogInv
  <2>1. /\ \A r \in Run : pc[r] = "idle" /\ stats[r] = RunStats
        /\ log = NoLog
    BY <1>1 DEF Init
  <2>2. \A f \in Field : RunStats[f] = 0
    BY DEF Field, RunStats
  <2>3. IdleIsFresh
    BY <2>1, <2>2 DEF IdleIsFresh
  <2>4. OpenRuns({})
    BY <2>1 DEF OpenRuns, Running
  <2>5. ASSUME NEW f \in Field PROVE Owed({}, f)
    <3> DEFINE total == [S \in SUBSET {} |-> 0]
    <3>1. SumsOver(total, {}, f) /\ total[{}] = 0
      BY DEF SumsOver
    <3>2. log.records[f] = 0 /\ log.totals[f] = 0
      BY <2>1, <2>2 DEF NoLog
    <3> HIDE DEF total
    <3> QED
      BY <3>1, <3>2 DEF Owed
  <2>6. IsFiniteSet({}) /\ log.starts = log.ends + Cardinality({})
    BY <2>1, FS_EmptySet DEF NoLog
  <2> QED
    BY <2>3, <2>4, <2>5, <2>6 DEF LogInv, Ledger
<1>2. TypeOK /\ LogInv /\ [Next]_vars => LogInv'
  BY LedgerStep, FreshStep DEF LogInv
<1>3. TypeOK /\ LogInv => LogBalances
  <2> SUFFICES ASSUME TypeOK, LogInv, log.starts = log.ends
               PROVE  log.totals = log.records
    BY DEF LogBalances
  <2>1. PICK Open : /\ IsFiniteSet(Open)
                    /\ log.starts = log.ends + Cardinality(Open)
                    /\ \A f \in Field : Owed(Open, f)
    BY DEF LogInv, Ledger
  <2>2. Cardinality(Open) \in Nat /\ log.ends \in Nat
    BY <2>1, FS_CardinalityType DEF TypeOK
  <2>3. Cardinality(Open) = 0
    BY <2>1, <2>2
  <2>4. Open = {}
    BY <2>1, <2>3, FS_EmptySet
  <2>5. log.records \in Stats /\ log.totals \in Stats
    BY DEF TypeOK
  <2>6. ASSUME NEW f \in Field PROVE log.records[f] = log.totals[f]
    <3>1. PICK total : SumsOver(total, Open, f)
                         /\ log.records[f] = log.totals[f] + total[Open]
      BY <2>1 DEF Owed
    <3>2. total[Open] = 0 /\ log.totals[f] \in Nat
      BY <2>4, <2>5, <3>1, StatsFields DEF SumsOver
    <3> QED
      BY <3>1, <3>2
  <2> QED
    BY <2>5, <2>6 DEF Stats, Field
<1> QED
  BY <1>1, <1>2, <1>3, InitType, TypeStep, PTL DEF Spec
=============================================================================
