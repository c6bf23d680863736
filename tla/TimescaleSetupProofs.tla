-------------------------- MODULE TimescaleSetupProofs --------------------------
(* Proofs about TimescaleSetup for any number of executions and intervals.  *)
EXTENDS TimescaleSetup, TLAPS

LEMMA InitHolds == Init => IInv
  BY TimescaleAssumption
     DEF Init, IInv, TypeOK, KeyGoneBeforePartition, PassedIsInPlace, Table,
         Statement, Outcome

(* Every step only adds to the schema, and an execution moves to the next   *)
(* statement only by the step that puts the present one's effect in place.  *)
LEMMA StepHolds == IInv /\ [Next]_vars => IInv'
<1> SUFFICES ASSUME IInv, [Next]_vars PROVE IInv'
  OBVIOUS
<1> USE TimescaleAssumption
        DEF IInv, TypeOK, KeyGoneBeforePartition, PassedIsInPlace, Table,
            Statement, Outcome, To, schema
<1>1. CASE Migrate
  BY <1>1 DEF Migrate
<1>2. ASSUME NEW d \in Days, ChangeEnv(d) PROVE IInv'
  BY <1>2 DEF ChangeEnv
<1>3. ASSUME NEW r \in Run, Start(r) PROVE IInv'
  BY <1>3 DEF Start
<1>4. ASSUME NEW r \in Run, _drop_constraints(r) PROVE IInv'
  BY <1>4 DEF _drop_constraints
<1>5. ASSUME NEW r \in Run, _create_hypertable(r) PROVE IInv'
  BY <1>5 DEF _create_hypertable
<1>6. ASSUME NEW r \in Run, _create_indexes(r) PROVE IInv'
  BY <1>6 DEF _create_indexes
<1>7. ASSUME NEW r \in Run, _configure_retention(r) PROVE IInv'
  <2>1. /\ pc[r] = "retention"
        /\ retention' \in Days
        /\ days[r] # Null
        /\ announced' \in Days \cup {Null}
    BY <1>7 DEF _configure_retention
  <2> QED
    BY <1>7, <2>1 DEF _configure_retention
<1>8. ASSUME NEW r \in Run, _configure_compression(r) PROVE IInv'
  BY <1>8 DEF _configure_compression
<1>9. ASSUME NEW r \in Run, Fail(r) \/ Kill(r) PROVE IInv'
  BY <1>9 DEF Fail, Kill
<1>10. CASE UNCHANGED vars
  BY <1>10 DEF vars
<1> QED
  BY <1>1, <1>2, <1>3, <1>4, <1>5, <1>6, <1>7, <1>8, <1>9, <1>10 DEF Next

(* The invariant the run checks on three executions, for any number.        *)
THEOREM InvariantHolds == Spec => []IInv
  BY InitHolds, StepHolds, PTL DEF Spec

(* Whatever was killed, refused or overlapped before, an execution that     *)
(* ends leaves the hypertable, the index and a retention policy.            *)
THEOREM CompletedRunsAreComplete == Spec => []CompletedIsComplete
<1>1. IInv => CompletedIsComplete
  BY DEF IInv, PassedIsInPlace, CompletedIsComplete
<1> QED
  BY <1>1, InvariantHolds, PTL
=============================================================================
