--------------------------- MODULE RoleSetupProofs ---------------------------
(* Proofs about RoleSetup for any executions, names in the environment and  *)
(* permissions the migrations have created.                                 *)
EXTENDS RoleSetup, SequenceTheorems, FiniteSetTheorems, TLAPS

(***************************************************************************)
(* The sequences of permissions.                                           *)
(***************************************************************************)
Types == {"add", "change", "view"}

LEMMA OnIsSeq ==
  ASSUME NEW m \in Model, NEW types \in Seq(Types), types # <<>>
  PROVE  On(m, types) \in Seq(Perm) /\ On(m, types) # <<>>
<1>1. On(m, types) \in [1 .. Len(types) -> Perm] /\ Len(types) \in Nat
  BY DEF On, Perm, Types
<1>2. Len(types) # 0
  BY EmptySeq
<1> QED
  BY <1>1, <1>2

LEMMA ConfigIsSeq ==
  \A role \in Role : roles_config[role] \in Seq(Perm) /\ roles_config[role] # <<>>
<1>0. /\ <<"view">> \in Seq(Types) /\ <<"view">> # <<>>
      /\ <<"change", "view">> \in Seq(Types) /\ <<"change", "view">> # <<>>
      /\ <<"add", "change", "view">> \in Seq(Types) /\ <<"add", "change", "view">> # <<>>
  BY DEF Types
<1>1. \A m \in Model : View(m) \in Seq(Perm) /\ View(m) # <<>>
  BY <1>0, OnIsSeq DEF View
<1>2. /\ On("Device", <<"add", "change", "view">>) \in Seq(Perm)
      /\ On("Device", <<"add", "change", "view">>) # <<>>
      /\ On("Event", <<"change", "view">>) \in Seq(Perm)
      /\ On("Rule", <<"add", "change", "view">>) \in Seq(Perm)
  BY <1>0, OnIsSeq DEF Model
<1>3. Shown \in Seq(Perm)
  BY <1>1 DEF Shown, Model
<1>4. Operators \in Seq(Perm) /\ Viewers \in Seq(Perm)
  BY <1>1, <1>2, <1>3 DEF Operators, Viewers, Model
<1>5. Operators # <<>> /\ Viewers # <<>>
  BY <1>1, <1>2, <1>3, ConcatProperties DEF Operators, Viewers, Model
<1> QED
  BY <1>4, <1>5 DEF roles_config, Role

LEMMA HeadAndTail ==
  ASSUME NEW seq \in Seq(Perm), seq # <<>>
  PROVE  /\ Head(seq) \in Perm /\ Tail(seq) \in Seq(Perm)
         /\ SetOf(seq) = {Head(seq)} \cup SetOf(Tail(seq))
         /\ Len(seq) = 1 => Tail(seq) = <<>>
         /\ Len(seq) # 1 => Tail(seq) # <<>>
<1>1. /\ Head(seq) \in Perm /\ Tail(seq) \in Seq(Perm) /\ Len(seq) \in Nat /\ Len(seq) # 0
      /\ Len(Tail(seq)) = Len(seq) - 1 /\ DOMAIN Tail(seq) = 1 .. Len(seq) - 1
      /\ \A i \in 1 .. Len(seq) - 1 : Tail(seq)[i] = seq[i + 1]
      /\ Head(seq) = seq[1]
  BY EmptySeq
<1>2. ASSUME NEW p \in SetOf(seq) PROVE p \in {Head(seq)} \cup SetOf(Tail(seq))
  <2>1. PICK i \in 1 .. Len(seq) : p = seq[i]
    BY <1>2 DEF SetOf
  <2>2. CASE i = 1
    BY <1>1, <2>1, <2>2
  <2>3. CASE i # 1
    <3>1. i - 1 \in 1 .. Len(seq) - 1 /\ Tail(seq)[i - 1] = p
      BY <1>1, <2>1, <2>3
    <3> QED
      BY <1>1, <3>1 DEF SetOf
  <2> QED
    BY <2>2, <2>3
<1>3. ASSUME NEW p \in {Head(seq)} \cup SetOf(Tail(seq)) PROVE p \in SetOf(seq)
  <2>1. CASE p = Head(seq)
    BY <1>1, <2>1 DEF SetOf
  <2>2. CASE p \in SetOf(Tail(seq))
    <3>1. PICK i \in 1 .. Len(seq) - 1 : p = Tail(seq)[i]
      BY <1>1, <2>2 DEF SetOf
    <3>2. i + 1 \in 1 .. Len(seq) /\ p = seq[i + 1]
      BY <1>1, <3>1
    <3> QED
      BY <3>2 DEF SetOf
  <2> QED
    BY <1>3, <2>1, <2>2
<1>4. /\ Len(seq) = 1 => Tail(seq) = <<>>
      /\ Len(seq) # 1 => Tail(seq) # <<>>
  BY <1>1, EmptySeq
<1> QED
  BY <1>1, <1>2, <1>3, <1>4

(***************************************************************************)
(* Where a run goes when it has done with a part or a role.                *)
(***************************************************************************)
LEMMA Entered ==
  ASSUME NEW r \in Run, NEW k \in 0 .. 3, NEW skipped, EnterPart(r, k, skipped)
  PROVE  \E part \in {"superuser", "group", "user", "end"}, st \in {"running", "done"} :
           /\ pc' = [pc EXCEPT ![r] = part]
           /\ status' = [status EXCEPT ![r] = st]
           /\ at' = [at EXCEPT ![r] = 1]
           /\ part = "superuser" => k = 0
           /\ k = 0 /\ "superuser" \notin skipped => part = "superuser"
<1> DEFINE parts == {j \in k + 1 .. 3 : Phase[j] \notin skipped}
           part  == NextPart(k, skipped)
<1>1. CASE parts = {}
  <2>1. part = "end"
    BY <1>1 DEF NextPart
  <2>2. k = 0 => "superuser" \in skipped
    BY <1>1 DEF Phase
  <2> QED
    BY <2>1, <2>2 DEF EnterPart, Goto
<1>2. CASE parts # {}
  <2> DEFINE first == CHOOSE j \in parts : \A i \in parts : j <= i
  <2>1. \E j \in parts : \A i \in parts : j <= i
    <3>1. parts \subseteq {1, 2, 3}
      OBVIOUS
    <3> QED
      BY <1>2, <3>1
  <2>2. first \in parts /\ \A i \in parts : first <= i
    <3> HIDE DEF parts
    <3> QED
      BY <2>1
  <2>3. part = Phase[first]
    BY <1>2 DEF NextPart
  <2>4. /\ part \in {"superuser", "group", "user"}
        /\ part = "superuser" => k = 0
        /\ k = 0 /\ "superuser" \notin skipped => part = "superuser"
    <3>1. first \in {1, 2, 3} /\ first > k
      BY <2>2
    <3>2. k = 0 /\ "superuser" \notin skipped => first = 1
      BY <2>2, <3>1 DEF Phase
    <3> HIDE DEF first
    <3> QED
      BY <2>3, <3>1, <3>2 DEF Phase
  <2> HIDE DEF parts, part
  <2> QED
    BY <2>4 DEF EnterPart, Goto, part
<1> QED
  BY <1>1, <1>2

LEMMA Passed ==
  ASSUME TypeOK, NEW r \in Run, NEW k \in {2, 3}, NextRole(r, k)
  PROVE  \E part \in {"group", "user", "end"}, st \in {"running", "done"}, i \in 1 .. 2 :
           /\ pc' = [pc EXCEPT ![r] = part]
           /\ status' = [status EXCEPT ![r] = st] \/ status' = status
           /\ at' = [at EXCEPT ![r] = i]
<1>1. CASE AtLastRole(r) /\ EnterPart(r, k, skip[r])
  BY <1>1, Entered
<1>2. CASE ~AtLastRole(r)
  <2>1. /\ at' = [at EXCEPT ![r] = at[r] + 1] /\ UNCHANGED status
        /\ pc' = [pc EXCEPT ![r] = Phase[k]]
    BY <1>2 DEF NextRole, Goto
  <2>2. at[r] + 1 \in 1 .. 2 /\ Phase[k] \in {"group", "user"}
    BY <1>2 DEF AtLastRole, TypeOK, Roles, Phase
  <2> QED
    BY <2>1, <2>2
<1> QED
  BY <1>1, <1>2 DEF NextRole

(***************************************************************************)
(* One statement of run r, what it may do to r's own control, and that it  *)
(* leaves the other runs where they are.                                   *)
(***************************************************************************)
StepOf(r) ==
  \/ \E skipped \in SUBSET SetOf(Phase) : Start(r, skipped)
  \/ CheckSuperuser(r) \/ CreateSuperuser(r)
  \/ GetOrCreateGroup(r) \/ Clear(r) \/ Assign(r)
  \/ CheckUser(r) \/ CreateUser(r) \/ AddMember(r)
  \/ Crash(r)

LEMMA Control ==
  ASSUME TypeOK, NEW r \in Run, StepOf(r)
  PROVE  /\ UNCHANGED UserOf
         /\ \E s \in {"running", "done", "failed", "crashed"} :
               status' = [status EXCEPT ![r] = s]
         /\ \E s \in Step : pc' = [pc EXCEPT ![r] = s]
         /\ \E i \in 1 .. 2 : at' = [at EXCEPT ![r] = i]
<1> USE DEF TypeOK, AtStep, Goto, Step, Fail
<1>1. \A f, S : f \in [Run -> S] => f = [f EXCEPT ![r] = f[r]]
  OBVIOUS
<1>2. ASSUME NEW skipped \in SUBSET SetOf(Phase), Start(r, skipped)
      PROVE  UNCHANGED UserOf /\ EnterPart(r, 0, skipped)
  BY <1>2 DEF Start
<1>3. CASE \E k \in 0 .. 1, skipped \in SUBSET SetOf(Phase) : EnterPart(r, k, skipped) /\ UNCHANGED UserOf
  BY <1>3, Entered
<1>4. CASE status[r] = "running" /\ (\E k \in {2, 3} : NextRole(r, k)) /\ UNCHANGED UserOf
  BY <1>1, <1>4, Passed
<1>5. CASE status[r] = "running" /\ UNCHANGED <<status, at, UserOf>> /\ \E s \in Step : Goto(r, s)
  BY <1>1, <1>5
<1>6. CASE UNCHANGED <<pc, at, UserOf>> /\ \E s \in {"failed", "crashed"} : status' = [status EXCEPT ![r] = s]
  BY <1>1, <1>6
<1>7. CASE status[r] = "running" /\ UNCHANGED <<status, pc, at, UserOf>>
  BY <1>1, <1>7
<1>8. skip[r] \in SUBSET SetOf(Phase)
  OBVIOUS
<1>9. CASE \E skipped \in SUBSET SetOf(Phase) : Start(r, skipped)
  BY <1>2, <1>3, <1>9
<1>10. CASE CheckSuperuser(r)
  BY <1>3, <1>5, <1>8, <1>10 DEF CheckSuperuser
<1>11. CASE CreateSuperuser(r)
  BY <1>3, <1>6, <1>8, <1>11 DEF CreateSuperuser
<1>12. CASE GetOrCreateGroup(r)
  BY <1>5, <1>12 DEF GetOrCreateGroup
<1>13. CASE Clear(r)
  BY <1>5, <1>13 DEF Clear
<1>14. CASE Assign(r)
  BY <1>4, <1>7, <1>14 DEF Assign
<1>15. CASE CheckUser(r)
  BY <1>4, <1>5, <1>15 DEF CheckUser
<1>16. CASE CreateUser(r)
  BY <1>5, <1>6, <1>16 DEF CreateUser
<1>17. CASE AddMember(r)
  BY <1>4, <1>17 DEF AddMember
<1>18. CASE Crash(r)
  BY <1>6, <1>18 DEF Crash
<1> QED
  BY <1>9, <1>10, <1>11, <1>12, <1>13, <1>14, <1>15, <1>16, <1>17, <1>18 DEF StepOf

LEMMA NameOfRole ==
  ASSUME TypeOK, NEW r \in Run
  PROVE  RoleAt(r) \in Role /\ UserOf[RoleAt(r)] \in Username
  BY DEF TypeOK, RoleAt, Roles, Role, Username

LEMMA TypeStep == TypeOK /\ LeftIsConfigured /\ [Next]_vars => TypeOK'
<1> SUFFICES ASSUME TypeOK, LeftIsConfigured, [Next]_vars PROVE TypeOK'
  OBVIOUS
<1>1. CASE UNCHANGED vars
  BY <1>1 DEF vars, TypeOK
<1>2. ASSUME NEW r \in Run, StepOf(r) PROVE TypeOK'
  <2>1. /\ UserOf' \in Environment
        /\ status' \in [Run -> {"idle", "running", "done", "failed", "crashed"}]
        /\ pc' \in [Run -> Step]
        /\ at' \in [Run -> 1 .. 2]
    BY <1>2, Control DEF TypeOK
  <2>2. /\ RoleAt(r) \in Role /\ UserOf[RoleAt(r)] \in Username /\ AdminName \in Username
    BY NameOfRole DEF Username
  <2> USE DEF TypeOK, accounts, roles
  <2>3. ASSUME NEW skipped \in SUBSET SetOf(Phase), Start(r, skipped) PROVE TypeOK'
    BY <2>1, <2>3 DEF Start
  <2>4. CASE CheckSuperuser(r) \/ CheckUser(r) \/ Crash(r)
    BY <2>1, <2>4 DEF CheckSuperuser, CheckUser, Crash
  <2>5. CASE CreateSuperuser(r) \/ CreateUser(r)
    BY <2>1, <2>2, <2>5 DEF CreateSuperuser, CreateUser, Fail
  <2>6. CASE GetOrCreateGroup(r)
    BY <2>1, <2>2, <2>6, ConfigIsSeq DEF GetOrCreateGroup
  <2>7. CASE Clear(r)
    BY <2>1, <2>2, <2>7 DEF Clear
  <2>8. CASE Assign(r)
    <3>1. left[r] \in Seq(Perm) /\ left[r] # <<>>
      BY <2>8 DEF Assign, AtStep, LeftIsConfigured
    <3>2. Head(left[r]) \in Perm /\ Tail(left[r]) \in Seq(Perm)
      BY <3>1, HeadAndTail
    <3> QED
      BY <2>1, <2>2, <2>8, <3>2 DEF Assign
  <2>9. CASE AddMember(r)
    BY <2>1, <2>2, <2>9 DEF AddMember, Join
  <2> QED
    BY <1>2, <2>3, <2>4, <2>5, <2>6, <2>7, <2>8, <2>9 DEF StepOf
<1> QED
  BY <1>1, <1>2 DEF Next, StepOf

(* Another run keeps its place; only Clear, Assign and GetOrCreateGroup     *)
(* touch what is left to assign, and each for its own run.                  *)
LEMMA OthersStay ==
  ASSUME TypeOK, NEW r \in Run, StepOf(r), NEW q \in Run \ {r}
  PROVE  /\ pc'[q] = pc[q] /\ RoleAt(q)' = RoleAt(q) /\ status'[q] = status[q]
         /\ left'[q] = left[q] /\ skip'[q] = skip[q]
<1>1. pc'[q] = pc[q] /\ at'[q] = at[q] /\ status'[q] = status[q]
  <2>1. /\ \E s \in {"running", "done", "failed", "crashed"} :
               status' = [status EXCEPT ![r] = s]
        /\ \E s \in Step : pc' = [pc EXCEPT ![r] = s]
        /\ \E i \in 1 .. 2 : at' = [at EXCEPT ![r] = i]
    BY Control
  <2> QED
    BY <2>1 DEF TypeOK
<1>2. left'[q] = left[q]
  BY DEF TypeOK, StepOf, Start, CheckSuperuser, CreateSuperuser, GetOrCreateGroup, Clear,
         Assign, CheckUser, CreateUser, AddMember, Crash, Fail
<1>3. skip'[q] = skip[q]
  BY DEF TypeOK, StepOf, Start, CheckSuperuser, CreateSuperuser, GetOrCreateGroup, Clear,
         Assign, CheckUser, CreateUser, AddMember, Crash, Fail
<1> QED
  BY <1>1, <1>2, <1>3 DEF RoleAt

(* A run leaves the loop over the permissions when none is left, and enters *)
(* it with all of its role's.                                               *)
LEMMA LeftStep == TypeOK /\ LeftIsConfigured /\ [Next]_vars => LeftIsConfigured'
<1> SUFFICES ASSUME TypeOK, LeftIsConfigured, [Next]_vars PROVE LeftIsConfigured'
  OBVIOUS
<1>1. CASE UNCHANGED vars
  BY <1>1 DEF vars, LeftIsConfigured, RoleAt
<1>2. ASSUME NEW r \in Run, StepOf(r) PROVE LeftIsConfigured'
  <2> DEFINE Sound(q) ==
        /\ pc[q] \in {"clear", "assign"} =>
              /\ RoleAt(q) \in groups
              /\ left[q] # <<>>
              /\ SetOf(left[q]) \subseteq SetOf(roles_config[RoleAt(q)])
        /\ pc[q] = "clear" => left[q] = roles_config[RoleAt(q)]
        /\ status[q] = "idle" => pc[q] = "end"
  <2>1. groups \subseteq groups'
    BY <1>2 DEF StepOf, Start, CheckSuperuser, CreateSuperuser, GetOrCreateGroup, Clear,
         Assign, CheckUser, CreateUser, AddMember, Crash, Fail, roles
  <2>2. ASSUME NEW q \in Run \ {r} PROVE Sound(q)'
    BY <1>2, <2>1, <2>2, OthersStay DEF LeftIsConfigured
  <2>3. Sound(r)'
    <3>0. status'[r] # "idle"
      <4>1. PICK s \in {"running", "done", "failed", "crashed"} : status' = [status EXCEPT ![r] = s]
        BY <1>2, Control
      <4> QED
        BY <4>1 DEF TypeOK
    <3> USE <3>0 DEF TypeOK
    <3>1. CASE pc'[r] \notin {"clear", "assign"}
      BY <3>1
    <3>2. CASE GetOrCreateGroup(r)
      <4>1. /\ left'[r] = roles_config[RoleAt(r)] /\ RoleAt(r)' = RoleAt(r)
            /\ RoleAt(r) \in groups'
        BY <3>2 DEF GetOrCreateGroup, RoleAt, roles
      <4> QED
        BY <4>1, NameOfRole, ConfigIsSeq
    <3>3. CASE Clear(r)
      BY <3>3 DEF Clear, AtStep, LeftIsConfigured, RoleAt
    <3>4. CASE Assign(r) /\ UNCHANGED <<status, pc, at>>
      <4>1. /\ left[r] \in Seq(Perm) /\ left[r] # <<>> /\ Len(left[r]) # 1
            /\ left'[r] = Tail(left[r]) /\ RoleAt(r)' = RoleAt(r)
            /\ pc[r] = "assign" /\ pc'[r] = "assign" /\ groups' = groups
        <5>1. pc[r] = "assign" /\ left[r] # <<>>
          BY <3>4 DEF Assign, AtStep, LeftIsConfigured
        <5>2. Len(left[r]) # 1
          BY <3>4, <5>1, Passed DEF Assign, AtLastPermission, NextRole
        <5> QED
          BY <3>4, <5>1, <5>2 DEF Assign, RoleAt
      <4>2. /\ left'[r] # <<>> /\ SetOf(left'[r]) \subseteq SetOf(left[r])
        BY <4>1, HeadAndTail
      <4> QED
        BY <4>1, <4>2 DEF LeftIsConfigured
    <3>5. CASE Crash(r) \/ Fail(r)
      BY <3>5 DEF Crash, Fail, LeftIsConfigured, RoleAt, roles
    <3> QED
      <4>1. ASSUME NEW k \in 0 .. 3, NEW skipped, EnterPart(r, k, skipped)
            PROVE  pc'[r] \notin {"clear", "assign"}
        <5>1. PICK part \in {"superuser", "group", "user", "end"} : pc' = [pc EXCEPT ![r] = part]
          BY <4>1, Entered
        <5> QED
          BY <5>1
      <4>2. ASSUME NEW k \in {2, 3}, NextRole(r, k) PROVE pc'[r] \notin {"clear", "assign"}
        BY <4>2, Passed
      <4>3. ASSUME NEW s \in Step, Goto(r, s), s \notin {"clear", "assign"}
            PROVE pc'[r] \notin {"clear", "assign"}
        BY <4>3 DEF Goto
      <4>4. CASE \E skipped \in SUBSET SetOf(Phase) : Start(r, skipped)
        BY <3>1, <4>1, <4>4 DEF Start
      <4>5. CASE CheckSuperuser(r)
        BY <3>1, <4>1, <4>3, <4>5 DEF CheckSuperuser, Step
      <4>6. CASE CreateSuperuser(r)
        BY <3>1, <3>5, <4>1, <4>6 DEF CreateSuperuser
      <4>7. CASE Assign(r)
        BY <3>1, <3>4, <4>2, <4>7 DEF Assign
      <4>8. CASE CheckUser(r) \/ AddMember(r)
        BY <3>1, <4>2, <4>3, <4>8 DEF CheckUser, AddMember, Step
      <4>9. CASE CreateUser(r)
        BY <3>1, <3>5, <4>3, <4>9 DEF CreateUser, Step
      <4>10. CASE Crash(r)
        BY <3>5, <4>10
      <4> HIDE DEF Sound
      <4> QED
        BY <1>2, <3>2, <3>3, <4>4, <4>5, <4>6, <4>7, <4>8, <4>9, <4>10 DEF StepOf
  <2> QED
    BY <2>2, <2>3 DEF LeftIsConfigured
<1> QED
  BY <1>1, <1>2 DEF Next, StepOf

LEMMA GrantsStep ==
  TypeOK /\ LeftIsConfigured /\ GrantsAreConfigured /\ [Next]_vars => GrantsAreConfigured'
<1> SUFFICES ASSUME TypeOK, LeftIsConfigured, GrantsAreConfigured, [Next]_vars
             PROVE GrantsAreConfigured'
  OBVIOUS
<1> USE DEF GrantsAreConfigured
<1>1. CASE UNCHANGED grants
  BY <1>1
<1>2. ASSUME NEW r \in Run, Clear(r) PROVE GrantsAreConfigured'
  BY <1>2, NameOfRole DEF Clear, TypeOK
<1>3. ASSUME NEW r \in Run, Assign(r) PROVE GrantsAreConfigured'
  <2>1. /\ left[r] \in Seq(Perm) /\ left[r] # <<>>
        /\ SetOf(left[r]) \subseteq SetOf(roles_config[RoleAt(r)])
    BY <1>3 DEF Assign, AtStep, LeftIsConfigured, TypeOK
  <2>2. Head(left[r]) \in SetOf(roles_config[RoleAt(r)])
    BY <2>1, HeadAndTail
  <2> QED
    BY <1>3, <2>2, NameOfRole DEF Assign, TypeOK
<1> QED
  BY <1>1, <1>2, <1>3 DEF Next, Start, CheckSuperuser, CreateSuperuser, GetOrCreateGroup,
     CheckUser, CreateUser, AddMember, Crash, Fail, roles, vars

LEMMA UsersStep == TypeOK /\ UsersAreConfigured /\ [Next]_vars => UsersAreConfigured'
<1> SUFFICES ASSUME TypeOK, UsersAreConfigured, [Next]_vars PROVE UsersAreConfigured'
  OBVIOUS
<1> USE DEF UsersAreConfigured, accounts
<1>1. CASE UNCHANGED <<UserOf, users, superusers>>
  BY <1>1
<1>2. ASSUME NEW r \in Run, CreateSuperuser(r) PROVE UsersAreConfigured'
  BY <1>2 DEF CreateSuperuser, Fail
<1>3. ASSUME NEW r \in Run, CreateUser(r) PROVE UsersAreConfigured'
  BY <1>3, NameOfRole DEF CreateUser, Fail
<1> QED
  BY <1>1, <1>2, <1>3 DEF Next, Start, CheckSuperuser, GetOrCreateGroup, Clear, Assign,
     CheckUser, AddMember, Crash, vars

(* A user is created once, by one run, which alone adds it to a group.      *)
LEMMA JoinStep == TypeOK /\ JoinsOwnUser /\ [Next]_vars => JoinsOwnUser'
<1> SUFFICES ASSUME TypeOK, JoinsOwnUser, [Next]_vars PROVE JoinsOwnUser'
  OBVIOUS
<1> USE DEF JoinsOwnUser
<1>1. CASE UNCHANGED vars
  BY <1>1 DEF vars, RoleAt
<1>2. ASSUME NEW r \in Run, StepOf(r) PROVE JoinsOwnUser'
  <2> DEFINE U(q) == UserOf[RoleAt(q)]
  <2>1. \A q \in Run \ {r} : pc'[q] = pc[q] /\ U(q)' = U(q)
    BY <1>2, OthersStay, Control
  <2>2. CASE pc'[r] # "add_member" /\ UNCHANGED <<users, superusers, members, creator>>
    BY <2>1, <2>2
  <2>3. CASE Fail(r) \/ Crash(r)
    BY <2>3 DEF Fail, Crash, accounts, RoleAt
  <2>4. CASE CreateSuperuser(r) /\ ~Refused(AdminName)
    <3>1. /\ users' = users \cup {AdminName} /\ AdminName \notin users
          /\ superusers' = superusers \cup {AdminName}
          /\ creator' = [creator EXCEPT ![AdminName] = r] /\ members' = members
          /\ EnterPart(r, 1, skip[r])
      BY <2>4 DEF CreateSuperuser, Refused, Fail
    <3>2. pc'[r] # "add_member"
      BY <3>1, Entered DEF TypeOK
    <3> QED
      BY <2>1, <3>1, <3>2 DEF TypeOK
  <2>5. CASE CreateUser(r) /\ ~Refused(U(r))
    <3>1. /\ users' = users \cup {U(r)} /\ U(r) \notin users /\ superusers' = superusers
          /\ creator' = [creator EXCEPT ![U(r)] = r] /\ members' = members
          /\ U(r)' = U(r) /\ U(r) \in Username
      BY <2>5, NameOfRole DEF CreateUser, Refused, Fail, RoleAt
    <3>2. members[U(r)] = {} /\ creator'[U(r)] = r /\ U(r) \notin superusers
      BY <3>1 DEF TypeOK
    <3>3. \A q \in Run \ {r} : pc[q] = "add_member" => U(q) # U(r) /\ creator'[U(q)] = creator[U(q)]
      BY <3>1, NameOfRole DEF TypeOK
    <3>4. superusers \subseteq users
      BY DEF TypeOK
    <3> HIDE DEF U
    <3>5. ASSUME NEW q \in Run, pc'[q] = "add_member"
          PROVE  U(q)' \in users' \ superusers' /\ creator'[U(q)'] = q /\ members'[U(q)'] = {}
      <4>1. CASE q = r
        BY <3>1, <3>2, <4>1
      <4>2. CASE q # r
        BY <2>1, <3>1, <3>3, <3>5, <4>2 DEF U
      <4> QED
        BY <4>1, <4>2
    <3>6. \A u \in Username : members'[u] # {} => u \in users' \ superusers'
      BY <3>1
    <3> QED
      BY <3>1, <3>5, <3>6 DEF U
  <2>6. CASE AddMember(r)
    <3>1. /\ pc[r] = "add_member" /\ U(r) \in Username /\ RoleAt(r) \in Role
          /\ members' = [members EXCEPT ![U(r)] = members[U(r)] \cup {RoleAt(r)}]
          /\ UNCHANGED <<users, superusers, creator>>
      BY <2>6, NameOfRole DEF AddMember, AtStep, Join
    <3>2. members[U(r)] = {} /\ creator[U(r)] = r /\ U(r) \in users \ superusers
      BY <3>1
    <3>3. pc'[r] # "add_member"
      BY <2>6, Passed DEF AddMember, TypeOK
    <3>4. \A u \in Username : members'[u] = IF u = U(r) THEN {RoleAt(r)} ELSE members[u]
      BY <3>1, <3>2 DEF TypeOK
    <3>5. \A q \in Run \ {r} : pc[q] = "add_member" => U(q) # U(r) /\ U(q) \in Username
      BY <3>2, NameOfRole
    <3> HIDE DEF U
    <3> QED
      BY <2>1, <3>1, <3>2, <3>3, <3>4, <3>5 DEF U
  <2>7. ASSUME NEW k \in 0 .. 3, NEW skipped, EnterPart(r, k, skipped)
        PROVE  pc'[r] # "add_member"
    <3>1. PICK part \in {"superuser", "group", "user", "end"} : pc' = [pc EXCEPT ![r] = part]
      BY <2>7, Entered
    <3> QED
      BY <3>1 DEF TypeOK
  <2>8. ASSUME NEW k \in {2, 3}, NextRole(r, k) PROVE pc'[r] # "add_member"
    BY <2>8, Passed DEF TypeOK
  <2>9. ASSUME NEW s \in Step, Goto(r, s), s # "add_member" PROVE pc'[r] # "add_member"
    BY <2>9 DEF Goto, TypeOK
  <2> USE DEF accounts
  <2>10. CASE \E skipped \in SUBSET SetOf(Phase) : Start(r, skipped)
    BY <2>2, <2>7, <2>10 DEF Start
  <2>11. CASE CheckSuperuser(r)
    BY <2>2, <2>7, <2>9, <2>11 DEF CheckSuperuser, Step
  <2>12. CASE CreateSuperuser(r)
    BY <2>3, <2>4, <2>12 DEF CreateSuperuser
  <2>13. CASE GetOrCreateGroup(r)
    BY <2>2, <2>9, <2>13 DEF GetOrCreateGroup, Step
  <2>14. CASE Clear(r)
    BY <2>2, <2>9, <2>14 DEF Clear, Step
  <2>15. CASE Assign(r)
    <3>1. CASE NextRole(r, 2)
      BY <2>2, <2>8, <2>15, <3>1 DEF Assign
    <3>2. CASE UNCHANGED pc
      BY <2>2, <2>15, <3>2 DEF Assign, AtStep
    <3> QED
      BY <2>15, <3>1, <3>2 DEF Assign
  <2>16. CASE CheckUser(r)
    BY <2>2, <2>8, <2>9, <2>16 DEF CheckUser, Step
  <2>17. CASE CreateUser(r)
    BY <2>3, <2>5, <2>17 DEF CreateUser
  <2> QED
    BY <1>2, <2>3, <2>6, <2>10, <2>11, <2>12, <2>13, <2>14, <2>15, <2>16, <2>17 DEF StepOf
<1> QED
  BY <1>1, <1>2 DEF Next, StepOf

(* What a group lacks is what the run that emptied it has yet to assign.    *)
LEMMA MissingStep ==
  TypeOK /\ LeftIsConfigured /\ MissingIsPending /\ [Next]_vars => MissingIsPending'
<1> SUFFICES ASSUME TypeOK, LeftIsConfigured, MissingIsPending, [Next]_vars
             PROVE MissingIsPending'
  OBVIOUS
<1> DEFINE Wanted(g) == SetOf(roles_config[g]) \cap Available
           Whole(g)  == clearer[g] # Null /\ Wanted(g) \ grants[g] \subseteq Pending(clearer[g], g)
<1> USE DEF MissingIsPending
<1>1. CASE UNCHANGED vars
  BY <1>1 DEF vars, Pending, RoleAt
<1>2. ASSUME NEW r \in Run, StepOf(r) PROVE MissingIsPending'
  <2>1. \A q \in Run \ {r}, g \in Role : Pending(q, g)' = Pending(q, g)
    BY <1>2, OthersStay DEF Pending
  <2>2. RoleAt(r) \in Role
    BY NameOfRole
  <2>3. groups \subseteq Role /\ \A g \in Role : clearer[g] \in Run \cup {Null}
    BY DEF TypeOK
  <2>4. CASE UNCHANGED roles /\ pc[r] # "assign"
    <3> SUFFICES ASSUME NEW g \in groups PROVE Whole(g)'
      BY <2>4 DEF roles
    <3>1. CASE clearer[g] = r
      BY <2>4, <3>1 DEF Pending, roles
    <3>2. CASE clearer[g] # r
      BY <2>1, <2>3, <2>4, <3>2 DEF roles
    <3> QED
      BY <3>1, <3>2
  <2>5. CASE UNCHANGED <<roles, pc, at, left>>
    BY <2>5 DEF roles, Pending, RoleAt
  <2>6. CASE GetOrCreateGroup(r) /\ RoleAt(r) \notin groups
    <3>1. /\ groups' = groups \cup {RoleAt(r)} /\ grants' = grants
          /\ clearer' = [clearer EXCEPT ![RoleAt(r)] = r]
          /\ left'[r] = roles_config[RoleAt(r)] /\ RoleAt(r)' = RoleAt(r)
          /\ pc[r] = "group" /\ pc'[r] = "assign"
      BY <2>6 DEF GetOrCreateGroup, AtStep, Goto, TypeOK, RoleAt
    <3> SUFFICES ASSUME NEW g \in groups' PROVE Whole(g)'
      OBVIOUS
    <3>2. CASE g = RoleAt(r)
      <4>1. clearer'[g] = r /\ Pending(r, g)' = SetOf(roles_config[g])
        BY <2>2, <3>1, <3>2 DEF Pending, TypeOK
      <4> QED
        BY <4>1, RoleAssumption
    <3>3. CASE g # RoleAt(r)
      <4>1. g \in groups /\ g \in Role /\ clearer'[g] = clearer[g]
        BY <2>3, <3>1, <3>3 DEF TypeOK
      <4>2. CASE clearer[g] = r
        BY <3>1, <4>1, <4>2 DEF Pending
      <4>3. CASE clearer[g] # r
        BY <2>1, <2>3, <3>1, <4>1, <4>3
      <4> QED
        BY <4>2, <4>3
    <3> QED
      BY <3>2, <3>3
  <2>7. CASE Clear(r)
    <3>1. /\ groups' = groups /\ \A g \in Role : g # RoleAt(r) => grants'[g] = grants[g]
          /\ clearer' = [clearer EXCEPT ![RoleAt(r)] = r]
          /\ left'[r] = roles_config[RoleAt(r)] /\ RoleAt(r)' = RoleAt(r)
          /\ pc[r] = "clear" /\ pc'[r] = "assign"
      BY <2>7 DEF Clear, AtStep, Goto, TypeOK, RoleAt, LeftIsConfigured
    <3> SUFFICES ASSUME NEW g \in groups PROVE Whole(g)'
      BY <3>1
    <3>2. CASE g = RoleAt(r)
      <4>1. clearer'[g] = r /\ Pending(r, g)' = SetOf(roles_config[g])
        BY <2>2, <3>1, <3>2 DEF Pending, TypeOK
      <4> QED
        BY <4>1, RoleAssumption
    <3>3. CASE g # RoleAt(r)
      <4>1. g \in Role /\ clearer'[g] = clearer[g] /\ grants'[g] = grants[g]
        BY <2>3, <3>1, <3>3 DEF TypeOK
      <4>2. CASE clearer[g] = r
        BY <3>1, <4>1, <4>2 DEF Pending
      <4>3. CASE clearer[g] # r
        BY <2>1, <2>3, <3>1, <4>1, <4>3
      <4> QED
        BY <4>2, <4>3
    <3> QED
      BY <3>2, <3>3
  <2>8. CASE Assign(r)
    <3>1. /\ groups' = groups /\ clearer' = clearer /\ pc[r] = "assign"
          /\ left[r] \in Seq(Perm) /\ left[r] # <<>>
          /\ left'[r] = Tail(left[r])
          /\ grants' = [grants EXCEPT ![RoleAt(r)] = grants[RoleAt(r)]
                                                     \cup ({Head(left[r])} \cap Available)]
      BY <2>8 DEF Assign, AtStep, TypeOK, LeftIsConfigured
    <3>2. SetOf(left[r]) = {Head(left[r])} \cup SetOf(Tail(left[r]))
      BY <3>1, HeadAndTail
    <3>3. \/ pc'[r] = "assign" /\ RoleAt(r)' = RoleAt(r)
          \/ SetOf(Tail(left[r])) = {}
      <4>1. CASE Len(left[r]) = 1
        BY <3>1, <4>1, HeadAndTail DEF SetOf
      <4>2. CASE Len(left[r]) # 1
        BY <2>8, <3>1, <4>2 DEF Assign, AtLastPermission, RoleAt
      <4> QED
        BY <4>1, <4>2
    <3> SUFFICES ASSUME NEW g \in groups PROVE Whole(g)'
      BY <3>1
    <3>4. g \in Role /\ grants[g] \subseteq grants'[g] /\ clearer'[g] = clearer[g]
      BY <2>2, <2>3, <3>1 DEF TypeOK
    <3>5. CASE clearer[g] # r
      BY <2>1, <2>3, <3>1, <3>4, <3>5
    <3>6. CASE clearer[g] = r /\ RoleAt(r) # g
      BY <3>1, <3>4, <3>6 DEF Pending
    <3>7. CASE clearer[g] = r /\ RoleAt(r) = g
      <4>1. Wanted(g) \ grants[g] \subseteq SetOf(left[r])
        BY <3>1, <3>7 DEF Pending
      <4>2. grants'[g] = grants[g] \cup ({Head(left[r])} \cap Available)
        BY <3>1, <3>4, <3>7 DEF TypeOK
      <4>3. Wanted(g) \ grants'[g] \subseteq SetOf(Tail(left[r]))
        BY <3>2, <4>1, <4>2
      <4>4. SetOf(Tail(left[r])) \subseteq Pending(r, g)'
        BY <3>1, <3>3, <3>7 DEF Pending
      <4>5. clearer'[g] # Null /\ clearer'[g] = r
        BY <3>4, <3>7
      <4> HIDE DEF Wanted
      <4> QED
        BY <4>3, <4>4, <4>5 DEF Wanted
    <3> QED
      BY <3>5, <3>6, <3>7
  <2> QED
    <3> HIDE DEF MissingIsPending
    <3>1. CASE \E skipped \in SUBSET SetOf(Phase) : Start(r, skipped)
      BY <2>4, <3>1 DEF Start, MissingIsPending, LeftIsConfigured
    <3> QED
      BY <1>2, <2>4, <2>5, <2>6, <2>7, <2>8, <3>1
         DEF StepOf, CheckSuperuser, CreateSuperuser, GetOrCreateGroup, CheckUser, CreateUser,
             AddMember, Crash, Fail, AtStep
<1> QED
  BY <1>1, <1>2 DEF Next, StepOf

LEMMA GrouplessStep ==
  TypeOK /\ LeftIsConfigured /\ JoinsOwnUser /\ GrouplessIsPending /\ [Next]_vars
    => GrouplessIsPending'
<1> SUFFICES ASSUME TypeOK, LeftIsConfigured, JoinsOwnUser, GrouplessIsPending, [Next]_vars
             PROVE GrouplessIsPending'
  OBVIOUS
<1> DEFINE U(q) == UserOf[RoleAt(q)]
           Joining(u) == creator[u] # Null /\ pc[creator[u]] = "add_member" /\ U(creator[u]) = u
<1> USE DEF GrouplessIsPending
<1>1. CASE UNCHANGED vars
  BY <1>1 DEF vars, RoleAt
<1>2. ASSUME NEW r \in Run, StepOf(r) PROVE GrouplessIsPending'
  <2>1. \A q \in Run \ {r} : pc'[q] = pc[q] /\ U(q)' = U(q)
    BY <1>2, OthersStay, Control
  <2>2. users \subseteq Username /\ \A u \in Username : creator[u] \in Run \cup {Null}
    BY DEF TypeOK
  <2>3. CASE pc[r] # "add_member" /\ UNCHANGED <<users, superusers, members, creator>>
    <3> SUFFICES ASSUME NEW u \in users \ superusers, members[u] = {} PROVE Joining(u)'
      BY <2>3
    <3>1. Joining(u) /\ creator[u] \in Run \ {r}
      BY <2>2, <2>3
    <3> QED
      BY <2>1, <2>3, <3>1
  <2>4. CASE Fail(r) \/ Crash(r)
    BY <2>4 DEF Fail, Crash, accounts, RoleAt
  <2>5. CASE CreateSuperuser(r) /\ ~Refused(AdminName)
    <3>1. /\ users' = users \cup {AdminName} /\ superusers' = superusers \cup {AdminName}
          /\ AdminName \notin users /\ members' = members
          /\ creator' = [creator EXCEPT ![AdminName] = r] /\ pc[r] = "create_superuser"
      BY <2>5 DEF CreateSuperuser, Refused, Fail, AtStep
    <3> SUFFICES ASSUME NEW u \in users \ superusers, members[u] = {} PROVE Joining(u)'
      BY <3>1
    <3>2. Joining(u) /\ creator[u] \in Run \ {r} /\ creator'[u] = creator[u]
      BY <2>2, <3>1 DEF TypeOK
    <3> QED
      BY <2>1, <3>2
  <2>6. CASE CreateUser(r) /\ ~Refused(U(r))
    <3>1. /\ users' = users \cup {U(r)} /\ superusers' = superusers /\ members' = members
          /\ creator' = [creator EXCEPT ![U(r)] = r] /\ U(r) \in Username
          /\ pc[r] = "create_user" /\ pc'[r] = "add_member" /\ U(r)' = U(r)
      BY <2>6, NameOfRole DEF CreateUser, Refused, Fail, AtStep, Goto, TypeOK, RoleAt
    <3> SUFFICES ASSUME NEW u \in users' \ superusers', members'[u] = {} PROVE Joining(u)'
      OBVIOUS
    <3>2. CASE u = U(r)
      <4>1. creator'[u] = r
        BY <3>1, <3>2 DEF TypeOK
      <4> QED
        BY <3>1, <3>2, <4>1, RoleAssumption
    <3>3. CASE u # U(r)
      <4>1. Joining(u) /\ creator[u] \in Run \ {r} /\ creator'[u] = creator[u]
        BY <2>2, <3>1, <3>3 DEF TypeOK
      <4> QED
        BY <2>1, <4>1
    <3> QED
      BY <3>2, <3>3
  <2>7. CASE AddMember(r)
    <3>1. /\ U(r) \in Username /\ RoleAt(r) \in Role
          /\ members' = [members EXCEPT ![U(r)] = members[U(r)] \cup {RoleAt(r)}]
          /\ UNCHANGED <<users, superusers, creator>>
      BY <2>7, NameOfRole DEF AddMember, Join
    <3> SUFFICES ASSUME NEW u \in users \ superusers, members'[u] = {} PROVE Joining(u)'
      BY <3>1
    <3>2. u # U(r) /\ members[u] = {}
      BY <2>2, <3>1 DEF TypeOK
    <3>3. Joining(u) /\ creator[u] \in Run \ {r}
      BY <2>2, <3>2
    <3> QED
      BY <2>1, <3>1, <3>3
  <2>8. CASE \E skipped \in SUBSET SetOf(Phase) : Start(r, skipped)
    BY <2>3, <2>8 DEF Start, LeftIsConfigured, accounts
  <2> HIDE DEF GrouplessIsPending
  <2>9. CASE CreateSuperuser(r) \/ CreateUser(r)
    BY <2>4, <2>5, <2>6, <2>9 DEF CreateSuperuser, CreateUser
  <2>10. CASE CheckSuperuser(r) \/ GetOrCreateGroup(r) \/ Clear(r) \/ Assign(r) \/ CheckUser(r)
    BY <2>3, <2>10 DEF CheckSuperuser, GetOrCreateGroup, Clear, Assign, CheckUser, AtStep, accounts
  <2> QED
    BY <1>2, <2>4, <2>7, <2>8, <2>9, <2>10 DEF StepOf
<1> QED
  BY <1>1, <1>2 DEF Next, StepOf

(* Once there is a superuser, or a role with its name, there always is.     *)
LEMMA ReadyStep ==
  TypeOK /\ LeftIsConfigured /\ UsersAreConfigured /\ SuperuserReady /\ [Next]_vars
    => SuperuserReady'
<1> SUFFICES ASSUME TypeOK, LeftIsConfigured, UsersAreConfigured, SuperuserReady, [Next]_vars
             PROVE SuperuserReady'
  OBVIOUS
<1> DEFINE Ready == AdminName \in superusers \/ \E role \in Role : UserOf[role] = AdminName
           Past(q) == /\ status[q] \in {"running", "done"} /\ "superuser" \notin skip[q]
                      /\ pc[q] \notin {"superuser", "create_superuser"}
<1>1. CASE UNCHANGED vars
  BY <1>1 DEF vars, SuperuserReady
<1>2. ASSUME NEW r \in Run, StepOf(r) PROVE SuperuserReady'
  <2>1. Ready => Ready'
    <3>1. superusers \subseteq superusers'
      BY <1>2 DEF StepOf, Start, CheckSuperuser, CreateSuperuser, GetOrCreateGroup, Clear,
         Assign, CheckUser, CreateUser, AddMember, Crash, Fail, accounts
    <3> QED
      BY <1>2, <3>1, Control
  <2>2. ASSUME ~Ready, NEW q \in Run \ {r} PROVE ~Past(q)'
    BY <1>2, <2>2, OthersStay DEF SuperuserReady
  <2>3. ASSUME ~Ready', ~Ready PROVE ~Past(r)'
    <3> USE DEF TypeOK
    <3>1. CASE status[r] = "running" /\ skip' = skip /\ pc[r] \notin {"superuser", "create_superuser"}
      <4>1. "superuser" \in skip[r]
        BY <2>3, <3>1 DEF SuperuserReady
      <4> QED
        BY <3>1, <4>1
    <3>2. CASE Fail(r) \/ Crash(r)
      BY <3>2 DEF Fail, Crash
    <3>3. ASSUME NEW skipped \in SUBSET SetOf(Phase), Start(r, skipped) PROVE ~Past(r)'
      <4>1. skip'[r] = skipped /\ EnterPart(r, 0, skipped)
        BY <3>3 DEF Start
      <4>2. "superuser" \notin skipped => pc'[r] = "superuser"
        BY <4>1, Entered
      <4> QED
        BY <4>1, <4>2
    <3>4. CASE CheckSuperuser(r)
      <4>1. AdminName \notin users
        BY <2>3 DEF UsersAreConfigured
      <4> QED
        BY <3>4, <4>1 DEF CheckSuperuser, Exists, Goto
    <3>5. CASE CreateSuperuser(r)
      BY <2>3, <3>2, <3>5 DEF CreateSuperuser
    <3> HIDE DEF Past, TypeOK
    <3>6. CASE \/ GetOrCreateGroup(r) \/ Clear(r) \/ Assign(r) \/ CheckUser(r)
               \/ CreateUser(r) \/ AddMember(r)
      BY <3>1, <3>2, <3>6 DEF GetOrCreateGroup, Clear, Assign, CheckUser, CreateUser, AddMember,
         AtStep
    <3> QED
      BY <1>2, <3>2, <3>3, <3>4, <3>5, <3>6 DEF StepOf
  <2>4. ASSUME NEW q \in Run, Past(q)' PROVE Ready'
    BY <2>1, <2>2, <2>3, <2>4
  <2> QED
    BY <2>4 DEF SuperuserReady
<1> QED
  BY <1>1, <1>2 DEF Next, StepOf

LEMMA InitHolds == Init => IInv
  BY DEF Init, IInv, TypeOK, LeftIsConfigured, GrantsAreConfigured, JoinsOwnUser,
     UsersAreConfigured, MissingIsPending, GrouplessIsPending, SuperuserReady, Step

(* For any executions, names and permissions: what a run has yet to do is   *)
(* what its groups and users lack, whatever overlaps it or kills it.        *)
THEOREM Invariant == Spec => []IInv
<1>1. IInv /\ [Next]_vars => IInv'
  BY TypeStep, LeftStep, GrantsStep, UsersStep, JoinStep, MissingStep, GrouplessStep, ReadyStep
     DEF IInv
<1> QED
  BY InitHolds, <1>1, PTL DEF Spec

(* A group is whole once the run that emptied it last has passed it.        *)
THEOREM GroupsFill == Spec => []MissingIsPending
  BY Invariant, PTL DEF IInv

(* A user without a group is one its creator has yet to add to its own.     *)
THEOREM UsersJoin == Spec => []GrouplessIsPending
  BY Invariant, PTL DEF IInv

(* A run that passed create_superuser leaves a superuser, shared names      *)
(* excepted.                                                                *)
THEOREM SuperuserExists == Spec => []SuperuserReady
  BY Invariant, PTL DEF IInv

(* No user gets two roles and the superuser none, also when the environment *)
(* gives roles one name.                                                    *)
THEOREM OneRole == Spec => []AtMostOneRole
<1>1. IInv => AtMostOneRole
  <2> SUFFICES ASSUME IInv PROVE AtMostOneRole
    OBVIOUS
  <2>1. ASSUME NEW u \in Username PROVE Cardinality(members[u]) <= 1
    <3>1. CASE members[u] = {}
      BY <3>1, FS_EmptySet
    <3>2. CASE members[u] # {}
      <4>1. PICK g \in members[u] : members[u] = {g}
        BY <3>2 DEF IInv, JoinsOwnUser
      <4> QED
        <5>1. Cardinality({g}) = 1
          BY FS_Singleton
        <5> QED
          BY <4>1, <5>1
    <3> QED
      BY <3>1, <3>2
  <2>2. \A u \in superusers : members[u] = {}
    BY DEF IInv, JoinsOwnUser, TypeOK
  <2> QED
    BY <2>1, <2>2 DEF AtMostOneRole
<1> QED
  BY Invariant, <1>1, PTL

(* What the groups are configured for is what docs/admin.md lists.          *)
LEMMA ConfigIsDocumented ==
  \A role \in Role : \A p \in SetOf(roles_config[role]) : p[1] \in DocumentedTypes(role, p[2])
<1> DEFINE Listed(role, seq) == \A p \in SetOf(seq) : p[1] \in DocumentedTypes(role, p[2])
<1>1. ASSUME NEW a \in Seq(Perm), NEW b \in Seq(Perm) PROVE SetOf(a \o b) = SetOf(a) \cup SetOf(b)
  <2>1. ASSUME NEW p \in SetOf(a \o b) PROVE p \in SetOf(a) \cup SetOf(b)
    BY <2>1 DEF SetOf
  <2>2. ASSUME NEW p \in SetOf(a) PROVE p \in SetOf(a \o b)
    BY <2>2 DEF SetOf
  <2>3. ASSUME NEW p \in SetOf(b) PROVE p \in SetOf(a \o b)
    <3>1. PICK i \in 1 .. Len(b) : p = b[i]
      BY <2>3 DEF SetOf
    <3>2. Len(a) + i \in 1 .. Len(a \o b) /\ (a \o b)[Len(a) + i] = p
      BY <3>1
    <3> QED
      BY <3>2 DEF SetOf
  <2> QED
    BY <2>1, <2>2, <2>3
<1>2. ASSUME NEW role \in Role, NEW a \in Seq(Perm), NEW b \in Seq(Perm),
             Listed(role, a), Listed(role, b)
      PROVE  a \o b \in Seq(Perm) /\ Listed(role, a \o b)
  BY <1>1, <1>2
<1>3. ASSUME NEW role \in Role, NEW m \in Model
      PROVE  View(m) \in Seq(Perm) /\ Listed(role, View(m))
  BY DEF View, On, SetOf, DocumentedTypes, Perm
<1>4. /\ On("Device", <<"add", "change", "view">>) \in Seq(Perm)
      /\ Listed("Operators", On("Device", <<"add", "change", "view">>))
      /\ On("Event", <<"change", "view">>) \in Seq(Perm)
      /\ Listed("Operators", On("Event", <<"change", "view">>))
      /\ On("Rule", <<"add", "change", "view">>) \in Seq(Perm)
      /\ Listed("Operators", On("Rule", <<"add", "change", "view">>))
  BY DEF On, SetOf, DocumentedTypes, Perm, Model
<1> HIDE DEF Listed
<1>5. \A role \in Role : Shown \in Seq(Perm) /\ Listed(role, Shown)
  BY <1>2, <1>3 DEF Shown, Model
<1>6. Listed("Operators", Operators)
  BY <1>2, <1>3, <1>4, <1>5 DEF Operators, Model, Role
<1>7. Listed("Viewers", Viewers)
  BY <1>2, <1>3, <1>5 DEF Viewers, Model, Role
<1> QED
  BY <1>6, <1>7 DEF roles_config, Role, Listed

(* No group is ever given a permission docs/admin.md does not list for it,  *)
(* by any executions with any permissions created.                          *)
THEOREM GrantsDocumented == Spec => []GrantsAreDocumented
<1>1. IInv => GrantsAreDocumented
  BY ConfigIsDocumented DEF IInv, GrantsAreConfigured, GrantsAreDocumented
<1> QED
  BY Invariant, <1>1, PTL
=============================================================================
