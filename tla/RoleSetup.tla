------------------------------- MODULE RoleSetup -------------------------------
(***************************************************************************)
(* The management command setup_roles: superuser, two groups with their    *)
(* permissions, and one staff user for each group.                         *)
(*                                                                         *)
(* The command opens no transaction, so each of its statements commits on  *)
(* its own. Several executions of it may overlap, each may be killed       *)
(* between any two statements, and it is run again afterwards. A step      *)
(* below is one statement that writes, or one query whose answer the code  *)
(* acts on later.                                                          *)
(***************************************************************************)
EXTENDS Integers, Sequences, FiniteSets

CONSTANTS Run,        \* executions of the command
          Environment, \* assignments of usernames to the roles
          AdminName,  \* ADMIN_USERNAME
          Available,  \* permissions the applied migrations have created
          Null

ASSUME RoleAssumption == Null \notin Run

Roles == <<"Operators", "Viewers">>
Role  == {"Operators", "Viewers"}

Model == {"Device", "DeviceType", "Event", "Rule", "Telemetry", "NotificationTemplate",
          "NotificationDelivery"}
Perm  == {"add", "change", "view"} \X Model

(* The permissions of one model, in the order they are assigned.           *)
On(model, types) == [i \in DOMAIN types |-> <<types[i], model>>]
View(model) == On(model, <<"view">>)

Shown == View("Telemetry") \o View("NotificationTemplate") \o View("NotificationDelivery")

Operators == On("Device", <<"add", "change", "view">>) \o View("DeviceType")
             \o On("Event", <<"change", "view">>) \o On("Rule", <<"add", "change", "view">>)
             \o Shown

(* Mutated: viewers may change rules.                                      *)
ViewersWhoEdit == View("Device") \o View("DeviceType") \o View("Event")
                  \o On("Rule", <<"change", "view">>) \o Shown

Viewers == View("Device") \o View("DeviceType") \o View("Event") \o View("Rule") \o Shown

roles_config == [role \in Role |-> IF role = "Operators" THEN Operators ELSE Viewers]

SetOf(seq) == {seq[i] : i \in DOMAIN seq}

Username == {env[role] : env \in Environment, role \in Role} \cup {AdminName}
Phase    == <<"superuser", "group", "user">>
Step     == {"superuser", "create_superuser", "group", "clear", "assign",
             "user", "create_user", "add_member", "end"}

VARIABLES UserOf,     \* role -> username in the environment of the command
          status,     \* run -> idle, running, done, failed or crashed
          pc,         \* run -> its next statement
          skip,       \* run -> the --skip options it was given
          at,         \* run -> index of the role it is at
          left,       \* run -> permissions it has yet to assign to that role
          groups,     \* groups that exist
          grants,     \* role -> permissions of its group
          users,      \* users that exist
          superusers,
          members,    \* username -> groups it belongs to
          clearer,    \* history: the run that last emptied or created a group
          creator     \* history: the run that created a user

vars == <<UserOf, status, pc, skip, at, left, groups, grants, users, superusers,
          members, clearer, creator>>
accounts == <<users, superusers, members, creator>>
roles == <<groups, grants, clearer>>

Init ==
    /\ UserOf \in Environment
    /\ status = [r \in Run |-> "idle"]
    /\ pc = [r \in Run |-> "end"]
    /\ skip = [r \in Run |-> {}]
    /\ at = [r \in Run |-> 1]
    /\ left = [r \in Run |-> <<>>]
    /\ groups = {}
    /\ grants = [role \in Role |-> {}]
    /\ users = {}
    /\ superusers = {}
    /\ members = [u \in Username |-> {}]
    /\ clearer = [role \in Role |-> Null]
    /\ creator = [u \in Username |-> Null]

-----------------------------------------------------------------------------
AtStep(r, step) == status[r] = "running" /\ pc[r] = step

RoleAt(r) == Roles[at[r]]

Goto(r, step) == pc' = [pc EXCEPT ![r] = step]

(* handle: the next of the three parts that is not skipped.                *)
NextPart(k, skipped) ==
    LET parts == {j \in k + 1 .. 3 : Phase[j] \notin skipped} IN
    IF parts = {} THEN "end" ELSE Phase[CHOOSE j \in parts : \A i \in parts : j <= i]

EnterPart(r, k, skipped) ==
    LET part == NextPart(k, skipped) IN
    /\ Goto(r, part)
    /\ status' = [status EXCEPT ![r] = IF part = "end" THEN "done" ELSE "running"]
    /\ at' = [at EXCEPT ![r] = 1]

(* Mutated: the loop runs once more than there are roles.                  *)
BeyondLastRole(r) == at[r] > Len(Roles)

AtLastRole(r) == at[r] = Len(Roles)

(* The next role of a loop over the roles, or the next part after it.      *)
NextRole(r, k) ==
    \/ /\ ~AtLastRole(r)
       /\ at' = [at EXCEPT ![r] = @ + 1]
       /\ Goto(r, Phase[k])
       /\ UNCHANGED status
    \/ /\ AtLastRole(r)
       /\ EnterPart(r, k, skip[r])

Start(r, skipped) ==
    /\ status[r] = "idle"
    /\ skip' = [skip EXCEPT ![r] = skipped]
    /\ EnterPart(r, 0, skipped)
    /\ UNCHANGED <<UserOf, left, roles, accounts>>

(* Mutated: any user passes for the superuser.                             *)
AnyUser(u) == users # {}

Exists(u) == u \in users

(* create_superuser: skipped when a user of that name exists.              *)
CheckSuperuser(r) ==
    /\ AtStep(r, "superuser")
    /\ \/ Exists(AdminName) /\ EnterPart(r, 1, skip[r])
       \/ ~Exists(AdminName) /\ Goto(r, "create_superuser")
                             /\ UNCHANGED <<status, at>>
    /\ UNCHANGED <<UserOf, skip, left, roles, accounts>>

(* An INSERT of a name another run has inserted meanwhile ends the command.*)
Fail(r) ==
    /\ status' = [status EXCEPT ![r] = "failed"]
    /\ UNCHANGED <<UserOf, pc, skip, at, left, roles, accounts>>

(* Mutated: the user of that name is taken as it is.                       *)
NeverRefused(u) == FALSE

Refused(u) == u \in users

CreateSuperuser(r) ==
    /\ AtStep(r, "create_superuser")
    /\ \/ Refused(AdminName) /\ Fail(r)
       \/ /\ ~Refused(AdminName)
          /\ users' = users \cup {AdminName}
          /\ superusers' = superusers \cup {AdminName}
          /\ creator' = [creator EXCEPT ![AdminName] = r]
          /\ EnterPart(r, 1, skip[r])
          /\ UNCHANGED <<UserOf, skip, left, roles, members>>

(* Group.objects.get_or_create: a group it creates has no permissions.     *)
GetOrCreateGroup(r) ==
    /\ AtStep(r, "group")
    /\ left' = [left EXCEPT ![r] = roles_config[RoleAt(r)]]
    /\ \/ /\ RoleAt(r) \in groups
          /\ Goto(r, "clear")
          /\ UNCHANGED roles
       \/ /\ RoleAt(r) \notin groups
          /\ groups' = groups \cup {RoleAt(r)}
          /\ clearer' = [clearer EXCEPT ![RoleAt(r)] = r]
          /\ Goto(r, "assign")
          /\ UNCHANGED grants
    /\ UNCHANGED <<UserOf, status, skip, at, accounts>>

Clear(r) ==
    /\ AtStep(r, "clear")
    /\ grants' = [grants EXCEPT ![RoleAt(r)] = {}]
    /\ clearer' = [clearer EXCEPT ![RoleAt(r)] = r]
    /\ Goto(r, "assign")
    /\ UNCHANGED <<UserOf, status, skip, at, left, groups, accounts>>

(* Mutated: the loop over the models ends one permission early.            *)
AtLastButOne(r) == Len(left[r]) <= 2

AtLastPermission(r) == Len(left[r]) = 1

(* assign_group_permissions, one permission: one that does not exist is    *)
(* reported and passed over, one the group has already stays.              *)
Assign(r) ==
    /\ AtStep(r, "assign")
    /\ grants' = [grants EXCEPT ![RoleAt(r)] = @ \cup ({Head(left[r])} \cap Available)]
    /\ left' = [left EXCEPT ![r] = Tail(@)]
    /\ \/ ~AtLastPermission(r) /\ UNCHANGED <<status, pc, at>>
       \/ AtLastPermission(r) /\ NextRole(r, 2)
    /\ UNCHANGED <<UserOf, skip, groups, clearer, accounts>>

(* create_users: a missing group or an existing name passes the role over. *)
CheckUser(r) ==
    /\ AtStep(r, "user")
    /\ \/ /\ RoleAt(r) \notin groups \/ Exists(UserOf[RoleAt(r)])
          /\ NextRole(r, 3)
       \/ /\ RoleAt(r) \in groups
          /\ ~Exists(UserOf[RoleAt(r)])
          /\ Goto(r, "create_user")
          /\ UNCHANGED <<status, at>>
    /\ UNCHANGED <<UserOf, skip, left, roles, accounts>>

(* create_user fails on a name another run has inserted meanwhile.         *)
CreateUser(r) ==
    LET u == UserOf[RoleAt(r)] IN
    /\ AtStep(r, "create_user")
    /\ \/ Refused(u) /\ Fail(r)
       \/ /\ ~Refused(u)
          /\ users' = users \cup {u}
          /\ creator' = [creator EXCEPT ![u] = r]
          /\ Goto(r, "add_member")
          /\ UNCHANGED <<UserOf, status, skip, at, left, roles, superusers, members>>

(* Mutated: only when this run created or emptied the group.               *)
JoinOwnGroup(r) ==
    members' = [members EXCEPT ![UserOf[RoleAt(r)]] =
                    IF clearer[RoleAt(r)] = r THEN @ \cup {RoleAt(r)} ELSE @]

Join(r) == members' = [members EXCEPT ![UserOf[RoleAt(r)]] = @ \cup {RoleAt(r)}]

(* user.groups.add, a statement after the INSERT of the user.              *)
AddMember(r) ==
    /\ AtStep(r, "add_member")
    /\ Join(r)
    /\ NextRole(r, 3)
    /\ UNCHANGED <<UserOf, skip, left, roles, users, superusers, creator>>

(* The process is killed or loses its connection between two statements.   *)
Crash(r) ==
    /\ status[r] = "running"
    /\ status' = [status EXCEPT ![r] = "crashed"]
    /\ UNCHANGED <<UserOf, pc, skip, at, left, roles, accounts>>

Next ==
    \E r \in Run :
        \/ \E skipped \in SUBSET SetOf(Phase) : Start(r, skipped)
        \/ CheckSuperuser(r)
        \/ CreateSuperuser(r)
        \/ GetOrCreateGroup(r)
        \/ Clear(r)
        \/ Assign(r)
        \/ CheckUser(r)
        \/ CreateUser(r)
        \/ AddMember(r)
        \/ Crash(r)

Spec == Init /\ [][Next]_vars

-----------------------------------------------------------------------------
(* The shape of the recorded state.                                        *)
TypeOK ==
    /\ UserOf \in Environment
    /\ status \in [Run -> {"idle", "running", "done", "failed", "crashed"}]
    /\ pc \in [Run -> Step]
    /\ skip \in [Run -> SUBSET SetOf(Phase)]
    /\ at \in [Run -> 1 .. 2]
    /\ left \in [Run -> Seq(Perm)]
    /\ groups \subseteq Role
    /\ grants \in [Role -> SUBSET Perm]
    /\ users \subseteq Username
    /\ superusers \subseteq users
    /\ members \in [Username -> SUBSET Role]
    /\ clearer \in [Role -> Run \cup {Null}]
    /\ creator \in [Username -> Run \cup {Null}]

(* What run r has yet to assign to the role it emptied.                    *)
Pending(r, role) ==
    IF pc[r] = "assign" /\ RoleAt(r) = role THEN SetOf(left[r]) ELSE {}

(* A permission a role's group lacks is one that the run which emptied the *)
(* group last has yet to assign, or was killed before it could: however    *)
(* runs overlap, the groups are whole once that run has passed them.       *)
MissingIsPending ==
    \A role \in groups :
        /\ clearer[role] # Null
        /\ (SetOf(roles_config[role]) \cap Available) \ grants[role]
              \subseteq Pending(clearer[role], role)

(* A user of the command that belongs to no group is one whose creator has *)
(* yet to add it, or was killed before it could. The superuser has none.   *)
GrouplessIsPending ==
    \A u \in users \ superusers :
        members[u] = {} => /\ creator[u] # Null
                           /\ pc[creator[u]] = "add_member"
                           /\ UserOf[RoleAt(creator[u])] = u

(* No user gets two roles, even when the environment gives two roles one   *)
(* name, and the superuser gets none.                                      *)
AtMostOneRole ==
    /\ \A u \in Username : Cardinality(members[u]) <= 1
    /\ \A u \in superusers : members[u] = {}

(* A run that passed create_superuser leaves a superuser, unless the       *)
(* environment gives the name to another role as well.                     *)
SuperuserReady ==
    \A r \in Run :
        /\ status[r] \in {"running", "done"}
        /\ "superuser" \notin skip[r]
        /\ pc[r] \notin {"superuser", "create_superuser"}
        => \/ AdminName \in superusers
           \/ \E role \in Role : UserOf[role] = AdminName

(* The tables of docs/admin.md.                                            *)
DocumentedTypes(role, model) ==
    CASE role = "Operators" /\ model \in {"Device", "Rule"} -> {"add", "change", "view"}
      [] role = "Operators" /\ model = "Event" -> {"change", "view"}
      [] OTHER -> {"view"}

(* No group is ever given a permission docs/admin.md does not list for it. *)
GrantsAreDocumented ==
    \A role \in Role : \A p \in grants[role] : p[1] \in DocumentedTypes(role, p[2])

-----------------------------------------------------------------------------
(* Strengthening for the proofs. A run at "clear" or "assign" is at a group *)
(* that exists, with permissions of its role left to assign, all of them    *)
(* before it has begun; a run that has not begun is at no statement.        *)
LeftIsConfigured ==
    \A r \in Run :
        /\ pc[r] \in {"clear", "assign"} =>
              /\ RoleAt(r) \in groups
              /\ left[r] # <<>>
              /\ SetOf(left[r]) \subseteq SetOf(roles_config[RoleAt(r)])
        /\ pc[r] = "clear" => left[r] = roles_config[RoleAt(r)]
        /\ status[r] = "idle" => pc[r] = "end"

(* No group lists what its role is not configured for.                      *)
GrantsAreConfigured ==
    \A role \in Role : grants[role] \subseteq SetOf(roles_config[role])

(* A run adds a role to the user it created itself, which has none yet; a   *)
(* user that does not exist has none either.                                *)
JoinsOwnUser ==
    /\ \A r \in Run : pc[r] = "add_member" =>
          LET u == UserOf[RoleAt(r)] IN
          /\ u \in users \ superusers
          /\ creator[u] = r
          /\ members[u] = {}
    /\ \A u \in Username : members[u] # {} => u \in users \ superusers
    /\ \A u \in Username : \A g, h \in members[u] : g = h

(* Every user is the superuser or has a name the environment gives a role.  *)
UsersAreConfigured ==
    /\ superusers \subseteq {AdminName}
    /\ \A u \in users : u \in superusers \/ \E role \in Role : UserOf[role] = u

IInv == /\ TypeOK
        /\ LeftIsConfigured
        /\ GrantsAreConfigured
        /\ JoinsOwnUser
        /\ UsersAreConfigured
        /\ MissingIsPending
        /\ GrouplessIsPending
        /\ SuperuserReady
=============================================================================
