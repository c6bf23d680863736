------------------------------ MODULE BulkUpdate ------------------------------
(***************************************************************************)
(* The bulk actions of the admin (backend/apps/*/admin.py) and the change  *)
(* forms, on the columns they write.                                       *)
(*                                                                         *)
(* queryset.filter(...).update(...) is one UPDATE statement in its own     *)
(* READ COMMITTED transaction.  The statement finds the matching rows in   *)
(* the snapshot it starts with; for each of them, in an order nobody       *)
(* fixes, it waits for the transaction that has written the row, looks at  *)
(* the row again, and writes it if it still matches.  A written row stays  *)
(* locked until the transaction ends.                                      *)
(*                                                                         *)
(* A search in the change list may join another table to the queryset.     *)
(* Django then sends UPDATE ... WHERE id IN (SELECT ...), and looking at   *)
(* the row again compares its id only: the filter is part of the subquery, *)
(* which is evaluated on the snapshot.                                     *)
(***************************************************************************)
EXTENDS Naturals, FiniteSets

CONSTANTS
  Row,          \* rows of the five tables below
  TableOf,      \* the table of each row
  MaxAttempts,  \* bound on the attempt_count an operator types in
  Session       \* requests that may run at the same time

\* The choices of each table's status column; for rules and templates the
\* boolean is_enabled or is_active.
DeviceStatus == {"active", "inactive", "error"}
EventStatus == {"new", "acknowledged", "resolved"}
NotificationStatus == {"pending", "sent", "failed"}
Flag == {"on", "off"}

Status ==
  [devices |-> DeviceStatus, rules |-> Flag, events |-> EventStatus,
   notification_templates |-> Flag,
   notification_deliveries |-> NotificationStatus]
Table == DOMAIN Status

ASSUME TableOfAssumption == TableOf \in [Row -> Table]
ASSUME MaxAttemptsAssumption == MaxAttempts \in Nat

Rows(t) == {r \in Row : TableOf[r] = t}

\* What is stored of a row; attempt_count is 0 outside the deliveries.
Values(t) ==
  [status : Status[t],
   attempts : IF t = "notification_deliveries" THEN 0..MaxAttempts ELSE {0}]
AnyValue == UNION {Values(t) : t \in Table}

Default ==
  [devices |-> "active", rules |-> "on", events |-> "new",
   notification_templates |-> "on", notification_deliveries |-> "pending"]

\* One statement: the statuses its filter accepts, the columns it sets and
\* their new contents.  Whether the filter is in a subquery, Begin says.
Statement(t, where, columns, value) ==
  [table |-> t, where |-> where, columns |-> columns, value |-> value]

SetStatus(t, where, to) ==
  Statement(t, where, {"status"}, [status |-> to, attempts |-> 0])

\* (Definitions whose comment starts with "Mutated" are wrong on purpose; the
\* checks must notice when one of them replaces the definition it mutates.)

\* Mutated: update() does not validate choices, so a status nobody declared
\* gets through.
close_events == SetStatus("events", EventStatus \ {"resolved"}, "closed")

activate_devices == SetStatus("devices", DeviceStatus, "active")
deactivate_devices == SetStatus("devices", DeviceStatus, "inactive")
enable_rules == SetStatus("rules", Flag, "on")
disable_rules == SetStatus("rules", Flag, "off")
acknowledge_events == SetStatus("events", {"new"}, "acknowledged")
resolve_events == SetStatus("events", EventStatus \ {"resolved"}, "resolved")
mark_events_new == SetStatus("events", EventStatus \ {"new"}, "new")
activate_templates == SetStatus("notification_templates", Flag, "on")
deactivate_templates == SetStatus("notification_templates", Flag, "off")
mark_pending ==
  SetStatus("notification_deliveries", NotificationStatus \ {"pending"}, "pending")
reset_attempts ==
  Statement("notification_deliveries", NotificationStatus, {"attempts"},
            [status |-> "pending", attempts |-> 0])

BulkAction ==
  {activate_devices, deactivate_devices, enable_rules, disable_rules,
   acknowledge_events, resolve_events, mark_events_new, activate_templates,
   deactivate_templates, mark_pending, reset_attempts}

\* The tables whose search_fields follow a foreign key: rule__name of an event,
\* device__name of a rule, event__message of a delivery.
SearchJoins == {"rules", "events", "notification_deliveries"}

\* The change form writes every column back, as it is in the submitted page.
Save(t, v) == Statement(t, Status[t], {"status", "attempts"}, v)
SaveAction == UNION {{Save(t, v) : v \in Values(t)} : t \in Table}

IsSave(a) == a.columns = {"status", "attempts"}
VARIABLES
  value,      \* value[r]: the committed version of r
  txn         \* txn[s]: the statement s is executing, or Idle

vars == <<value, txn>>

Idle == [state |-> "idle"]
\* todo: matching rows not yet visited.  new: the versions written so far,
\* visible to others only after the commit; its domain is what s has locked.
\* found: the statuses in which a subquery found its rows; empty without one.
Fields == {"state", "act", "joined", "found", "todo", "new"}

IsRunning(t) ==
  /\ DOMAIN t = Fields
  /\ t.state = "running"
  /\ t.joined \in BOOLEAN
  /\ t.joined => t.todo \cup DOMAIN t.new \subseteq DOMAIN t.found
  /\ t.act \in BulkAction \cup SaveAction
  /\ t.todo \subseteq Rows(t.act.table)
  /\ DOMAIN t.new \subseteq Rows(t.act.table)
  /\ \A r \in DOMAIN t.new : t.new[r] \in Values(t.act.table)

TypeOK ==
  /\ DOMAIN value = Row
  /\ \A r \in Row : value[r] \in Values(TableOf[r])
  /\ DOMAIN txn = Session
  /\ \A s \in Session : txn[s] = Idle \/ IsRunning(txn[s])

Init ==
  /\ value = [r \in Row |-> [status |-> Default[TableOf[r]], attempts |-> 0]]
  /\ txn = [s \in Session |-> Idle]

Busy(s) == txn[s] # Idle
Locked(s) == IF Busy(s) THEN DOMAIN txn[s].new ELSE {}
LockedByOther(s, r) == \E z \in Session \ {s} : r \in Locked(z)

\* Mutated: the action saves whole instances instead of the column it sets.
AssignAll(a, v) == a.value

Matches(a, status) == status \in a.where
Assign(a, v) == [c \in DOMAIN v |-> IF c \in a.columns THEN a.value[c] ELSE v[c]]

-------------------------------------------------------------------------------
\* The statement starts: its snapshot decides which selected rows match.
Begin(s, a, selected, joined) ==
  LET matching == {r \in selected : Matches(a, value[r].status)} IN
  /\ ~Busy(s)
  /\ txn' = [txn EXCEPT ![s] =
       [state |-> "running", act |-> a, joined |-> joined,
        found |-> IF joined THEN [r \in matching |-> value[r].status] ELSE <<>>,
        todo |-> matching, new |-> <<>>]]
  /\ UNCHANGED value

\* Mutated: a visited row is written whatever has become of it.
MatchesAtStart(s, r) == TRUE

\* The filter, looked at again: on the current version of the row, or, when it
\* is part of a subquery, on the version in the snapshot.
StillMatches(s, r) ==
  Matches(txn[s].act, IF txn[s].joined THEN txn[s].found[r] ELSE value[r].status)

\* A row nobody else has locked is looked at again and written if it matches.
UpdateRow(s, r) ==
  LET t == txn[s] IN
  /\ Busy(s)
  /\ r \in t.todo
  /\ ~LockedByOther(s, r)
  /\ txn' = [txn EXCEPT
       ![s].todo = @ \ {r},
       ![s].new = IF StillMatches(s, r)
                  THEN [q \in DOMAIN @ \cup {r} |->
                          IF q = r THEN Assign(t.act, value[r]) ELSE @[q]]
                  ELSE @]
  /\ UNCHANGED value

Commit(s) ==
  /\ Busy(s)
  /\ txn[s].todo = {}
  /\ value' = [r \in Row |-> IF r \in Locked(s) THEN txn[s].new[r] ELSE value[r]]
  /\ txn' = [txn EXCEPT ![s] = Idle]

\* All the rows s still has to visit are locked by others.
Stuck(s) ==
  /\ Busy(s)
  /\ txn[s].todo # {}
  /\ \A r \in txn[s].todo : LockedByOther(s, r)

\* Mutated: nothing breaks a circular wait.
NoVictim(s) == FALSE /\ UNCHANGED vars

\* PostgreSQL ends one statement of a group that waits for itself.
DeadlockVictim(s) ==
  /\ \E D \in SUBSET Session :
       /\ s \in D
       /\ \A z \in D : Stuck(z) /\ \E r \in txn[z].todo, y \in D \ {z} : r \in Locked(y)
  /\ txn' = [txn EXCEPT ![s] = Idle]
  /\ UNCHANGED value

\* The worker or its connection is gone: ROLLBACK.
Abort(s) ==
  /\ Busy(s)
  /\ txn' = [txn EXCEPT ![s] = Idle]
  /\ UNCHANGED value

Next ==
  \E s \in Session :
    \/ \E a \in BulkAction : \E selected \in SUBSET Rows(a.table) \ {{}} :
         \E joined \in BOOLEAN :
           /\ joined => a.table \in SearchJoins
           /\ Begin(s, a, selected, joined)
    \/ \E a \in SaveAction : \E r \in Rows(a.table) : Begin(s, a, {r}, FALSE)
    \/ \E r \in Row : UpdateRow(s, r)
    \/ Commit(s)
    \/ DeadlockVictim(s)
    \/ Abort(s)

Spec == Init /\ [][Next]_vars

\* The database executes what it has started, wakes those that wait for a row
\* in the order of their requests, and breaks deadlocks after deadlock_timeout.
Fairness ==
  \A s \in Session :
    /\ SF_vars(\E r \in Row : UpdateRow(s, r))
    /\ WF_vars(Commit(s))
    /\ WF_vars(DeadlockVictim(s))

FairSpec == Spec /\ Fairness
-------------------------------------------------------------------------------
\* The statements that end in this step, and the rows they write.
Commits(s) == Busy(s) /\ txn'[s] = Idle /\ value' # value

\* The bulk action takes a resolved event back to acknowledged only where a
\* search had joined the rules and the event was resolved while the statement
\* was running; never when the operator merely picked it from an old page, and
\* without a search never at all.
AcknowledgeKeepsResolved ==
  [][\A r \in Rows("events") :
       value[r].status = "resolved" /\ value'[r].status = "acknowledged" =>
         \E s \in Session :
           /\ Commits(s)
           /\ \/ IsSave(txn[s].act)
              \/ txn[s].joined /\ txn[s].found[r] # "resolved"]_vars

\* reset_attempts and mark_pending, started at the same time on the same
\* deliveries, both take effect: a bulk action leaves the columns it does not
\* set as the last commit left them.
OtherColumnsKept ==
  [][\A s \in Session : Commits(s) => \A r \in Row : 
       \A c \in {"status", "attempts"} \ txn[s].act.columns :
         value'[r][c] = value[r][c]]_vars

\* What makes both true: a written version belongs to one request, the version
\* it was computed from is still the committed one, and so is the one that the
\* filter was evaluated on, unless that was in a subquery.
WritesAreCurrent ==
  \A s \in Session : \A r \in Locked(s) :
    /\ ~LockedByOther(s, r)
    /\ TableOf[r] = txn[s].act.table
    /\ Matches(txn[s].act, IF txn[s].joined THEN txn[s].found[r] ELSE value[r].status)
    /\ txn[s].new[r] = Assign(txn[s].act, value[r])

\* A request ends, also when bulk actions lock the same rows in opposite order.
RequestsEnd == \A s \in Session : Busy(s) ~> ~Busy(s)
===============================================================================
