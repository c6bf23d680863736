----------------------------- MODULE MCAdminStore -----------------------------
\* One row of each table for TLC, and a second device so that rows can be moved
\* to another parent and take over a name.
EXTENDS AdminStore, TLC

CONSTANTS t1, d1, d2, r1, e1, n1, m1, l1

Tables ==
  t1 :> "device_types" @@ d1 :> "devices" @@ d2 :> "devices" @@ r1 :> "rules" @@
  e1 :> "events" @@ l1 :> "telemetry" @@
  m1 :> "notification_templates" @@ n1 :> "notification_deliveries"

\* Dumps, for each choice of a device and a key: of the devices, the chosen one
\* first and with that key; of a template and a delivery, which names an event
\* that is not in the file; of a row of every table but telemetry.
Entry(place, refs, k) == [at |-> place, refs |-> refs, key |-> k]
DevicesDump(d, k) ==
  t1 :> Entry(1, {}, k) @@ d :> Entry(2, {t1}, k) @@
  [q \in {d1, d2} \ {d} |-> Entry(3, {t1}, CHOOSE o \in Key : o # k)]
NotificationsDump(k) == m1 :> Entry(1, {}, k) @@ n1 :> Entry(2, {e1, m1}, NoKey)
Dump(d, k) ==
  t1 :> Entry(1, {}, k) @@ d :> Entry(2, {t1}, k) @@ r1 :> Entry(3, {d}, NoKey) @@
  e1 :> Entry(4, {r1}, NoKey) @@ m1 :> Entry(5, {}, k) @@ n1 :> Entry(6, {e1, m1}, NoKey)

Fixtures == UNION {{DevicesDump(d, k), NotificationsDump(k), Dump(d, k)} :
                     d \in {d1, d2}, k \in Key}

Interchangeable == Permutations(Session) \cup Permutations(Key) \cup Permutations({d1, d2})
===============================================================================
