----------------------------- MODULE MCBulkUpdate -----------------------------
\* Instances of BulkUpdate for TLC.
EXTENDS BulkUpdate, TLC

CONSTANTS r1, r2, r3, s1, s2

\* Two events that two requests can lock in opposite order, and a delivery,
\* whose actions set one of two columns.
MCRow == {r1, r2, r3}
MCTableOf == r1 :> "events" @@ r2 :> "events" @@ r3 :> "notification_deliveries"
===============================================================================
