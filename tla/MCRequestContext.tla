---------------------------- MODULE MCRequestContext ----------------------------
(* Instances of RequestContext for TLC: one request brings an id, the other *)
(* two are given one.                                                       *)
EXTENDS RequestContext

CONSTANTS r1, r2, r3, i1, i2, i3, client

MCRequest  == {r1, r2, r3}
MCHeaderOf == [r \in MCRequest |-> IF r = r1 THEN client ELSE Null]
MCNewId    == [r \in MCRequest |-> CASE r = r1 -> i1 [] r = r2 -> i2 [] r = r3 -> i3]
=============================================================================
