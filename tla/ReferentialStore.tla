--------------------------- MODULE ReferentialStore ---------------------------
(***************************************************************************)
(* What docs/architecture.md promises of the database of IoT Hub: it keeps *)
(* relational integrity.  Rows appear naming only rows that are there,     *)
(* change what they name only to rows that are there, and leave in groups  *)
(* that nobody outside the group names.  A row whose foreign keys are      *)
(* declared PROTECT never takes rows of another kind with it.              *)
(*                                                                         *)
(* AdminStore, the Django admin working on that database with several      *)
(* concurrent requests, is shown to implement this specification.          *)
(***************************************************************************)
CONSTANTS
  Row,        \* every row id that can ever be allocated
  Guarded     \* rows of the tables referenced through on_delete=PROTECT

VARIABLES
  rows,       \* the rows that exist
  ref         \* ref[r]: the rows that r's foreign key columns name

storeVars == <<rows, ref>>

Init ==
  /\ rows = {}
  /\ ref = [r \in Row |-> {}]

\* Write the rows S, new or existing ones, which name rows that are there then.
Put(S) ==
  /\ rows' = rows \cup S
  /\ ref' \in [Row -> SUBSET Row]
  /\ \A r \in S : ref'[r] \subseteq rows'
  /\ \A r \in Row \ S : ref'[r] = ref[r]

\* Take the rows S away; no row that stays names one of them, and a guarded
\* row leaves only together with other guarded rows.
Remove(S) ==
  /\ \A q \in rows \ S : ref[q] \cap S = {}
  /\ S \cap Guarded # {} => S \subseteq Guarded
  /\ rows' = rows \ S
  /\ ref' = [r \in Row |-> IF r \in S THEN {} ELSE ref[r]]

Next ==
  \/ \E S \in SUBSET Row : Put(S)
  \/ \E S \in SUBSET rows : Remove(S)

Spec == Init /\ [][Next]_storeVars

\* Relational integrity: a row names only rows that exist.
NoOrphans == \A r \in rows : ref[r] \subseteq rows
===============================================================================
