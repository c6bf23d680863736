SPECIFICATION Spec
CONSTANTS
  Run = {r1, r2, r3}
  Days = {30, 90}
  Columnstore = TRUE
  Null = Null
SYMMETRY Interchangeable
CHECK_DEADLOCK FALSE
INVARIANT CompletedIsComplete
INVARIANT IInv
