SPECIFICATION Spec
CONSTANTS
  admin = admin
  operator = operator
  viewer = viewer
  Null = Null
  Run = {r1, r2}
  AdminName = admin
  Environment <- Environments
  Available <- NoTelemetry
SYMMETRY Interchangeable
CHECK_DEADLOCK FALSE
INVARIANT IInv
INVARIANT MissingIsPending
INVARIANT GrouplessIsPending
INVARIANT SuperuserReady
INVARIANT AtMostOneRole
INVARIANT GrantsAreDocumented
