SPECIFICATION FairSpec
CONSTANTS
  Run = {r1, r2}
  Config <- MCConfig
  MaxSent = 3
CHECK_DEADLOCK FALSE
INVARIANT TypeOK
INVARIANT TakeTurns
INVARIANT AccountsAgree
INVARIANT LogBalances
PROPERTY FiniteRunsEnd
