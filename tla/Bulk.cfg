CONSTANTS
  r1 = r1
  r2 = r2
  r3 = r3
  s1 = s1
  s2 = s2
  Row <- MCRow
  TableOf <- MCTableOf
  MaxAttempts = 1
  Session = {s1, s2}
SPECIFICATION FairSpec
INVARIANTS TypeOK WritesAreCurrent
PROPERTIES AcknowledgeKeepsResolved OtherColumnsKept RequestsEnd
