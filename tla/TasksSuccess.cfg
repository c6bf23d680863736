SPECIFICATION Spec
CONSTANTS
  t1 = t1
  t2 = t2
  t3 = t3
  n1 = n1
  n2 = n2
  Null = Null
  Slot = {s1}
  MaxTime = 2
  Task <- MCTask
  Name <- MCName
  NameOf <- MCNameOf
INVARIANT SuccessMeansSucceeded
