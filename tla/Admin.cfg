SPECIFICATION Spec
CONSTANTS
  t1 = t1
  d1 = d1
  d2 = d2
  r1 = r1
  e1 = e1
  n1 = n1
  m1 = m1
  l1 = l1
  NoKey = NoKey
  Row = {t1, d1, d2, r1, e1, n1, m1, l1}
  TableOf <- Tables
  Key = {k1, k2}
  Session = {s1, s2}
  Fixture <- Fixtures
SYMMETRY Interchangeable
INVARIANTS IInv NoOrphans UniqueKeys
PROPERTIES ImplementsStore ProtectedGoAlone
