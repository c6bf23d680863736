SPECIFICATION Spec
CONSTANTS
  r1 = r1
  r2 = r2
  r3 = r3
  i1 = i1
  i2 = i2
  i3 = i3
  client = client
  Null = Null
  Thread = {th1, th2}
  Request <- MCRequest
  HeaderOf <- MCHeaderOf
  NewId <- MCNewId
INVARIANT IInv
INVARIANT LogsNameTheirRequest
INVARIANT HeaderFindsTheLog
INVARIANT MetricsAgree
