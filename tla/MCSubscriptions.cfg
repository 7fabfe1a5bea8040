CONSTANTS
  Calls = {c1, c2}
  Ids = {a, b}
  RpcIds = {r1, r2}
  NoSub = NoSub
  Nobody = Nobody
  MaxConnections = 2
  MaxRequests = 2
  MaxDisturbances = 1
SPECIFICATION Spec
SYMMETRY Symmetry
INVARIANTS
  HeardUnlessExcused
  GoneUnlessExcused
CHECK_DEADLOCK FALSE
