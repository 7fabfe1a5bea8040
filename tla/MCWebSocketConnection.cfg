CONSTANTS
  Networks = {mainnet}
  SocketIds = {s1, s2}
  MaxReconnectAttempts = 2
  MaxFailures = 3
  MaxSwitches = 2
SPECIFICATION FairSpec
INVARIANTS
  AttendedUnlessExcused
  InactiveLeavesOnlyStragglers
PROPERTIES
  Reconnects
  EveryOpeningRecovers
CHECK_DEADLOCK FALSE
