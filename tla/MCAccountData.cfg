SPECIFICATION Spec
CONSTANTS
  Calls = {c1, c2}
  MaxDisturbances = 1
  Topics = {n, p}
  NativeTopics = {n}
  MaxStarts = 2
  Holdings = {sol, tok}
  NativeHoldings = {sol}
  Absent = Absent
  First = {1}
  MaxAmount = 2
  MaxChanges = 2
  solA = solA
  tokA = tokA
  tokB = tokB
  Assets <- MCAssets
  Owner <- MCOwner
  Mint <- MCMint
  NativeAssets = {solA}
  Shapes <- MCShapes
  Spam <- MCSpam
  PageLimit = 1
  FetchLimit = 2
  MaxTransactions = 2
SYMMETRY Symmetry
INVARIANTS
  MonitoredUnlessExcused
  GoneUnlessExcused
  SynchronizedUnlessExcused
  SavedUnlessExcused
  ShownUnlessExcused
  HistoryUnlessExcused
  ToldUnlessExcused
CHECK_DEADLOCK FALSE
