SPECIFICATION SendSpec
CONSTANTS
  None = None
  Jobs = {j1, j2}
  Builds = {b1, b2}
  Recipients = {a, d}
  Domains = {d}
  Amounts = {2}
  Prices = {1, 2}
  MaxEvents = 3
  FirstPrice = 1
  MaxWaiting = 2
  MaxDisturbances = 1
SYMMETRY MCSymmetry
INVARIANTS
  SignedAsShownUnlessExcused
  SentAsToldUnlessExcused
  FilledUnlessExcused
CHECK_DEADLOCK FALSE
