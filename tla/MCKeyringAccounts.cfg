CONSTANTS
  Ids = {a1, a2}
  Sources = {srp}
  MaxIndex = 1
  MaxCalls = 2
  OtherSlices = {transactions}
  NoAccount = NoAccount
SPECIFICATION Spec
SYMMETRY Symmetry
INVARIANTS
  DistinctUnlessRaced
  Mirrored
PROPERTY NoGapBelow
CHECK_DEADLOCK FALSE
