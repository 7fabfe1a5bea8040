CONSTANTS
  Calls = {c1, c2}
  account = account
  subscription = subscription
  asset = asset
  Keys <- MCKeys
  LegacyKeys <- MCLegacyKeys
  Values = {v}
  Absent = Absent
SPECIFICATION Spec
SYMMETRY Symmetry
INVARIANTS
  StaleOnlyWhereOverlapped
PROPERTY CollateralOnlyOnOverlap
