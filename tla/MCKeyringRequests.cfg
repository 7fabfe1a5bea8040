SPECIFICATION Spec
CONSTANTS
  Requests = {r1, r2}
  None = None
  Kinds = {"send", "direct", "message"}
  Preferences <- MCPreferences
  MaxDisturbances = 1
SYMMETRY MCSymmetry
INVARIANTS
  AnswersTrueUnlessExcused
  ShownUnlessExcused
  RefreshedUnlessExcused
CHECK_DEADLOCK FALSE
