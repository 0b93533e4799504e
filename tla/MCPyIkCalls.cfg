CONSTANTS
  Turn = 8
  NegInf <- MCNegInf
  PosInf = 1000
  Threads = {"t1"}
  Points <- MCPoints
  Verified <- MCVerified
  Norms <- MCNorms
  Budgets <- MCBudgets
  Boxes <- MCBoxes
  SeedValues = {0, 2}
  Asks <- MCAsks

SPECIFICATION Spec
INVARIANTS
  AnswerIsExact
  AttemptsAccounted
  ConfigAsAsked
PROPERTY
  CallsReturn
