CONSTANTS
  Turn = 8
  Tol = 1
  NegInf <- MCNegInf
  PosInf = 1000
  NaN = NaN
  Chains <- MCChains
  Tolerances = {2}
  Theta3s = {0, 2}
  Pairs <- MCPairs
  Wrists <- MCWrists
  Bearings = {0, 3}
  Distances = {0, 1, 2, 3, 4}
  Seeds <- MCSeeds
  Turns <- MCTurns

SPECIFICATION Spec
INVARIANTS
  SolutionsDistinct
  SolveIsExact
  PickIsNearest
