CONSTANTS
  Configs <- SGoalsConfigs
  Ang <- SGoalsAng
  Lin <- SGoalsLin
  AngTol <- SAngTol
  LinTol <- SLinTol
  InLimits <- SGoalsConfigs
  Canonical <- SGoalsUnlimited
  Clamp <- SGoalsUnlimited
  ScalarMax <- SScalarMax
  NoConfig = NoConfig
  Metric <- MetricPositive
  Objectives <- AllObjectives
  MaxWork = 3
  MaxRounds = 1
SPECIFICATION Spec
INVARIANTS
  BudgetLiteral
  IterationsExact
  SuccessHonest
  BestOfConverged
  FailureFaithful
  ConvergenceKept
PROPERTIES
  RepeatedSolveStable
  CallsReturn
