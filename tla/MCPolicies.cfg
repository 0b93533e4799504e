CONSTANTS
  Configs <- SBoxConfigs
  Ang <- SBoxAng
  Lin <- SBoxLin
  AngTol <- SAngTol
  LinTol <- SLinTol
  InLimits <- SBoxInLimits
  Canonical <- SBoxCanonical
  Clamp <- SBoxClamp
  ScalarMax <- SScalarMax
  NoConfig = NoConfig
  MaxIterations = 3
  MaxRestarts = 2
  MaxUnits = 2
  MaxSpent = 8
  Builds <- AllBuilds
SPECIFICATION Spec
INVARIANTS
  ConvergedFeasible
  IterationsAreBilled
  WorkIsBounded
  RunningUsedItsUnits
  StaysInBox
  BestOfTried
PROPERTIES
  StepReturns
  RefinesContract
