CONSTANTS
  Configs <- SEdgeConfigs
  Ang <- SEdgeAng
  Lin <- SEdgeLin
  AngTol <- SAngTol
  LinTol <- SLinTol
  InLimits <- SEdgeInLimits
  Canonical <- SEdgeCanonical
  Clamp <- SEdgeClamp
  ScalarMax <- SScalarMax
  NoConfig = NoConfig
  MaxIterations = 2
  MaxUnits = 2
  MaxRestarts = 1
  MaxSpent = 5
SPECIFICATION Spec
INVARIANTS
  BestOfAttempts
  GivesUpLast
PROPERTY
  RefinesContract
