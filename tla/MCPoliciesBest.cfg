CONSTANTS
  Configs <- SBoxConfigs
  Ang <- SBoxAng
  Lin <- SBoxLin
  AngTol <- SAngTol
  LinTol <- SLinTol
  InLimits <- SBoxInLimits
  Canonical <- SBoxCanonical
  Clamp <- SBoxClamp
  ScalarMax <- SScalarMax
  NoConfig = NoConfig
  MaxIterations = 3
  MaxRestarts = 1
  MaxUnits = 2
  MaxSpent = 5
  Builds <- BestBuild
SPECIFICATION Spec
INVARIANT
  ConvergedMeetsPose
