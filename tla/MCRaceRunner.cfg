CONSTANTS
  Configs <- SGoalsConfigs
  Ang <- SGoalsAng
  Lin <- SGoalsLin
  AngTol <- SAngTol
  LinTol <- SLinTol
  InLimits <- SGoalsConfigs
  Canonical <- SGoalsUnlimited
  Clamp <- SGoalsUnlimited
  ScalarMax <- SScalarMax
  NoConfig = NoConfig
  N = 2
  Seed <- SeedGoal
  Objectives <- TwoObjectives
  MaxTotal = 2
  MaxRounds = 1
  Ends <- SomeEnds
SPECIFICATION Spec
INVARIANTS
  FirstToConvergeWins
  BestOfRace
  AllPoliciesFinish
  EqualShare
PROPERTIES
  RefinesRace
  CallsReturn
