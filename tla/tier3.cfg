CONSTANTS
  Buckets = 3
  One = 12
  FloorMin = 1
  Signals <- MCSignals
  na = na
  eu = eu
  apac = apac
  latam = latam
  other = other
  photo = photo
  api = api
  Regions <- MCRegions
  Classes <- MCClasses
  Fleets <- MCFleets
  Priority <- MCPriority
  Capacity <- MCCapacity
  Licences <- MCLicences
  Demands <- MCDemands
  Servings <- MCServings
  ServedWeight = 100
  BonusWeight = 30
  AssignWeight = 20
  SwitchWeight = 50
  CongestionWeight = 10
  Soft = 50
  FairMin = 50
  FairMax = 150
SPECIFICATION Spec
INVARIANTS
  HigherScoreNoLessLikely
  SolverCanAnswer
  PlanCoherent
  BudgetsWellSpent
PROPERTIES
  ShedWhileIdleRecovers
  MovesPayOff
  HintsSettle
