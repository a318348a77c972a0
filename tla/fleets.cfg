CONSTANTS
  leo = leo
  nextgen = nextgen
  us = us
  eu = eu
  L = L
  Ku = Ku
  Fleets <- MCFleets
  Regions <- MCRegions
  Bands <- MCBands
  Shapes <- MCShapes
  RuleTables <- MCRuleTables
  Threshold = 2
  Cooldown = 2
  DurationSteps = 7
SPECIFICATION SpecCoverage
INVARIANTS
  OpenIffStreak
  TripsCountOutages
  MissingForCause
  SnapshotExact
PROPERTIES
  NoCallDuringCooldown
  RefinesFailover
CHECK_DEADLOCK FALSE
