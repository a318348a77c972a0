CONSTANTS
  leo = leo
  nextgen = nextgen
  Fleets <- MCFleets
  Threshold = 3
  Cooldown = 3
SPECIFICATION FairSpec
PROPERTIES
  HealthyFleetReturns
  OpenGetsTrial
