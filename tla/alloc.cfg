CONSTANTS
  sos1 = sos1
  sos2 = sos2
  worn = worn
  map = map
  photo = photo
  late = late
  east = east
  west = west
  b1 = b1
  b2 = b2
  b3 = b3
  leo = leo
  nextgen = nextgen
  L = L
  S = S
  Requests <- MCRequests
  Urgent <- MCUrgent
  Degradable <- MCDegradable
  Expired <- MCExpired
  Worn <- MCWorn
  RegionOf <- MCRegionOf
  Costs = {2, 3, 5}
  Beams <- MCBeams
  BeamRegion <- MCBeamRegion
  BeamFleet <- MCBeamFleet
  BeamBand <- MCBeamBand
  Capacity <- MCCapacity
  Rules <- MCRules
  Slack = 1
  Reserve <- MCReserve
  LaneMaxUnits = 4
  GeoPercent = 100
  UnitCap = 4
  DegradePercent = 75
SPECIFICATION Spec
INVARIANTS
  BeamNotOversubscribed
  AllocationsLegal
  RefusedDoesNotFit
  EveryRequestAnswered
PROPERTIES
  RefinesLedger
CHECK_DEADLOCK FALSE
