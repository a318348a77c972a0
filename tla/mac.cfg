CONSTANTS
  sos = sos
  map = map
  photo = photo
  late = late
  b1 = b1
  b2 = b2
  dry = dry
  Requests <- MCRequests
  Degradable <- MCDegradable
  Late <- MCLate
  EligibleBeams <- MCEligibleBeams
  Beams <- MCBeams
  RbsPerBeam = 3
  RbUnits <- MCRbUnits
  RegUnits <- MCRegUnits
  MaxRbs = 3
  FloorPercent = 50
  SymbolsPerRb = 8
  McsTable <- MCMcsTable
  Sizes = {4, 9}
  Qualities = {10, 60}
  Captures = {1, 2}
SPECIFICATION Spec
INVARIANTS
  BeamNotOversubscribed
  GrantsAsAgreed
  DeferredForCause
CHECK_DEADLOCK FALSE
