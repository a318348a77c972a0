CONSTANTS
  sos = sos
  photo = photo
  api = api
  TrafficClasses = {sos, photo, api}
  MaxBatch = 2
  DurationSteps = 3
  Candidates <- MCCandidates
  MaxLag = 2
  MaxForeign = 2
  MaxBaseline = 1
SPECIFICATION Spec
INVARIANTS
  ExactlyOnce
  DemandOncePerStep
  CrashForCause
PROPERTIES
  EverySurgeFires
  PassedOverForCause
CHECK_DEADLOCK FALSE
