CONSTANTS
  sos = sos
  api = api
  Classes <- MCClasses
  Urgent <- MCUrgent
  Units <- MCUnits
  Urgencies = {0, 100}
  Waits = {0, 2}
  Priority <- MCPriority
  Patience <- MCPatience
  PriorityWeight = 40
  UrgencyWeight = 60
  WaitingWeight = 40
  Rooms = {0, 2}
  Pressures = {50}
  One = 100000
  Tunings <- MCTunings
  Cadences = {1, 2}
  Capacities = {1, 2}
  DurationSteps = 4
SPECIFICATION Spec
INVARIANTS
  LearnedOnce
  SheddingForCause
  FairnessRestores
CHECK_DEADLOCK FALSE
