CONSTANTS
  sos = sos
  chat = chat
  photo = photo
  map = map
  leo = leo
  nextgen = nextgen
  Requests <- MCRequests
  Fleets <- MCFleets
  Urgent <- MCUrgent
  RetryBudget <- MCRetryBudget
  DeadlineSlack <- MCDeadlineSlack
  Licensed <- MCLicensed
  DurationSteps = 4
  MaxBatch = 2
  QueueCapacity = 1
  BackoffBase = 1
  BackoffMax = 2
  LaneMaxRetries = 0
SPECIFICATION Spec
INVARIANTS
  TypeOK
  OnePlace
  CountersConserve
  RetryStormBounded
  SettlesInTime
PROPERTIES
  NeverServedLate
  RefinesLifecycle
CHECK_DEADLOCK FALSE
