CONSTANTS
  sos = sos
  chat = chat
  photo = photo
  map = map
  leo = leo
  nextgen = nextgen
  Requests <- MCRequests
  Fleets <- MCFleets
  Urgent <- MCUrgent
  RetryBudget <- MCRetryBudget
  DeadlineSlack <- MCDeadlineSlack
  Licensed <- MCLicensed
  DurationSteps = 4
  MaxBatch = 1
  QueueCapacity = 1
  BackoffBase = 1
  BackoffMax = 1
  LaneMaxRetries = 0
SPECIFICATION Spec
INVARIANT BacklogWithinCapacity
CHECK_DEADLOCK FALSE
