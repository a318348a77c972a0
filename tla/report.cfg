CONSTANTS
  sos = sos
  chat = chat
  photo = photo
  map = map
  leo = leo
  Requests <- MCRequests
  Fleets = {leo}
  Urgent <- MCUrgent
  RetryBudget <- MCRetryBudget
  DeadlineSlack <- MCDeadlineSlack
  Licensed <- MCLicensed
  DurationSteps = 3
  MaxBatch = 2
  QueueCapacity = 1
  BackoffBase = 0
  BackoffMax = 1
  LaneMaxRetries = 0
SPECIFICATION ReportSpec
INVARIANTS
  ReportReconciles
  LatencyAsServed
CHECK_DEADLOCK FALSE
