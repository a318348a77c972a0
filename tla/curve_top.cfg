CONSTANTS
  Buckets = 3
  One = 12
  FloorMin = 1
  Signals <- MCSignals
SPECIFICATION FairSpec
INVARIANT HighValueNeverShed
