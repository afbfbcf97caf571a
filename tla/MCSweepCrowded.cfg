SPECIFICATION SweepSpec
CONSTANTS
  Streams = {s1, s2, s3}
  CallerOf <- Apart
  HomeOf <- Apart
  SweepInterval = 1
  GraceIntervals = 4
  AdmitTime = 0
  Revocable = {}
  LastEpoch = 0
INVARIANT
  DroppedForCause
CHECK_DEADLOCK FALSE
