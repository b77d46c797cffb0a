SPECIFICATION Spec
CONSTANTS
  Job = job
  Manual = manual
  Publisher = publisher
  Nobody = nobody
  Lease = 5
  Threshold = 2
  Interval = 3
  Keep = 2
  StagingAge = 1
  Stall = 1
  MaxNow = 9
  MaxData = 1
  MaxForced = 1
  MaxFaults = 1
INVARIANTS PointerIsWhole LapseIsBounded LeftoversAreCleared
PROPERTY PublicationStays
CHECK_DEADLOCK FALSE
