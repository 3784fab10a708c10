SPECIFICATION FairSpec
CONSTANTS
  p1 = p1
  p2 = p2
  Partition = {p1, p2}
  Faults = {"apply", "commit", "partition", "error", "timeout", "restart"}
  MaxRecords = 2
  MaxAge = 4
  MaxConsecutive = 58
  MaxFaults = 2
INVARIANTS
  BackoffSaturates
  LagIsNotUnderstated
  AgeOnlyByFailures
PROPERTIES
  LagSettles
