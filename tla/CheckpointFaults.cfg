SPECIFICATION FairSpec
CONSTANTS
  r1 = r1
  p1 = p1
  p2 = p2
  Replica = {r1}
  Partition = {p1}
  NoPartition = NoPartition
  OwnerOf <- OneOwner
  LsnAt <- ShortLog
  HeartbeatEvery = 2
  MaxBatch = 2
  MaxStale = 5
  Faults = {"error", "timeout", "apply", "block", "kill", "stop"}
  MaxFaults = 2
CHECK_DEADLOCK FALSE
INVARIANTS
  TypeOK
  AnchorIsReached
  StaleOnlyByFailures
PROPERTIES
  ProgressIsPersisted
