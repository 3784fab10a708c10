SPECIFICATION FairSpec
CONSTANTS
  r1 = r1
  p1 = p1
  p2 = p2
  Replica = {r1}
  Partition = {p1}
  NoPartition = NoPartition
  OwnerOf <- OneOwner
  LsnAt <- ShortLog
  HeartbeatEvery = 2
  MaxBatch = 2
  MaxStale = 5
  Faults = {"block"}
  MaxFaults = 1
CHECK_DEADLOCK FALSE
PROPERTY StallIsNoticed
