SPECIFICATION FairSpec
CONSTANTS
  p1 = p1
  t1 = t1
  NoMember = NoMember
  NoTable = NoTable
  NoPartition = NoPartition
  NoEmail = NoEmail
  Email = {NoEmail, e1, e2}
  e1 = e1
  e2 = e2
  Key <- Ids
  Partition = {p1}
  PartitionOf <- OnePartition
  TableOf <- OneTable
  Transformers = {x1, x2}
  x1 = x1
  x2 = x2
  Sinks = {s1}
  s1 = s1
  TransformerFaults = {"crash", "rebalance", "commit"}
  SinkFaults = {"crash", "commit"}
  MaxLsn = 2
  MaxPoll = 2
  MaxFaults = 1
CHECK_DEADLOCK FALSE
INVARIANTS
  EndToEndMirror
  EndToEndNoLoss
PROPERTIES
  EventuallyEndToEnd
