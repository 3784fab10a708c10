SPECIFICATION FairSpec
CONSTANTS
  m1 = m1
  m2 = m2
  p1 = p1
  p2 = p2
  k1 = k1
  k2 = k2
  t1 = t1
  t2 = t2
  NoMember = NoMember
  NoTable = NoTable
  Member = {m1}
  Partition = {p1, p2}
  Key = {k1, k2}
  PartitionOf <- PartitionPerKey
  TableOf <- TablePerKey
  SourceOps <- AllOps
  Faults = {"crash", "commit", "replay"}
  MaxPoll = 2
  MaxLsn = 3
  MaxFaults = 2
CHECK_DEADLOCK FALSE
INVARIANTS
  NoLoss
PROPERTIES
  EventuallyMirrored
