SPECIFICATION Spec
CONSTANTS
  m1 = m1
  m2 = m2
  p1 = p1
  p2 = p2
  k1 = k1
  k2 = k2
  t1 = t1
  t2 = t2
  NoMember = NoMember
  NoTable = NoTable
  Member = {m1}
  Partition = {p1}
  Key = {k1}
  PartitionOf <- OnePartition
  TableOf <- OneTable
  SourceOps <- AllOps
  Faults = {}
  MaxPoll = 3
  MaxLsn = 2
  MaxFaults = 0
CHECK_DEADLOCK FALSE
INVARIANTS
  QuiescentMirror
