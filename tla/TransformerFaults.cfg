SPECIFICATION Spec
CONSTANTS
  m1 = m1
  m2 = m2
  p1 = p1
  p2 = p2
  k1 = k1
  k2 = k2
  NoMember = NoMember
  NoPartition = NoPartition
  Member = {m1, m2}
  Partition = {p1, p2}
  Key = {k1, k2}
  PartitionOf <- PartitionPerKey
  Faults = {"crash", "rebalance", "commit", "fetch", "produce", "poison"}
  MaxRecords = 4
  MaxPoll = 2
  MaxFaults = 2
CHECK_DEADLOCK FALSE
SYMMETRY Symmetry
INVARIANTS
  TypeOK
  NoSilentSkip
  OvertakesOnlySkipped
