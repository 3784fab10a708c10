SPECIFICATION FairSpec
CONSTANTS
  p1 = p1
  p2 = p2
  Partition = {p1, p2}
  Limits = {0, 2}
  MaxFetch = 1
  MaxRecords = 4
  Faults = {"list", "client", "retention", "produce", "timeout"}
  MaxFaults = 1
CHECK_DEADLOCK FALSE
INVARIANTS
  FeedbackIsBounded
  SuccessMeansReplayed
PROPERTIES
  Terminates
