SPECIFICATION Spec
CONSTANTS
  k1 = k1
  k2 = k2
  t1 = t1
  t2 = t2
  NoTable = NoTable
  Key = {k1, k2}
  TableOf <- TablePerKey
  Ops = {"c", "d"}
  MaxLsn = 3
  MaxBatch = 3
  Errors = {"server", "writeConcern"}
CHECK_DEADLOCK FALSE
INVARIANTS
  TypeOK
  NewestImageWins
  ReplayOfUpsertsIsNoOp
  SkipsNeverUndercount
  ConfirmedUnlessDuplicate
