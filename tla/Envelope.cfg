SPECIFICATION Spec
CONSTANTS
  Field <- Fields
  FileSets <- RuleDirs
  Shapes <- RecordShapes
  Lsns <- SomeLsns
  Mantissa = 4
  IntBits = 6
  MaxSeen = 2
CHECK_DEADLOCK FALSE
INVARIANTS
  RedeliveryIsIdentical
  OrderSurvivesRounding
  MappingKeepsClass
