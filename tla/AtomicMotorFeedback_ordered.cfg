SPECIFICATION FairSpec
CONSTANTS
  Fields = {"count", "mode"}
  Readers = {r1}
  Ordered = TRUE
  MaxStores = 3
INVARIANTS TypeOK SampleIsConsistent
PROPERTIES LoadReturns ImplementsRegister
