SPECIFICATION Spec
CONSTANTS
  N = 4
  MaxFlush = 3
  BatchCapacity = 2
  MaxTsc = 5
INVARIANTS
  TypeOK
  WindowIntact
  DeliveredInOrder
  NothingVanishes
PROPERTIES
  LogSpec
  FlushReturns
