SPECIFICATION SSpec
CONSTANTS
  N = 3
  MaxFlush = 1
  BatchCapacity = 1
  MaxTsc = 3
INVARIANTS
  OneConsumer
  FileSorted
PROPERTIES
  FinalDrainComplete
  RecordsLeave
  StopReturns
