SPECIFICATION SSpec
CONSTANTS
  N = 3
  MaxFlush = 1
  BatchCapacity = 1
  MaxTsc = 3
PROPERTIES
  DisableFlushesAll
