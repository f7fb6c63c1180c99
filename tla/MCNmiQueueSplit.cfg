SPECIFICATION NmiSpec
CONSTANTS
  SplitDecrement = TRUE
  MaxNmi = 2
INVARIANTS
  NmisConserved
