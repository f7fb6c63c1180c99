SPECIFICATION Spec
CONSTANTS
  Core = {c1, c2, c3}
  MaxErrors = 2
CHECK_DEADLOCK FALSE
INVARIANTS
  NoSecondVmxoff
