SPECIFICATION Spec
CONSTANTS
  Target = "drv"
  OtherModule = {"nt"}
  MaxBatches = 2
  MaxCommands = 2
  MaxUnloads = 1
CHECK_DEADLOCK FALSE
INVARIANT TargetGuaranteed
