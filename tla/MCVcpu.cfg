SPECIFICATION VcpuSpec
CONSTANTS
  NoInsn = NoInsn
  HasSmx = TRUE
  Cr4Lacks = {"PKS"}
  Insn <- MCInsn
  Bit <- MCBit
  Cr0Fixed0 = {"PE", "NE", "PG"}
  Cr0Fixed1 <- MCCr0Fixed1
  Cr4Fixed0 = {"VMXE"}
  Cr4Fixed1 <- MCCr4Fixed1
  OsCr0 = {"PE", "ET", "NE", "WP", "PG"}
  OsCr4 = {"PAE"}
  SplitDecrement = FALSE
  MaxNmi = 4
  Core = {c1, c2, c3}
  MaxErrors = 2
CHECK_DEADLOCK FALSE
INVARIANTS
  VmEntrySucceeds
  NmiTypeOK
  WindowArmed
  NmisConserved
  TypeOK
  OneRaiser
  BugcheckAfterAll
PROPERTIES
  LooksBare
  InstructionEnds
  NmisDelivered
  CrashCompletes
