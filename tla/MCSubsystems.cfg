SPECIFICATION Spec
CONSTANTS
  LogCore = {1, 2}
  LogLen = 2
  FlushMax = 2
  MaxLogs = 3
  MaxFlushes = 1
  MaxLogNmis = 1
  ExitCost = {2, 3}
  HandlerCost = {3, 4}
  EntryCost = {2, 3}
  InsnCost = {1, 2}
  MaxTsc = 50
  VaPages = 20
  DirPages = 2
  PtrPages = 4
  SkipPages = 16
  SystemPtr <- MCSystemPtr
  SystemDir <- MCSystemDir
  SystemPte <- MCSystemPte
  MapRange <- MCMapRange
  MaxMaps = 3
  MtrrPages = 3
  FixedPages = 1
  MemType = {"UC", "WT", "WB"}
  PhysBase <- MCPhysBase
  PhysMask <- MCPhysMask
  VariableCount = 2
  GuestPage <- MCGuestPage
  TargetCr3 = {"zero", "process"}
  MaxChunk = 3
  Unbacked = {19, 7}
  CopyRequest <- MCCopyRequest
  MaxPaging = 1
  NCfgCores = 2
  TableSize = 2
  CfgAddr = {0, 8, 24}
  CfgRip = {8, 24, 16, 40}
  CfgMap <- MCCfgMap
  CfgFormat = {{}, {"rip", "rax"}}
  RegValue <- MCRegValue
  DefaultGeneric <- MCDefaultGeneric
  MaxConfigs = 3
  MaxLost = 1
  MaxRestarts = 1
  TraceDir <- MCTraceDir
  EntrySize = 2
  ModuleList <- MCModuleList
  SymbolRva <- MCSymbolRva
  MaxDiskChanges = 2
  Target = "drv"
  OtherModule = {"nt"}
  MaxBatches = 2
  MaxCommands = 2
  MaxUnloads = 1
  NLaunchCores = 2
  ControlCaps <- MCControlCaps
  tsc_hiding_enabled = TRUE
CHECK_DEADLOCK FALSE
INVARIANTS
  FlushExact
  HostMapAgrees
  NeverWeaker
  CopyExact
  DecodedAsWritten
  MergeCorrect
  SnapshotHasTarget
  LaunchedWhole
PROPERTIES
  GuestClockMonotone
