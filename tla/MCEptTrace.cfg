SPECIFICATION Spec
CONSTANTS
  h = h
  a = a
  b = b
  c = c
  Page <- MCPage
  RegionCount = 3
  RegionOf <- MCRegionOf
  SplitCount = 2
  MaxHooks = 1
  Insn <- MCInsn
  NoInsn = NoInsn
INVARIANTS TypeOK TraceViews HooksArmed ReadsSeeOriginal Lockstep NoStaleTranslation NoUnhandledViolation
PROPERTIES TransitionTraced GuestProgress
