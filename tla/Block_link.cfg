SPECIFICATION Spec
CONSTANTS
  r1 = r1
  r2 = r2
  None = None
  Procs <- TwoProcs
  N = 2
  K = 1
  SlotCount = 2
  DiskFails = FALSE
  SendFails = FALSE
  MaxCrashes = 0
INVARIANT GatheredIsLinked
