SPECIFICATION FairSpec
CONSTANTS
  r1 = r1
  r2 = r2
  r3 = r3
  a = a
  b = b
  s1 = s1
  s2 = s2
  None = None
  SlotFree = SlotFree
  Procs <- TwoProcs
  Sessions <- TwoSessions
  MaxSessions = 1
  N = 1
  K = 1
  Slots <- OneSlot
  DiskFails = FALSE
  WriterFails = FALSE
  MaxBroadcasts = 3
PROPERTY OldGenerationRejected
CHECK_DEADLOCK FALSE
