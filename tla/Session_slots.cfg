SPECIFICATION Spec
CONSTANTS
  r1 = r1
  r2 = r2
  r3 = r3
  a = a
  b = b
  s1 = s1
  s2 = s2
  None = None
  SlotFree = SlotFree
  Procs <- TwoProcs
  Sessions <- TwoSessions
  MaxSessions = 1
  N = 2
  K = 1
  Slots <- TwoSlots
  DiskFails = TRUE
  WriterFails = TRUE
  MaxBroadcasts = 4
SYMMETRY Symmetry
INVARIANTS FreedOnce NoSlotStranded PurgedIsEmpty
CHECK_DEADLOCK FALSE
