SPECIFICATION Spec
CONSTANTS
  a = a
  b = b
  None = None
  Sessions <- OneSession
  N = 2
  K = 2
  MaxBuffered = 2
  ArenaFull = FALSE
  OpenFails = FALSE
  DiskFails = FALSE
  MaxOpens = 3
  MaxAnnounced = 2
  MaxRestarts = 0
  MaxLate = 0
  BatchSize = 1
  MaxCloses = 0
INVARIANT ManifestSeenOnce
