SPECIFICATION Spec
CONSTANTS
  r1 = r1
  r2 = r2
  None = None
  Procs <- TwoProcs
  BlockBytes = 3
  FileSize = 7
  DiskSize = 9
  PageSize = 4
  TotalBlocks = 4
  SyncFails = TRUE
  MaxLosses = 1
SYMMETRY Symmetry
INVARIANTS TypeOK FlushedSurvives OnlyOwnBytes
