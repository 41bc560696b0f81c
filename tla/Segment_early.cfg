SPECIFICATION Spec
CONSTANTS
  r1 = r1
  r2 = r2
  r3 = r3
  Procs <- ThreeProcs
  ShmHeaderBytes = 20
  SessionEntryBytes = 7
  BlockEntryBytes = 16
  SLOT_SIZE = 24
  MAX_SESSIONS = 3
  MAX_BLOCKS_PER_SESSION = 9
  ArenaBytes = 100
  Range32 = 256
  CallsFail = FALSE
  MaxAttempts = 2
  MaxCrashes = 0
INVARIANT AttachedIsComplete
