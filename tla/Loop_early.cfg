SPECIFICATION FairSpec
CONSTANTS
  a = a
  b = b
  None = None
  Sessions <- OneSession
  N = 3
  K = 2
  MaxBuffered = 2
  ArenaFull = TRUE
  OpenFails = TRUE
  DiskFails = TRUE
  MaxOpens = 2
  MaxAnnounced = 2
  MaxRestarts = 1
  MaxLate = 1
  BatchSize = 2
  MaxCloses = 1
INVARIANTS TypeOK NothingForgotten DecodedIsReported
PROPERTIES EarlyDataDecodes HeartbeatGoesOn
