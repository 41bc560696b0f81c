SPECIFICATION FairSpec
CONSTANTS
  r1 = r1
  r2 = r2
  None = None
  Procs <- TwoProcs
  SlotCount = 2
  ListEnd <- End
  GenMod = 4
  Payloads <- ZeroPayload
  SpuriousCas = TRUE
  MaxCrashes = 1
INVARIANTS TypeOK Exclusive ChainIsAvail Window UsedCounts HighWaterNotBehind
PROPERTIES KeepsPool LockFree
