SPECIFICATION FairSpec
CONSTANTS
  r1 = r1
  r2 = r2
  None = None
  Procs <- TwoProcs
  N = 3
  K = 2
  SlotCount = 3
  DiskFails = TRUE
  SendFails = TRUE
  MaxCrashes = 1
INVARIANTS TypeOK OneDecoder SeenCountsPresent ThresholdNoticed SlotsInOnePlace ReportedIsOnDisk
PROPERTIES KeepsPromise EventuallyDecoded
