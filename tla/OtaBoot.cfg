SPECIFICATION FairSpec
CONSTANTS
  Sec = 3
  MaxSize = 9
  Sizes = {1, 4, 9, 10}
  StartPages = 2
  MaxCuts = 3
  MaxFaults = 2
CHECK_DEADLOCK FALSE
INVARIANTS TypeOK RunsWholeFirmware DownloadKept StartsUnlessFirstCut ErasedForNext
PROPERTIES UpdateEnds
