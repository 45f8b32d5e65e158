SPECIFICATION Spec
CONSTANTS
  FrameGap <- OneSecond
  MaxPts = 4000000
  FileMaxDuration = 1
  SystemFreeSize = 1
  Capacity = 9
  OldFiles = 1
  MaxNow = 2
  MaxSignals = 0
  MkdirMayFail = TRUE
PROPERTIES
  RemoveOnlyWhenLow
