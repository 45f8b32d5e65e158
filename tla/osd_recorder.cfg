SPECIFICATION FairSpec
CONSTANTS
  FrameGap <- OneSecond
  MaxPts = 7000000
  FileMaxDuration = 1
  SystemFreeSize = 2
  Capacity = 4
  OldFiles = 2
  MaxNow = 2
  MaxSignals = 1
  MkdirMayFail = TRUE
INVARIANTS
  TypeOK
  NoLostWakeUp
  TeardownInOrder
  RecordingRemovedLast
PROPERTIES
  RotationServed
  StopCompletes
  RecyclingEnds
  RemovedForRoom
