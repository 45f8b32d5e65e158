SPECIFICATION FairSpec
CONSTANTS
  MaxFrame = 6
  Classes = 2
  PicturesOf <- MCPicturesOf
  Thres = 3
  NmsPercent = 45
  MaxObjects = 3
  ModelSize <- MCModelSize
  CropSize <- MCCropSize
  FrameSize <- MCFrameSize
INVARIANTS
  TypeOK
  NoMutualWait
  SameFrameInTime
  DetectionsSound
PROPERTIES
  ResultKept
  InferenceSentOn
CHECK_DEADLOCK FALSE
