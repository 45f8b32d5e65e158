SPECIFICATION Spec
CONSTANTS
  MaxFrame = 3
  Classes = 2
  PicturesOf <- MCPicturesOf
  Thres = 3
  NmsPercent = 45
  MaxObjects = 3
  ModelSize <- MCModelSize
  CropSize <- MCCropSize
  FrameSize <- MCFrameSize
INVARIANTS
  SameFrame
CHECK_DEADLOCK FALSE
