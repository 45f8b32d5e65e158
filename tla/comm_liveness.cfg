SPECIFICATION FairSpec
CONSTANTS
  MaxPackets = 1
  MaxSignals = 1
  MaxLines = 1
  SaveTo = {}
  Names = {}
  NoFile = NoFile
  MaxRotations = 0
PROPERTIES
  StopCompletes
  PoweroffEnds
