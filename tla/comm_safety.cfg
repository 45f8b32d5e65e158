SPECIFICATION Spec
CONSTANTS
  MaxPackets = 0
  MaxSignals = 1
  MaxLines = 2
  SaveTo <- BothSave
  Names = {n1, n2}
  NoFile = NoFile
  MaxRotations = 2
SYMMETRY NameSymmetry
INVARIANTS
  TypeOK
  NoUseAfterDelete
  CleanExit
  FilesBounded
PROPERTY
  NoCommandAfterStop
