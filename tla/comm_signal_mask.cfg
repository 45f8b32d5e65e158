SPECIFICATION Spec
CONSTANTS
  MaxPackets = 1
  MaxSignals = 2
  MaxLines = 1
  SaveTo = {}
  Names = {}
  NoFile = NoFile
  MaxRotations = 0
INVARIANT
  MaskedSignalsNeverKill
