SPECIFICATION Spec
CONSTANTS
  Inputs <- MCInputs
  GpsSize = 2
  PacketSize = 12
  Crc <- MCCrc
  Zone = 28800
INVARIANTS
  TypeOK
  SettingsKeptApart
  FrameAfterSilence
PROPERTIES
  ClockNearGps
