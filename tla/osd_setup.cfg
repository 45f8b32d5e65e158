SPECIFICATION FairSpec
CONSTANTS
  ConfFiles <- MCFiles
  PlaneSizes <- MCPlaneSizes
  CameraSizes <- MCCameraSizes
INVARIANTS
  TypeOK
  LastLineWins
  GraphSound
  RectInsidePlane
PROPERTIES
  InitReturns
