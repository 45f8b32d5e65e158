SPECIFICATION Spec
CONSTANTS
  CommandLines <- MCCommandLines
  Inputs <- MCInputs
  PlaneSizes <- MCPlaneSizes
INVARIANTS
  TypeOK
  WindowsApart
  OutputAsAsked
  SavedWhole
