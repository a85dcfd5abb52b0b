CONSTANTS
  Outputs <- MCOutputs
  Settings <- MCSettings
  Scales <- MCScales
  Nothing = Nothing
SPECIFICATION Spec
INVARIANTS
  RoughnessIsThere
