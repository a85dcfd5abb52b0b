CONSTANTS
  Outputs <- MCUpscaled
  Settings <- MCUpscaledSettings
  Scales <- MCScales
  Nothing = Nothing
SPECIFICATION Spec
INVARIANTS
  SubrectFits
