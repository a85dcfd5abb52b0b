CONSTANTS
  Outputs <- MCOutputs
  Settings <- MCSettings
  Scales <- MCScales
  Nothing = Nothing
  FgModes = {"Quality"}
SPECIFICATION HandoffSpec
INVARIANTS
  HandoffTypeOK
  NgxTakesCalls
  BoundInNeededState
  JitterCovers
  TagsArePaired
  TagsTellTheState
  SameMotion
