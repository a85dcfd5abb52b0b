CONSTANTS
  MaxInits = 2
  MaxNews = 3
  MaxSets = 3
  MaxFrames = 2
SPECIFICATION FairSpec
INVARIANTS
  TypeOK
  OneOwner
  EnabledMirrorsRuntime
  QueryModeWasAccepted
  ShutdownQuiet
PROPERTIES
  NewMovesOrKeeps
  DropCompletes
  RefinesStreamline
