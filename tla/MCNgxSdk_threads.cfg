\* Two cameras that may each create, render and drop once, with every panic point
\* on and a Mutex that a panic poisons.
SPECIFICATION FairSpec
CONSTANTS
  Cameras = {c1, c2}
  Main = main
  NoOne = noOne
  SrProbe = TRUE
  PanicPoints = {"record", "create submit", "eval submit", "stats"}
  MaxNews = 1
  MaxStats = 1
  MaxCreates = 1
  MaxRenders = 1
INVARIANTS
  TypeOK
  NgxSerialized
  NoUseAfterShutdown
  ReleasedOrAbandoned
  UseOnlyLiveHandles
  ReleaseOnlyIdle
  PrimingSurvives
  EvaluateSeesTransitions
PROPERTIES
  RefinesService
  LockWaitersProceed
  TeardownCompletes
