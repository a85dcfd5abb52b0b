CONSTANTS
  Sound = Sound
  Suspect = Suspect
  Unsigned = Unsigned
  Absent = Absent
  Contents = {Sound, Suspect}
  Trust <- MCTrust
  Signer <- MCSigner
  Complete <- MCComplete
  Plugins <- MCPlugins
  ShimNames <- MCShimNames
  MaxUpdates = 1
  MaxLoads = 1
SPECIFICATION Spec
INVARIANTS
  NeverFreed
CHECK_DEADLOCK FALSE
