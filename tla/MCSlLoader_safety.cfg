CONSTANTS
  Sound = Sound
  Suspect = Suspect
  Unsigned = Unsigned
  Absent = Absent
  Contents = {Sound, Suspect, Unsigned}
  Trust <- MCTrust
  Signer <- MCSigner
  Complete <- MCComplete
  Plugins <- MCPlugins
  ShimNames <- MCShimNames
  MaxUpdates = 1
  MaxLoads = 2
SPECIFICATION Spec
INVARIANTS
  TypeOK
  MappedWasAccepted
  QuietLoadIsClean
  ProxyStaysMapped
CHECK_DEADLOCK FALSE
