CONSTANTS
  MaxFrames = 2
  MaxCalls = 6
  Programs = {"frame_generation", "sr_plus_fg", "super_resolution",
              "dynamic_resolution", "ray_reconstruction", "sr_rr_toggle", "any client"}
  Ranges <- MCRanges
SPECIFICATION ProgramSpec
INVARIANTS
  ProgramTypeOK
  OrderReported
  NoPresentWithoutIndex
  FirstFrameResets
  ProgramsInOrder
  SwapchainBinds
  NothingStale
  SubrectsFit
  UnwindsInOrder
PROPERTIES
  ProgramEnds
CHECK_DEADLOCK FALSE
