CONSTANTS
  MaxFrames = 2
  MaxCalls = 5
  Programs = {"frame_generation", "sr_plus_fg"}
  Ranges <- MCRanges
SPECIFICATION ProgramSpec
INVARIANTS
  FirstPresentedResets
CHECK_DEADLOCK FALSE
