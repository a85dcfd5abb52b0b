CONSTANTS
  MaxFrames = 2
  MaxCalls = 5
  Programs = {"frame_generation", "sr_plus_fg"}
  Ranges <- MCRanges
SPECIFICATION ProgramSpec
INVARIANTS
  GenerationOffFirst
CHECK_DEADLOCK FALSE
