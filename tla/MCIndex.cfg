SPECIFICATION IndexSpec
CONSTANTS
  Files <- MCFiles
  Chunk = 3
  MaxFrames = 5
INVARIANTS FinishedIsWhole IndexFits
PROPERTY OpenEnds
CHECK_DEADLOCK FALSE
