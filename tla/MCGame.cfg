SPECIFICATION FairSpec
CONSTANTS
  MaxInputs = 2
  MaxDepth = 4
INVARIANTS CoinsInOrder FlagMeansStill
PROPERTY QuitEnds
CHECK_DEADLOCK FALSE
