SPECIFICATION FairSpec
CONSTANTS
  N = 2
  Buffer = 2
  Lengths <- MCLengths
  MaxPlays = 3
  MaxCalls = 2
INVARIANTS Silenced ToldOnce
PROPERTY EndIsTold
