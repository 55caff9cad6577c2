SPECIFICATION AudioSpec
CONSTANTS
  Length = 10
  Goals = {0, 3}
  Chunk = 4
  Lens = {2, 5}
  Rounds = 2
  Wrap = 8
  MaxTime = 9
INVARIANT InPlace
PROPERTY CatchesUp
