SPECIFICATION FairSpec
CONSTANTS
  Frames = {f1, f2}
  NoFrame = NoFrame
  CountMod = 3
  AckMod = 2
  MaxMisses = 1
  Prompt = TRUE
INVARIANTS AckedMeansAccepted LockExcludes SearchFresh OpenAndBlockTruthful StatusHonest
PROPERTIES ImplementsChannel CommandsAnswered BusyEnds
