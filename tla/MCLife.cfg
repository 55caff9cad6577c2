SPECIFICATION FairSpec
CHECK_DEADLOCK FALSE
INVARIANTS UsesWhatIsThere MixerFits LeftAtEnd
PROPERTY QuitEnds
