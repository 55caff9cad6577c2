SPECIFICATION Spec
CONSTANTS
  None = None
  Streams <- MCStreams
INVARIANTS TypeOK DrawnInPlace CleanOnScreen SearchLandsOn
