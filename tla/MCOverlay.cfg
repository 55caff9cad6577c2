SPECIFICATION FairSpec
CONSTANTS
  small = small
  tall = tall
  large = large
  Sizes = {small, tall, large}
  NoSize = NoSize
  Width <- WidthOf
CHECK_DEADLOCK FALSE
INVARIANTS OverlayFits UsesAlive PaintsTheOther
PROPERTY OpenEnds
