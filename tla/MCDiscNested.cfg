SPECIFICATION FairSpec
CONSTANTS
  LastFrame = 4
  Framefile <- MCFramefile
  Pictures <- MCPictures
  NoFile = "none"
  Present = {"a", "b"}
  Sounding = {"a", "b"}
  Seekable = {"a", "b"}
  Functions <- MCMain
  Handlers <- MCHandlers
  MaxDepth = 2
  MaxNested = 2
  Prompt = TRUE
INVARIANTS
  SearchLands
  SettledAtReturn
PROPERTIES
  CallsReturn
CHECK_DEADLOCK FALSE
