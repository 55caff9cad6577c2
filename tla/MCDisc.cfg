SPECIFICATION Spec
CONSTANTS
  LastFrame = 4
  Framefile <- MCFramefile
  Pictures <- MCPictures
  NoFile = "none"
  Present = {"a", "b"}
  Sounding = {"a", "b"}
  Seekable = {"a"}
  Functions <- MCAll
  Handlers = {}
  MaxDepth = 1
  MaxNested = 0
  Prompt = FALSE
INVARIANTS
  TypeOK
  RightSource
PROPERTIES
  ImplementsDeck
CHECK_DEADLOCK FALSE
