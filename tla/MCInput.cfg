SPECIFICATION InputSpec
CONSTANTS
  Keys = {"kp8", "g", "escape"}
  Sym <- MCSym
  Bound <- MCBound
  GrabKey = "g"
  Hats <- MCHats
  ButtonSwitch = 6
  MouseSwitch <- MCMouseSwitch
  MaxMoves = 3
  MaxChanges = 2
  MaxNesting = 2
INVARIANT SwitchesAgree
CHECK_DEADLOCK FALSE
