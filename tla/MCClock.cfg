SPECIFICATION Spec
CONSTANTS
  Kiloseconds = 7
  Vpks = 4
  Rates = {2, 3}
  Speeds <- MCSpeeds
  Jumps <- MCJumps
  Home = 1
  Goals = {1, 3}
  MaxAsked = 4
  LastMs = 8
  LastFrame = 5
INVARIANTS KeepsTime InStep
