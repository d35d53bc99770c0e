CONSTANTS
  Cycles <- OneCycle
  Messages <- OneStatement
  Swaps <- OneSwap
  MaxTime = 1
SPECIFICATION LiveSpec
PROPERTIES ClosedHasNoEnergy
CHECK_DEADLOCK FALSE
