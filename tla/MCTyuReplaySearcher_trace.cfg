SPECIFICATION FairSpec
CONSTANTS
  State = {1, 2, 3, 4, 5}
  Initial = 3
  NoState = 0
  DumpStatesOnHalt = FALSE
  AllFeasible = TRUE
  Start <- ReturnsStart
  Successors <- ReturnsSuccessors
  Switches = {}
  Failing = {}
  Block <- ReturnsBlocks
  Instruction <- ReturnsInstructions
  Interesting <- ReturnsInteresting
  targetInstList <- ReturnsTargets
  Distance <- ReturnsDistances
PROPERTIES
  FindsTheTrace
