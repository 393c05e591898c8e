SPECIFICATION Spec
CONSTANTS
  State = {1, 2, 3}
  Initial = 2
  NoState = 0
  DumpStatesOnHalt = FALSE
  AllFeasible = TRUE
  Start <- CallsStart
  Successors <- CallsSuccessors
  Switches = {}
  Failing = {}
  Block <- CallsBlocks
  Instruction <- CallsInstructions
  Interesting <- CallsInteresting
  targetInstList <- CallsTargets
  Distance <- CallsDistances
PROPERTIES
  PruningIsSound
