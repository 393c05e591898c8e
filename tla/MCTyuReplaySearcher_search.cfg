SPECIFICATION Spec
CONSTANTS
  State = {1, 2, 3, 4}
  Initial = 2
  NoState = 0
  DumpStatesOnHalt = TRUE
  AllFeasible = FALSE
  Start <- RoutesStart
  Successors <- RoutesSuccessors
  Switches <- RoutesSwitches
  Failing = {"lib", "e3"}
  Block <- RoutesBlocks
  Instruction <- RoutesInstructions
  Interesting <- RoutesInteresting
  targetInstList <- RoutesTargets
  Distance <- RoutesDistances
INVARIANTS
  TypeOK
  NoStateIsAhead
  GoalsMatchPath
  LastChoiceIsListed
PROPERTIES
  ImplementsExecutor
  PruningIsSound
  DismissedWithReason
