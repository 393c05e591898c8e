SPECIFICATION Spec
CONSTANTS
  State = {s1, s2, s3}
  Initial = s1
  NoState = NoState
  MaxFork = 2
  Guided = TRUE
  UseSeeds = FALSE
  OnlyReplaySeeds = FALSE
  OnlySeed = FALSE
  MaxDepth = TRUE
  MaxInstructionTime = FALSE
  MaxMemory = FALSE
  DumpStatesOnHalt = FALSE
INVARIANTS
  UpdateAssertionHolds
