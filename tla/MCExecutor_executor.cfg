SPECIFICATION FairSpec
CONSTANTS
  State = {s1, s2, s3, s4}
  Initial = s1
  NoState = NoState
  MaxFork = 2
  Guided = TRUE
  UseSeeds = TRUE
  OnlyReplaySeeds = TRUE
  OnlySeed = FALSE
  MaxDepth = TRUE
  MaxInstructionTime = TRUE
  MaxMemory = TRUE
  DumpStatesOnHalt = TRUE
INVARIANTS
  TypeOK
  SearcherTracksHeap
  NothingLeaksOrDangles
  CurrentIsAllocated
  TerminatedOnce
  SeedsBelongToAllocatedStates
PROPERTIES
  ImplementsExploration
  HaltIsHonoured
