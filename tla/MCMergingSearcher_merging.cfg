SPECIFICATION FairSpec
CONSTANTS
  State = {s1, s2, s3}
  Initial = s1
  NoState = NoState
  Input = {i1, i2, i3}
  Loc <- Instructions
  Start = 1
  Succ <- Flow
  MergeCalls <- Merges
  OptionSets <- Commands
INVARIANTS
  TypeOK
  ListedOnce
  SelectedGoesOn
  InputsAreShared
PROPERTIES
  SelectionEnds
CHECK_DEADLOCK FALSE
