SPECIFICATION Spec
CONSTANTS
  Programs <- SmallPrograms
  Line = {1, 2}
  MaxStack = 2
INVARIANTS
  AnswersReachability
  DistanceIsAWay
CHECK_DEADLOCK FALSE
