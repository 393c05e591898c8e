SPECIFICATION Spec
CONSTANTS
  Programs <- CalledFromMain
  Line = {1, 2}
  MaxStack = 1
INVARIANTS
  CallersAreSearched
CHECK_DEADLOCK FALSE
