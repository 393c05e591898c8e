CONSTANTS
  Node = {n1, n2, n3, n4, n5}
  State = {s1, s2, s3}
  Null = Null
  RandomizeFork = TRUE
  MaxId = 3
SYMMETRY Alike
SPECIFICATION Spec
INVARIANTS TypeOK EachStateHasItsLeaf WalkIsSafe IdsAreDistinct
CHECK_DEADLOCK FALSE
