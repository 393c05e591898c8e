SPECIFICATION Spec
CONSTANTS
  Space = {s1, s2, s3}
  First = s1
  Object = {o1, o2}
  ReadOnly = {}
  ObjectState = {c1, c2, c3}
  None = None
  Value = {v1, v2}
  Unbound = Unbound
  MaxKey = 3
INVARIANTS
  TypeOK
  OwnersAreBelowTheKey
  OwnedIsPrivate
PROPERTIES
  ImplementsPrivateMemory
SYMMETRY Addresses
CHECK_DEADLOCK FALSE
