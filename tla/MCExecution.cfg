CONSTANTS
  t1 = t1
  t2 = t2
  t3 = t3
  t4 = t4
  x = x
  y = y
  z = z
  u = u
  A = A
  B = B
  C = C
  p1 = p1
  p2 = p2
  v1 = v1
  v2 = v2
  Key = {x, y, z, u}
  Region = {A, B, C}
  Partition = {p1, p2}
  Value = {v1, v2}
  EmptyValue = EmptyValue
  Region0 = A
  NoRegion = NoRegion
  NoHolder = NoHolder
  NoState = NoState
  NoResult = NoResult
  PartitionOf <- MCPartitionOf
  Transaction <- MCTransaction
  Scenario <- MCScenario
SPECIFICATION Spec
INVARIANTS
  TypeOK
  OnlyKnownChecksFail
  Deterministic
  Serializable
PROPERTY EventuallyClean
CHECK_DEADLOCK FALSE
