CONSTANTS
  Home = 0
  Partitions = {0, 1}
  BatchBound = 2
  Config <- MCConfig
SPECIFICATION Spec
INVARIANTS
  EmittedInOrder
  OrderReplicated
PROPERTY EverythingEmitted
CHECK_DEADLOCK FALSE
