CONSTANTS
  Region = {0, 1}
  bad = bad
  Key = {0, 1, 2, 3, bad}
  NonNumeric = {bad}
  NoRegion = NoRegion
  NumPartitions = 2
  MaxNumMachines = 100
  MaxBatches = 2
  MaxTxns = 2
  Transaction <- MCTransaction
  Config <- MCConfig
SPECIFICATION Spec
INVARIANTS
  TypeOK
  RoutedOnce
  OneGlobalOrder
  ResponsesCorrect
PROPERTY EventuallyAnswered
CHECK_DEADLOCK FALSE
