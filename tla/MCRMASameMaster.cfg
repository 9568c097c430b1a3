CONSTANTS
  TxnId = {t1, t2}
  Key = {k1}
  Region = {r1, r2}
  NoRegion = NoRegion
  Transaction <- AnyRemasters
SPECIFICATION Spec
INVARIANT AllLocksMeansReady
CHECK_DEADLOCK FALSE
