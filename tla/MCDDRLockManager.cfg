CONSTANTS
  TxnId = {t1, t2, t3}
  Key = {k1, k2}
  Region = {r1, r2}
  NoRegion = NoRegion
  NoTxn = NoTxn
  Transaction <- MCTransaction
SYMMETRY Symmetry
SPECIFICATION Spec
INVARIANTS
  DispatchedStayReady
PROPERTY ImplementsLockOrder
CHECK_DEADLOCK FALSE
