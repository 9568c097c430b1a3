CONSTANTS
  t1 = t1
  t2 = t2
  t3 = t3
  t4 = t4
  p1 = p1
  p2 = p2
  Txn = {t1, t2, t3, t4}
  Partition = {p1, p2}
  Slices <- MCSlices
  Config <- EitherOption
SPECIFICATION Spec
INVARIANTS
  TypeOK
  NothingLost
  PositionsMatchProposals
  RegionsAgree
  CallbackPending
PROPERTY EventuallySent
CHECK_DEADLOCK FALSE
