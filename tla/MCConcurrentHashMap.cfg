CONSTANTS
  t1 = t1
  t2 = t2
  t3 = t3
  Thread <- MCThread
  Key = {0, 2, 1}
  Value = {v}
  NoValue = NoValue
  HashFn <- MCHashFn
  NumShards = 2
  InitialBucketCount = 1
  MaxReaders = 2
  MaxCalls <- MCMaxCalls
SPECIFICATION Spec
INVARIANT Exclusive
PROPERTIES ImplementsStorage EveryCallReturns
CHECK_DEADLOCK FALSE
