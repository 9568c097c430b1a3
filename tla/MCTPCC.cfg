CONSTANTS
  Config <- MCConfig
  Baskets <- MCBaskets
  LinePerOrder = 2
  Junk = {0, 1}
  CustPerDist = 1
  OrdPerDist = 2
  MaxItems = 2
  LastDelivered = 1
  LoadedStock = {10, 11}
  Amounts = {100, 101}
SPECIFICATION Spec
INVARIANTS NoneAborts SingleHome MoneyConserved OrdersConsistent StockBounded
CHECK_DEADLOCK FALSE
