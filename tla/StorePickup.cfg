SPECIFICATION FairSpec
CONSTANTS
  Screens = {s1, s2}
  Limit = 2
  Disputes = {d1, d2}
  Base = 4
  Discount = 1
  Charged = 1
  MaxFails = 1
INVARIANTS
  ShownIsExpected
  GoodsInOnePlace
  CancelledIsRefunded
PROPERTIES
  NoGoodsAfterMoney
  NotCollectedIsRefunded
CHECK_DEADLOCK FALSE
