\* Three orders ask for the coupon, one of them is paid at once; the fourth is priced
\* with promotions off (the switch may be turned while others wait).
CONSTANTS
  o1 = o1
  o2 = o2
  o3 = o3
  o4 = o4
  Order = {o1, o2, o3, o4}
  Quantity <- MCQuantity
  Shelf = 3
  Immediate = {o1}
  Coded = {o1, o2, o3}
  Promoted = {o1, o2, o3}
  UsageLimit = 2
  Discount <- MCDiscount
  BudgetCap = 4
SPECIFICATION FairSpec
CHECK_DEADLOCK FALSE
INVARIANTS
  PaidKeepsItsGoods
  StockNeverLost
  CouponWithinLimits
  ChargeIsAnswered
PROPERTIES
  UnpaidComesBack
