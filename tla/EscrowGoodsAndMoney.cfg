\* A case is decided while the rider is on the way.
CONSTANTS
  own = own
  third = third
  Rider = {own, third}
  ThirdParty = {third}
  Vendors = 1
  Base = 2
  Fee = 1
  DeliveryFee = 2
  Waived = 0
  BusinessFunds = TRUE
  Discount = 0
  Processing = 0
  RedoFee = 1
  Cases = 1
  MaxTrips = 0
  LateReads = FALSE
SPECIFICATION Spec
CHECK_DEADLOCK FALSE
INVARIANTS
  GoodsOrMoney
