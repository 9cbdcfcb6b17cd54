\* A delivery fee, a coupon, two second trips, assignments from an old reading.
CONSTANTS
  own = own
  third = third
  Rider = {own, third}
  ThirdParty = {third}
  Vendors = 1
  Base = 3
  Fee = 2
  DeliveryFee = 2
  Waived = 0
  BusinessFunds = TRUE
  Discount = 1
  Processing = 0
  RedoFee = 1
  Cases = 2
  MaxTrips = 2
  LateReads = TRUE
SPECIFICATION Spec
CHECK_DEADLOCK FALSE
INVARIANTS
  RedoFeeHeld
  FirstRiderIsPaid
  WholeIsWhole
