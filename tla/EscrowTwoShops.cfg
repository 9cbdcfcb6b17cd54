\* Two shops, the first paying the delivery itself; a coupon, a payment charge, two cases.
CONSTANTS
  own = own
  third = third
  Rider = {own, third}
  ThirdParty = {third}
  Vendors = 2
  Base = 3
  Fee = 1
  DeliveryFee = 0
  Waived = 2
  BusinessFunds = TRUE
  Discount = 2
  Processing = 1
  RedoFee = 1
  Cases = 2
  MaxTrips = 1
  LateReads = FALSE
SPECIFICATION Spec
CHECK_DEADLOCK FALSE
INVARIANTS
  HeldIsEnough
  VendorPaidRight
  DelivererIsPaid
PROPERTIES
  PaidForOwnTrip
