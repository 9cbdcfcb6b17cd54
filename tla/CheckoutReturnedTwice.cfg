\* Support cancels an order whose payment was not made.
CONSTANTS
  o1 = o1
  o2 = o2
  o3 = o3
  o4 = o4
  Order = {o1, o2}
  Quantity <- MCQuantity
  Shelf = 2
  Immediate = {}
  Coded = {}
  Promoted = {}
  UsageLimit = 1
  Discount <- MCDiscount
  BudgetCap = 1
SPECIFICATION Spec
CHECK_DEADLOCK FALSE
INVARIANTS
  ReturnedOnce
