CONSTANTS
  Run = {hour, next}
  Cycle = {2}
  Day7 = 1
  Day13 = 2
  Grace = 3
  LateDiscovery = 1
  Slow = 1
  MaxTime = 4
  MaxSwitches = 1
SPECIFICATION FairBilling
CHECK_DEADLOCK FALSE
INVARIANTS
  PaidIsShown
PROPERTIES
  FairWarning
  UnpaidIsHidden
