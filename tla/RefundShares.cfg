\* Three vendors, every base up to 4 pesewas, every fee within it.
CONSTANTS
  Snapshots = 3
  MaxBase = 4
SPECIFICATION SharesSpec
CHECK_DEADLOCK FALSE
INVARIANTS
  SharesAreFair
PROPERTIES
  FeeFollowsBase
