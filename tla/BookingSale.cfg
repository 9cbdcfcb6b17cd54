SPECIFICATION FairSpec
CONSTANTS
  Kinds = {"service", "stay", "tickets"}
  FromWallet = {"service", "stay"}
  SlowReview = {"service", "stay"}
  Tickets = {t1, t2}
  Price = 2
  Base = 4
  Charged = 1
  Processing = 1
INVARIANTS
  FeeIsItsShare
  RefundsAddUp
  CancelledIsNotReceived
PROPERTIES
  NoReleaseUnderDispute
  DueIsSettled
  CancelledEventPaysBack
CHECK_DEADLOCK FALSE
