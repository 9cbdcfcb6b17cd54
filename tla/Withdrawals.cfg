\* Two withdrawals of one holder: the first with a provider that answers status calls,
\* the second with one that cannot be asked (Hubtel until its status call is built).
CONSTANTS
  w1 = w1
  w2 = w2
  h1 = h1
  Withdrawal = {w1, w2}
  Holder = {h1}
  HolderOf <- MCHolderOf
  Amount <- MCAmount
  Opening = 2
  TxLimit = 2
  DailyLimit = 3
  MaxBalance = 2
  MaxDebt = 1
  Reporting = {w1}
  Simulated = {}
SPECIFICATION FairSpec
CHECK_DEADLOCK FALSE
INVARIANTS
  BooksBalance
  SentAtMostOnce
  PaidNeverReturned
PROPERTIES
  KeepsPromise
  SettledInTheEnd
