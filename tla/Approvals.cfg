CONSTANTS
  NoOne = NoOne
  boss = boss
  gm = gm
  ops = ops
  scout = scout
  cosign = cosign
  kyc1 = kyc1
  kyc2 = kyc2
  pay = pay
  own = own
  res = res
  Staff = {boss, gm, ops, scout, cosign}
  Request = {kyc1, kyc2, pay, own, res}
  Kind = {"kyc", "setting", "payout"}
  Value = {"pending", "verified", "rejected"}
  KindOf <- MCKindOf
  Maker <- MCMaker
  Asks <- MCAsks
  Manager <- MCManager
  SuperAdmin = {boss}
  ViewAll = {boss}
  Pool = {gm, ops}
  Cosigner = {cosign}
  GeneralManager = {gm}
  TwoPeople = {"kyc", "payout"}
  Money = {"setting", "payout"}
  WithAmount = {"setting", "payout"}
  Queued = {"kyc"}
  Desk = {boss}
  Leavers = {gm}
SPECIFICATION FairSpec
CONSTRAINT OneKind
CHECK_DEADLOCK FALSE
INVARIANTS
  SomeoneElseDecides
  LargeHasTwo
  DecisionsInTurn
PROPERTIES
  ReachesSuperAdmin
