CONSTANTS
  o1 = o1
  main_fund = main_fund
  f1 = f1
  nil = nil
  Ids = {o1}
  Funds = {main_fund, f1}
  Main = main_fund
  Nil = nil
  Units = 1
  MaxQueued = 1
  MaxRestarts = 1

SPECIFICATION FairSpec

INVARIANTS
  HoldsMatchOrders
  OwnFundOnly
  QuietListingIsLive

PROPERTIES
  GoneForGood
  ReportedInTheEnd

CHECK_DEADLOCK FALSE
