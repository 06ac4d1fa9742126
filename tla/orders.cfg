SPECIFICATION FairSpec
CONSTANTS
  Orders = {o1, o2}
  Runs = {o1}
  Transfers = {x1}
  Handlers = {h1, h2}
  None = None
  Prices = {100}
  Amounts = {96, 97}
  Tolerance = 3
  MaxOpen = 2
  MaxDropped = 1
  MaxCrashes = 1
INVARIANTS
  TypeOK
  PaidIsCovered
  DeliveredRunStarted
  BuyerHoldsToken
PROPERTIES
  KeepsPromise
  PaidIsDelivered
CHECK_DEADLOCK FALSE
