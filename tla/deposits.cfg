SPECIFICATION Spec
CONSTANTS
  ann = ann
  bob = bob
  treasury = treasury
  usdc = usdc
  usdt = usdt
  junk = junk
  None = None
  Deposits = {d}
  Sales = {s}
  Payloads <- MCPayloads
  Price <- MCPrice
  Treasury = treasury
  Tokens = {usdc, usdt}
  MaxRange = 2
  Window = 3
  Match = 2
  Lag = 1
  MaxHead = 5
PROPERTIES
  ScanIsExact
  SalesAreNotDeposits
CHECK_DEADLOCK FALSE
