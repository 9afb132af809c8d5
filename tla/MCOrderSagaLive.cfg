SPECIFICATION FairSagaSpec
CONSTANTS
  o1 = o1
  o2 = o2
  o3 = o3
  b1 = b1
  Orders = {o1}
  Classes = {1, 2}
  Demand <- MCPair
  MaxQty = 1
  Totals = {}
  BatchSize = 1
  Buyers = {b1}
  BuyerOf <- MCBuyerOf
  Stock <- OneOfEach
  Impatient = TRUE
  Outcomes = {"COMPLETED", "FAILED"}
  MaxFaults = 1
PROPERTIES
  ImplementsSale
  PaidOrdersAreAnswered
  UnpaidOrdersTimeOut
CHECK_DEADLOCK FALSE
