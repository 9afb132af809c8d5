SPECIFICATION SagaSpec
CONSTANTS
  o1 = o1
  o2 = o2
  o3 = o3
  b1 = b1
  Orders = {o1, o2}
  Classes = {1}
  Demand <- MCDemand
  MaxQty = 1
  Totals = {}
  BatchSize = 1
  Buyers = {b1}
  BuyerOf <- MCBuyerOf
  Stock <- LastTicket
  Impatient = FALSE
  Outcomes = {"COMPLETED", "FAILED"}
  MaxFaults = 0
SYMMETRY Codes
INVARIANTS
  CompletedOrdersHoldTheirTickets
PROPERTIES
  SettledOrdersAreFinal
CHECK_DEADLOCK FALSE
