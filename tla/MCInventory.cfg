SPECIFICATION FairSpec
CONSTANTS
  o1 = o1
  o2 = o2
  o3 = o3
  Orders = {o1, o2, o3}
  Classes = {1, 2}
  Demand <- MCDemand
  MaxQty = 2
  Totals = {2, 3}
  BatchSize = 2
INVARIANTS
  TypeOK
  NoOversell
  CountersMatchRows
  HeldOrderConfirms
  ConfirmIsWhole
PROPERTIES
  PaidStaysPaid
  CancelledOrdersAreNotSold
  LapsedHoldsEnd
CHECK_DEADLOCK FALSE
