SPECIFICATION FairSpec
CONSTANTS
  p1 = p1
  p2 = p2
  Pods = {p1, p2}
  Last = 2
  MaxAttempts = 2
  MaxTrouble = 2
INVARIANTS
  DeliveryInv
PROPERTIES
  KeepsItsPlace
  MessagesSettle
CHECK_DEADLOCK FALSE
