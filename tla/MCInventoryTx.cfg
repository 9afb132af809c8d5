SPECIFICATION TxSpec
CONSTANTS
  o1 = o1
  o2 = o2
  p1 = p1
  p2 = p2
  Orders = {o1, o2}
  Classes = {1, 2}
  Demand <- MCDemand
  MaxQty = 2
  Totals = {2}
  BatchSize = 2
  Procs = {p1, p2}
INVARIANTS
  ReadsStayTrue
  OnlyDeletesDeadlock
PROPERTIES
  ImplementsLedger
SYMMETRY Connections
CHECK_DEADLOCK FALSE
