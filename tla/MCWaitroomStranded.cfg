SPECIFICATION Spec
CONSTANTS
  s1 = s1
  s2 = s2
  Sessions = {s1, s2}
  Leavers = {s1}
  Outcomes = {"completed", "failed"}
  Tickets = 1
  BatchSize = 2
  MaxFaults = 0
INVARIANT QueuedEventsAreActive
CHECK_DEADLOCK FALSE
