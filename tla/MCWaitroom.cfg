SPECIFICATION FairSpec
CONSTANTS
  s1 = s1
  s2 = s2
  Sessions = {s1, s2}
  Leavers = {s1}
  Outcomes = {"completed", "failed"}
  Tickets = 1
  BatchSize = 2
  MaxFaults = 1
INVARIANTS
  TypeOK
  NobodyIsLost
  RoomFitsTickets
PROPERTIES
  EndedIsFinal
  NoOvertaking
  WaitersAreAnswered
CHECK_DEADLOCK FALSE
