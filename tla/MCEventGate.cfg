SPECIFICATION FairGateSpec
CONSTANTS
  c1 = c1
  c2 = c2
  j1 = j1
  j2 = j2
  Calls = {c1, c2}
  Users = {"ann", "ed"}
  Role <- MCRole
  Rules = {"line", "no line"}
  Joiners = {j1, j2}
  TTL = 1
  Budget = 1
INVARIANTS
  GateInv
PROPERTIES
  PublishedUntilStaleApproval
  ConfiguredDraftsAdvance
  AnswersAreRecent
  JoinersAreAnswered
