SPECIFICATION KeySpec
CONSTANTS
  Attempts = {a1, a2}
  Dated = TRUE
  IssueDay = 0
  LastDay = 2
  MaxKeyChecks = 2
  NoKey = NoKey
INVARIANTS
  SentIsRegistered
PROPERTIES
  KeyIsStable
CHECK_DEADLOCK FALSE
