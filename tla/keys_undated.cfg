SPECIFICATION KeySpec
CONSTANTS
  Attempts = {a1, a2}
  Dated = FALSE
  IssueDay = 0
  LastDay = 2
  MaxKeyChecks = 2
  NoKey = NoKey
INVARIANTS
  SentIsRegistered
CHECK_DEADLOCK FALSE
