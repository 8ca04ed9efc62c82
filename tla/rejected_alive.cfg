SPECIFICATION Spec
CONSTANTS
  Actors = {a, b}
  MaxSubmissions = 2
  MaxChecks = 2
  NewestFirst = TRUE
  Nothing = Nothing
INVARIANT RejectedIsDead
CHECK_DEADLOCK FALSE
