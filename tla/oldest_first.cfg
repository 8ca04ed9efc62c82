SPECIFICATION Spec
CONSTANTS
  Actors = {a}
  MaxSubmissions = 2
  MaxChecks = 2
  NewestFirst = FALSE
  Nothing = Nothing
INVARIANT RejectionIsTrue
CHECK_DEADLOCK FALSE
