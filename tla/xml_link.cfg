SPECIFICATION Spec
CONSTANTS
  Actors = {a}
  MaxSubmissions = 2
  MaxChecks = 2
  NewestFirst = TRUE
  Nothing = Nothing
INVARIANT LinkIsLegal
CHECK_DEADLOCK FALSE
