SPECIFICATION Spec
CONSTANTS
  Actors = {a, b}
  MaxSubmissions = 2
  MaxChecks = 2
  NewestFirst = TRUE
  Nothing = Nothing
INVARIANTS RejectionIsTrue LegalDocumentIsServed SentIsHeld
CHECK_DEADLOCK FALSE
