SPECIFICATION Spec
CONSTANTS
  Invoices = {}
  Directs = {d1}
  Workers = {w1, w2}
  NoDoc = NoDoc
  MaxDeliveryAttempts = 2
  MaxAuthorizationChecks = 2
  MaxFaults = 0
  MaxManualRetries = 1
  StallingSri = FALSE
PROPERTY
  AuthorizedIsToldOnce
CHECK_DEADLOCK FALSE
