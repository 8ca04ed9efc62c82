SPECIFICATION Spec
CONSTANTS
  Invoices = {i1}
  Directs = {}
  Workers = {}
  NoDoc = NoDoc
  MaxDeliveryAttempts = 2
  MaxAuthorizationChecks = 2
  MaxFaults = 0
  MaxManualRetries = 0
  StallingSri = FALSE
INVARIANT
  VoidedAtSriIsTold
CHECK_DEADLOCK FALSE
