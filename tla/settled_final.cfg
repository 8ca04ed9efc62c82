SPECIFICATION Spec
CONSTANTS
  Invoices = {i1}
  Directs = {}
  Workers = {w1, w2}
  NoDoc = NoDoc
  MaxDeliveryAttempts = 2
  MaxAuthorizationChecks = 2
  MaxFaults = 0
  MaxManualRetries = 2
  StallingSri = FALSE
PROPERTY
  SettledIsFinal
SYMMETRY Symmetry
CHECK_DEADLOCK FALSE
