SPECIFICATION Spec
CONSTANTS
  Invoices = {i1}
  Directs = {}
  Workers = {w1}
  NoDoc = NoDoc
  MaxDeliveryAttempts = 2
  MaxAuthorizationChecks = 2
  MaxFaults = 1
  MaxManualRetries = 1
  StallingSri = FALSE
INVARIANTS
  TypeOK
  RowsAreTruthful
  NoSilentStop
  StatesArePublished
  VoidedAuthorizedIsTold
  VoidIsAnnounced
PROPERTY
  KeepsPromise
CHECK_DEADLOCK FALSE
