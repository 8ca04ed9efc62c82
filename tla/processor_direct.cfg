SPECIFICATION FairSpec
CONSTANTS
  Invoices = {}
  Directs = {d1}
  Workers = {w1, w2}
  NoDoc = NoDoc
  MaxDeliveryAttempts = 2
  MaxAuthorizationChecks = 2
  MaxFaults = 1
  MaxManualRetries = 1
  StallingSri = FALSE
INVARIANTS
  CopiesAreSound
PROPERTIES
  EveryDocumentEnds
CHECK_DEADLOCK FALSE
