SPECIFICATION FairSpec
CONSTANTS
  Invoices = {i1}
  Directs = {}
  Workers = {}
  NoDoc = NoDoc
  MaxDeliveryAttempts = 2
  MaxAuthorizationChecks = 2
  MaxFaults = 1
  MaxManualRetries = 0
  StallingSri = FALSE
PROPERTY
  VoidedIsFollowed
CHECK_DEADLOCK FALSE
