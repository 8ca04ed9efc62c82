SPECIFICATION Spec
CONSTANTS
  Invoices <- SmallDocuments
  CodeOf <- Catalog
  Settings <- SmallSettings
  IssueDay <- Day
  LastDay = 11
  Nothing = Nothing
INVARIANT FinalConsumerWithinCap
CHECK_DEADLOCK FALSE
