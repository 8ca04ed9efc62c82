SPECIFICATION Spec
CONSTANTS
  Invoices <- SmallDocuments
  CodeOf <- Catalog
  Settings <- SmallSettings
  IssueDay <- Day
  LastDay = 11
  Nothing = Nothing
INVARIANTS DocumentAddsUp GroupsMatchTheirRate CodesMatchRates KeptIsRegistered
  NoteNamesItsDay
CHECK_DEADLOCK FALSE
