SPECIFICATION Spec
CONSTANTS
  LastNumber = 5
  Limit = 2
  NoNote = NoNote
INVARIANTS NotesAreTrue HolesAreNotedOnce ReportIsExact
PROPERTY CountsAreExact
CHECK_DEADLOCK FALSE
