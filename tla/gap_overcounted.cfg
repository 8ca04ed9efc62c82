SPECIFICATION Spec
CONSTANTS
  LastNumber = 4
  Limit = 2
  NoNote = NoNote
PROPERTY NotesAreExact
CHECK_DEADLOCK FALSE
