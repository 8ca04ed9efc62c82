SPECIFICATION DirectSpec
CONSTANTS
  Supports <- DirectSupports
  Requests <- DirectRequests
  Nothing = Nothing
  WithholdingBodies <- SmallWithholdings
  GuideBodies <- SmallGuides
  Calendar <- SmallCalendar
  FirstDay = 3
  LastDay = 4
INVARIANT NumberedIsNotLost
CHECK_DEADLOCK FALSE
