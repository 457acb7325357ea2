SPECIFICATION Spec
CONSTANTS
  Files <- MCFiles
  Calls <- MCAnyOrder
  NoDay = NoDay
  Absent = Absent
  MaxCalls = 1
CHECK_DEADLOCK FALSE
PROPERTY
  UntouchedLinesStay
