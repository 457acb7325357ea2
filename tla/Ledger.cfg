SPECIFICATION Spec
CONSTANTS
  Files <- MCSafeFiles
  Calls <- MCInOrder
  NoDay = NoDay
  Absent = Absent
  MaxCalls = 2
CHECK_DEADLOCK FALSE
INVARIANT
  LedgerAlwaysParses
PROPERTIES
  UntouchedLinesStay
  RetryChangesNothing
  ImplementsEntries
