SPECIFICATION Spec
CONSTANTS
  a = a
  b = b
  c = c
  Row <- MCRow
  FirstRow = a
  SparePool <- MCSpare
  NONE = NONE
  MaxClicks = 2
INVARIANTS TypeOK QuietWhenAnswered OneRowPerFill RowsKeepTheirText ListIsForItsQuery
PROPERTY FailureKeepsTheForm
CHECK_DEADLOCK FALSE
